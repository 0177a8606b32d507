------------------------- MODULE Av1TransportProofs -------------------------
(***************************************************************************)
(* The AV1 packetizer for every temporal unit of less than 2^64 octets     *)
(* (UnitsFit), cut anywhere, and every packet size: what the parser hands  *)
(* to the sender, where N and the marker are set, that a receiver finishes *)
(* whole elements, in order, and that what the parser finds is what the    *)
(* encoder wrote.                                                          *)
(***************************************************************************)
EXTENDS Av1Transport, RtpTransportProofs

-----------------------------------------------------------------------------
(* The parser. *)

(* There is a table of what the loop holds after k turns, and what         *)
(* satisfies its equation is one.                                          *)
Turned(obus, p) == IF p.n = -1 \/ p.pos > Len(obus) THEN p ELSE parse_obu(obus, p)

Begun == [pos |-> 1, n |-> 0, elements |-> << >>]

LEMMA TableExists ==
  ASSUME NEW obus
  PROVE  \A N \in Nat : \E f : f = [k \in 0 .. N |-> IF k = 0 THEN Begun ELSE Turned(obus, f[k - 1])]
<1> DEFINE P(N) == \E f : f = [k \in 0 .. N |-> IF k = 0 THEN Begun ELSE Turned(obus, f[k - 1])]
           S == {N \in Nat : P(N)}
<1>1. 0 \in S
  <2> DEFINE f == [k \in 0 .. 0 |-> Begun]
  <2>1. f = [k \in 0 .. 0 |-> IF k = 0 THEN Begun ELSE Turned(obus, f[k - 1])]
    OBVIOUS
  <2> QED
    BY <2>1
<1>2. ASSUME NEW N \in Nat, N \in S PROVE N + 1 \in S
  <2>1. PICK f : f = [k \in 0 .. N |-> IF k = 0 THEN Begun ELSE Turned(obus, f[k - 1])]
    BY <1>2
  <2> DEFINE g == [k \in 0 .. N + 1 |-> IF k = N + 1 THEN Turned(obus, f[N]) ELSE f[k]]
  <2>2. ASSUME NEW k \in 0 .. N + 1
        PROVE  g[k] = IF k = 0 THEN Begun ELSE Turned(obus, g[k - 1])
    <3>1. CASE k = N + 1
      <4>1. k # 0 /\ k - 1 = N /\ N \in 0 .. N + 1 /\ N # N + 1
        BY <3>1
      <4>2. g[k - 1] = f[N]
        BY <4>1
      <4> QED
        BY <3>1, <4>1, <4>2
    <3>2. CASE k # N + 1
      <4>1. k \in 0 .. N /\ f[k] = IF k = 0 THEN Begun ELSE Turned(obus, f[k - 1])
        BY <2>1, <3>2
      <4>2. k # 0 => k - 1 \in 0 .. N + 1 /\ k - 1 # N + 1
        BY <4>1
      <4>3. k # 0 => g[k - 1] = f[k - 1]
        BY <4>2
      <4> QED
        BY <3>2, <4>1, <4>3
    <3> QED
      BY <3>1, <3>2
  <2>3. g = [k \in 0 .. N + 1 |-> IF k = 0 THEN Begun ELSE Turned(obus, g[k - 1])]
    BY <2>2
  <2> HIDE DEF g
  <2>4. P(N + 1)
    BY <2>3
  <2> HIDE DEF P
  <2> QED
    BY <2>4
<1>3. Nat \subseteq S
  <2> HIDE DEF S
  <2> QED
    BY <1>1, <1>2, SetInduction
<1> QED
  BY <1>3

LEMMA ParseTable ==
  ASSUME NEW obus, Len(obus) \in Nat
  PROVE  \E f : /\ parse_obus(obus) = f[Len(obus)]
                /\ \A k \in 0 .. Len(obus) :
                     f[k] = IF k = 0 THEN Begun ELSE Turned(obus, f[k - 1])
<1> DEFINE Table(f) == f = [k \in 0 .. Len(obus) |->
                              IF k = 0 THEN Begun ELSE Turned(obus, f[k - 1])]
           parsed == CHOOSE f : Table(f)
<1>1. \E f : Table(f)
  BY TableExists
<1>2. Table(parsed)
  BY <1>1
<1>3. parse_obus(obus) = parsed[Len(obus)]
  BY DEF parse_obus, Turned, Begun
<1> HIDE DEF parsed
<1> QED
  BY <1>2, <1>3

-----------------------------------------------------------------------------
(* Sequences of octets. *)

(* A sequence, of whatever values. *)
IsSeq(s) == Len(s) \in Nat /\ s = [k \in 1 .. Len(s) |-> s[k]]

LEMMA SeqIs ==
  ASSUME NEW s, IsSeq(s)
  PROVE  s \in Seq({s[k] : k \in 1 .. Len(s)})
<1> DEFINE S == {s[k] : k \in 1 .. Len(s)}
           n == Len(s)
<1>1. n \in Nat /\ s = [k \in 1 .. n |-> s[k]]
  BY DEF IsSeq
<1>2. \A k \in 1 .. n : s[k] \in S
  OBVIOUS
<1> HIDE DEF S, n
<1>3. s \in [1 .. n -> S]
  BY <1>1, <1>2
<1> QED
  BY <1>1, <1>3, SeqDef DEF S, n

LEMMA IsSeqOf ==
  ASSUME NEW S, NEW s \in Seq(S)
  PROVE  IsSeq(s)
BY LenProperties DEF IsSeq

LEMMA AppendIs ==
  ASSUME NEW s, IsSeq(s), NEW x
  PROVE  /\ IsSeq(Append(s, x)) /\ Len(s) \in Nat /\ Len(Append(s, x)) = Len(s) + 1
         /\ \A k \in 1 .. Len(s) : Append(s, x)[k] = s[k]
         /\ Append(s, x)[Len(s) + 1] = x
<1> DEFINE S == {s[k] : k \in 1 .. Len(s)} \cup {x}
<1>1. s \in Seq(S) /\ x \in S
  <2>1. s \in Seq({s[k] : k \in 1 .. Len(s)})
    BY SeqIs
  <2> QED
    BY <2>1
<1> HIDE DEF S
<1>2. /\ Append(s, x) \in Seq(S) /\ Len(s) \in Nat /\ Len(Append(s, x)) = Len(s) + 1
      /\ \A k \in 1 .. Len(s) : Append(s, x)[k] = s[k]
      /\ Append(s, x)[Len(s) + 1] = x
  BY <1>1, AppendProperties, LenProperties
<1> QED
  BY <1>2, IsSeqOf

(* The octets of a chunk, and chunks one behind the other. *)
LEMMA ChunkIs ==
  ASSUME NEW s, IsSeq(s), NEW a \in Nat, NEW b \in Nat, a <= b, b <= Len(s)
  PROVE  LET c == SubSeq(s, a + 1, b)
         IN  /\ IsSeq(c) /\ Len(c) = b - a
             /\ \A k \in 1 .. b - a : c[k] = s[a + k]
             /\ a < b => c # << >>
<1> DEFINE S == {s[k] : k \in 1 .. Len(s)}
           c == SubSeq(s, a + 1, b)
<1>1. s \in Seq(S) /\ Len(s) \in Nat
  BY SeqIs DEF IsSeq
<1> HIDE DEF S
<1>2. c \in Seq(S) /\ Len(c) = b - a /\ \A k \in 1 .. b - a : c[k] = s[a + k]
  <2>1. \A k \in a + 1 .. b : s[k] \in S
    BY <1>1
  <2>2. /\ c \in Seq(S)
        /\ Len(c) = IF a + 1 <= b THEN b - (a + 1) + 1 ELSE 0
        /\ \A k \in 1 .. b - (a + 1) + 1 : c[k] = s[a + 1 + k - 1]
    BY <1>1, <2>1, SubSeqProperties
  <2> HIDE DEF c
  <2> QED
    BY <2>2
<1>3. a < b => c # << >>
  BY <1>2
<1> QED
  BY <1>2, <1>3, IsSeqOf

LEMMA ChunksJoin ==
  ASSUME NEW s, IsSeq(s), NEW a \in Nat, NEW b \in Nat, a <= b, b <= Len(s)
  PROVE  /\ SubSeq(s, 1, a) \o SubSeq(s, a + 1, b) = SubSeq(s, 1, b)
         /\ SubSeq(s, 1, Len(s)) = s
<1> DEFINE S == {s[k] : k \in 1 .. Len(s)}
<1>1. s \in Seq(S) /\ Len(s) \in Nat
  BY SeqIs DEF IsSeq
<1> HIDE DEF S
<1> DEFINE c == SubSeq(s, 1, a)
           d == SubSeq(s, a + 1, b)
           e == SubSeq(s, 1, b)
           j == c \o d
<1>2. /\ c \in Seq(S) /\ Len(c) = a /\ \A k \in 1 .. a : c[k] = s[k]
      /\ d \in Seq(S) /\ Len(d) = b - a /\ \A k \in 1 .. b - a : d[k] = s[a + k]
      /\ e \in Seq(S) /\ Len(e) = b /\ \A k \in 1 .. b : e[k] = s[k]
  BY <1>1, SMT
<1> HIDE DEF c, d, e
<1>3. /\ j \in Seq(S) /\ Len(j) = b
      /\ \A k \in 1 .. b : j[k] = IF k <= a THEN c[k] ELSE d[k - a]
  <2>1. /\ j \in Seq(S) /\ Len(j) = Len(c) + Len(d)
        /\ \A k \in 1 .. Len(c) + Len(d) : j[k] = IF k <= Len(c) THEN c[k] ELSE d[k - Len(c)]
    <3>1. c \in Seq(S) /\ d \in Seq(S)
      BY <1>2
    <3> QED
      BY <3>1, ConcatProperties
  <2>2. Len(c) + Len(d) = b
    BY <1>2
  <2> QED
    BY <1>2, <2>1, <2>2
<1> HIDE DEF j
<1>4. ASSUME NEW k \in 1 .. b PROVE j[k] = e[k]
  <2>1. CASE k <= a
    BY <1>2, <1>3, <2>1
  <2>2. CASE k > a
    <3>1. k - a \in 1 .. b - a /\ a + (k - a) = k
      BY <2>2
    <3>2. j[k] = d[k - a] /\ d[k - a] = s[k]
      BY <1>2, <1>3, <2>2, <3>1
    <3> QED
      BY <1>2, <3>2
  <2> QED
    BY <2>1, <2>2
<1>5. j = e
  BY <1>2, <1>3, <1>4, SeqEqual
<1>6. SubSeq(s, 1, Len(s)) = s
  <2> DEFINE f == SubSeq(s, 1, Len(s))
  <2>1. f \in Seq(S) /\ Len(f) = Len(s) /\ \A k \in 1 .. Len(s) : f[k] = s[k]
    BY <1>1, SMT
  <2> HIDE DEF f
  <2>2. f = s
    BY <1>1, <2>1, SeqEqual
  <2> QED
    BY <2>2 DEF f
<1> QED
  BY <1>5, <1>6 DEF j, c, d, e

-----------------------------------------------------------------------------
(* Sizes. *)

(* What is left of a value after every octet. *)
LeftTable(v, N, f) == f = [k \in 0 .. N |-> IF k = 0 THEN v ELSE f[k - 1] \div LebBase]

(* There is a table of it. *)
LEMMA LeftExists ==
  ASSUME NEW v
  PROVE  \A N \in Nat : \E f : LeftTable(v, N, f)
<1> DEFINE P(N) == \E f : f = [k \in 0 .. N |-> IF k = 0 THEN v ELSE f[k - 1] \div LebBase]
           S == {N \in Nat : P(N)}
<1>1. 0 \in S
  <2> DEFINE f == [k \in 0 .. 0 |-> v]
  <2>1. f = [k \in 0 .. 0 |-> IF k = 0 THEN v ELSE f[k - 1] \div LebBase]
    OBVIOUS
  <2> QED
    BY <2>1
<1>2. ASSUME NEW N \in Nat, N \in S PROVE N + 1 \in S
  <2>1. PICK f : f = [k \in 0 .. N |-> IF k = 0 THEN v ELSE f[k - 1] \div LebBase]
    BY <1>2
  <2> DEFINE g == [k \in 0 .. N + 1 |-> IF k = N + 1 THEN f[N] \div LebBase ELSE f[k]]
  <2>2. ASSUME NEW k \in 0 .. N + 1
        PROVE  g[k] = IF k = 0 THEN v ELSE g[k - 1] \div LebBase
    <3>1. CASE k = N + 1
      <4>1. k # 0 /\ k - 1 = N /\ N \in 0 .. N + 1 /\ N # N + 1
        BY <3>1
      <4>2. g[k - 1] = f[N]
        BY <4>1
      <4> QED
        BY <3>1, <4>1, <4>2
    <3>2. CASE k # N + 1
      <4>1. k \in 0 .. N /\ f[k] = IF k = 0 THEN v ELSE f[k - 1] \div LebBase
        BY <2>1, <3>2
      <4>2. k # 0 => k - 1 \in 0 .. N + 1 /\ k - 1 # N + 1
        BY <4>1
      <4>3. k # 0 => g[k - 1] = f[k - 1]
        BY <4>2
      <4> QED
        BY <3>2, <4>1, <4>3
    <3> QED
      BY <3>1, <3>2
  <2>3. g = [k \in 0 .. N + 1 |-> IF k = 0 THEN v ELSE g[k - 1] \div LebBase]
    BY <2>2
  <2> HIDE DEF g
  <2>4. P(N + 1)
    BY <2>3
  <2> HIDE DEF P
  <2> QED
    BY <2>4
<1>3. Nat \subseteq S
  <2> HIDE DEF S
  <2> QED
    BY <1>1, <1>2, SetInduction
<1> QED
  BY <1>3 DEF LeftTable

(* The equation of the table. *)
LEMMA LeftIs ==
  ASSUME NEW v \in Nat
  PROVE  \A k \in 0 .. v + 1 :
           Left(v)[k] = IF k = 0 THEN v ELSE Left(v)[k - 1] \div LebBase
<1> DEFINE Table(f) == LeftTable(v, v + 1, f)
           left == CHOOSE f : Table(f)
<1>1. \E f : Table(f)
  <2>1. v + 1 \in Nat
    OBVIOUS
  <2> QED
    BY <2>1, LeftExists
<1>2. Table(left)
  BY <1>1
<1>3. Left(v) = left
  BY Zenon DEF Left, LeftTable
<1> HIDE DEF left
<1> QED
  BY <1>2, <1>3 DEF LeftTable

(* It is a number, and falls until it is 0. *)
LEMMA LeftFalls ==
  ASSUME NEW v \in Nat
  PROVE  /\ \A k \in 0 .. v + 1 : Left(v)[k] \in Nat
         /\ Left(v)[v + 1] = 0
<1> DEFINE l == Left(v)
           G == {k \in Nat : k <= v + 1 => l[k] \in Nat /\ (l[k] = 0 \/ l[k] + k <= v)}
<1>1. \A k \in 0 .. v + 1 : l[k] = IF k = 0 THEN v ELSE l[k - 1] \div LebBase
  BY LeftIs
<1>2. LebBase \in Nat \ {0} /\ LebBase >= 2
  BY Av1Assumption
<1> HIDE DEF l
<1>3. 0 \in G
  BY <1>1
<1>4. ASSUME NEW k \in Nat, k \in G PROVE k + 1 \in G
  <2> SUFFICES ASSUME k + 1 <= v + 1
               PROVE  l[k + 1] \in Nat /\ (l[k + 1] = 0 \/ l[k + 1] + (k + 1) <= v)
    OBVIOUS
  <2>1. k + 1 \in 0 .. v + 1 /\ k + 1 # 0 /\ (k + 1) - 1 = k /\ k <= v + 1
    OBVIOUS
  <2>2. l[k + 1] = l[k] \div LebBase
    BY <1>1, <2>1
  <2> DEFINE x == l[k]
             q == x \div LebBase
             r == x % LebBase
  <2>3. x \in Nat /\ (x = 0 \/ x + k <= v)
    BY <1>4, <2>1
  <2> HIDE DEF x
  <2>4. q \in Nat /\ r \in Nat /\ x = LebBase * q + r
    BY <1>2, <2>3, DivMod
  <2> HIDE DEF q, r
  <2>5. q = 0 \/ q + 1 <= x
    <3>1. LebBase * q >= 2 * q
      BY <1>2, <2>4, SMT
    <3> DEFINE z == LebBase * q
    <3>2. z \in Nat /\ z >= 2 * q /\ x = z + r
      BY <1>2, <2>4, <3>1
    <3> HIDE DEF z
    <3> QED
      BY <2>3, <2>4, <3>2
  <2>6. q = 0 \/ q + (k + 1) <= v
    BY <2>3, <2>4, <2>5
  <2> QED
    BY <2>2, <2>4, <2>6 DEF q, x
<1>5. Nat \subseteq G
  <2> HIDE DEF G
  <2> QED
    BY <1>3, <1>4, SetInduction
<1>6. ASSUME NEW k \in 0 .. v + 1 PROVE l[k] \in Nat
  BY <1>5
<1>7. l[v + 1] = 0
  <2>1. v + 1 \in Nat /\ v + 1 <= v + 1
    OBVIOUS
  <2>2. l[v + 1] \in Nat /\ (l[v + 1] = 0 \/ l[v + 1] + (v + 1) <= v)
    BY <1>5, <2>1
  <2> QED
    BY <2>2
<1> QED
  BY <1>6, <1>7 DEF l

(* Of the places where it is 0 there is a first. *)
LEMMA LeftEnds ==
  ASSUME NEW v \in Nat
  PROVE  \E n \in 1 .. v + 1 : Left(v)[n] = 0 /\ \A j \in 1 .. n - 1 : Left(v)[j] # 0
<1> DEFINE l == Left(v)
           First(n) == l[n] = 0 /\ \A j \in 1 .. n - 1 : l[j] # 0
           G == {k \in Nat : k <= v + 1 => \A j \in 1 .. k : l[j] # 0}
<1>1. l[v + 1] = 0
  BY LeftFalls
<1> HIDE DEF l
<1> SUFFICES ASSUME \A n \in 1 .. v + 1 : ~ First(n) PROVE FALSE
  BY DEF l
<1>2. 0 \in G
  OBVIOUS
<1>3. ASSUME NEW k \in Nat, k \in G PROVE k + 1 \in G
  <2> SUFFICES ASSUME k + 1 <= v + 1, NEW j \in 1 .. k + 1 PROVE l[j] # 0
    OBVIOUS
  <2>1. \A i \in 1 .. k : l[i] # 0
    BY <1>3
  <2>2. k + 1 \in 1 .. v + 1 /\ (k + 1) - 1 = k
    OBVIOUS
  <2>3. l[k + 1] # 0
    BY <2>1, <2>2
  <2> QED
    BY <2>1, <2>3
<1>4. Nat \subseteq G
  <2> HIDE DEF G
  <2> QED
    BY <1>2, <1>3, SetInduction
<1>5. v + 1 \in Nat /\ v + 1 <= v + 1 /\ v + 1 \in 1 .. v + 1
  OBVIOUS
<1>6. l[v + 1] # 0
  BY <1>4, <1>5
<1> QED
  BY <1>1, <1>6

(* The octets of a size: all but the last have the continuation bit, and   *)
(* each holds what is left before it, modulo the base.                     *)
LEMMA EncodeIs ==
  ASSUME NEW v \in Nat
  PROVE  LET s == leb128_encode(v)
             n == Len(s)
         IN  /\ IsSeq(s) /\ n \in 1 .. v + 1
             /\ \A i \in 1 .. n : /\ s[i].more <=> i < n
                                  /\ s[i].bits = Left(v)[i - 1] % LebBase
             /\ Left(v)[n] = 0
<1> DEFINE l == Left(v)
           First(n) == l[n] = 0 /\ \A j \in 1 .. n - 1 : l[j] # 0
           n == CHOOSE k \in 1 .. v + 1 : First(k)
           s == [i \in 1 .. n |-> [more |-> l[i] # 0, bits |-> l[i - 1] % LebBase]]
<1>1. leb128_encode(v) = s
  BY Zenon DEF leb128_encode
<1>2. n \in 1 .. v + 1 /\ First(n)
  <2>1. \E k \in 1 .. v + 1 : First(k)
    BY LeftEnds
  <2> HIDE DEF First
  <2> QED
    BY <2>1
<1> HIDE DEF n, l
<1>3. Len(s) = n /\ s = [k \in 1 .. Len(s) |-> s[k]]
  <2>1. n \in Nat
    BY <1>2
  <2>2. DOMAIN s = 1 .. n
    OBVIOUS
  <2>3. Len(s) = n
    BY <2>1, <2>2
  <2> QED
    BY <2>3
<1>4. IsSeq(s)
  <2> HIDE DEF s
  <2> QED
    BY <1>2, <1>3 DEF IsSeq
<1>5. ASSUME NEW i \in 1 .. n
      PROVE  (s[i].more <=> i < n) /\ s[i].bits = l[i - 1] % LebBase
  <2>1. s[i].more <=> l[i] # 0
    OBVIOUS
  <2>2. s[i].bits = l[i - 1] % LebBase
    OBVIOUS
  <2>3. l[i] # 0 <=> i < n
    <3>1. i = n \/ i \in 1 .. n - 1
      BY <1>2
    <3>2. i \in 1 .. n - 1 => i < n
      BY <1>2
    <3>3. ~ (n < n)
      BY <1>2
    <3> QED
      BY <1>2, <3>1, <3>2, <3>3
  <2> QED
    BY <2>1, <2>2, <2>3
<1> HIDE DEF s
<1> QED
  BY <1>1, <1>2, <1>3, <1>4, <1>5 DEF l

(* The octets of a size are read back as the size. *)
LEMMA NumberIs ==
  ASSUME NEW v \in Nat, NEW s, NEW n, n = Len(leb128_encode(v)),
         \A i \in 1 .. n : s[i].bits = leb128_encode(v)[i].bits
  PROVE  Number(s, n) = v
<1> DEFINE l == Left(v)
           Table(f) == f = [i \in 1 .. n + 1 |->
                              IF i = n + 1 THEN 0 ELSE s[i].bits + LebBase * f[i + 1]]
           from == CHOOSE f : Table(f)
           g == [i \in 1 .. n + 1 |-> l[i - 1]]
<1>1. /\ n \in 1 .. v + 1 /\ l[n] = 0
      /\ \A i \in 1 .. n : s[i].bits = l[i - 1] % LebBase
  BY EncodeIs
<1>2. \A k \in 0 .. v + 1 : l[k] = (IF k = 0 THEN v ELSE l[k - 1] \div LebBase) /\ l[k] \in Nat
  BY LeftIs, LeftFalls
<1>3. LebBase \in Nat \ {0}
  BY Av1Assumption
<1>4. Number(s, n) = from[1]
  BY DEF Number
<1> HIDE DEF l
<1>5. ASSUME NEW i \in 1 .. n
      PROVE  l[i - 1] = s[i].bits + LebBase * l[i]
  <2>1. i - 1 \in 0 .. v + 1 /\ i \in 0 .. v + 1 /\ i # 0
    BY <1>1
  <2>2. l[i] = l[i - 1] \div LebBase /\ l[i - 1] \in Nat /\ s[i].bits = l[i - 1] % LebBase
    BY <1>1, <1>2, <2>1
  <2> DEFINE x == l[i - 1]
             q == x \div LebBase
             r == x % LebBase
  <2>3. x \in Nat
    BY <2>2
  <2> HIDE DEF x
  <2>4. q \in Nat /\ r \in 0 .. LebBase - 1 /\ x = LebBase * q + r
    BY <1>3, <2>3, DivMod
  <2>5. s[i].bits = r /\ l[i] = q
    BY <2>2 DEF x
  <2> HIDE DEF q, r
  <2>6. LebBase * q \in Nat
    BY <1>3, <2>4
  <2>7. x = r + LebBase * q
    BY <2>4, <2>6
  <2> QED
    BY <2>5, <2>7 DEF x
<1>6. Table(g)
  <2>1. ASSUME NEW i \in 1 .. n + 1
        PROVE  g[i] = IF i = n + 1 THEN 0 ELSE s[i].bits + LebBase * g[i + 1]
    <3>1. CASE i = n + 1
      <4>1. i - 1 = n
        BY <1>1, <3>1
      <4> QED
        BY <1>1, <3>1, <4>1
    <3>2. CASE i # n + 1
      <4>1. i \in 1 .. n /\ i + 1 \in 1 .. n + 1 /\ (i + 1) - 1 = i
        BY <1>1, <3>2
      <4>2. g[i] = l[i - 1] /\ g[i + 1] = l[i]
        BY <4>1
      <4> QED
        BY <1>5, <3>2, <4>1, <4>2
    <3> QED
      BY <3>1, <3>2
  <2> QED
    BY <2>1
<1>7. Table(from)
  BY <1>6
<1> HIDE DEF from
<1> DEFINE D == {d \in Nat : d <= n => from[(n + 1) - d] = g[(n + 1) - d]}
<1>8. 0 \in D
  <2>1. (n + 1) - 0 = n + 1 /\ n + 1 \in 1 .. n + 1
    BY <1>1
  <2>2. from[n + 1] = 0 /\ g[n + 1] = 0
    BY <1>6, <1>7, <2>1
  <2> QED
    BY <2>1, <2>2
<1>9. ASSUME NEW d \in Nat, d \in D PROVE d + 1 \in D
  <2> SUFFICES ASSUME d + 1 <= n
               PROVE  from[(n + 1) - (d + 1)] = g[(n + 1) - (d + 1)]
    OBVIOUS
  <2> DEFINE i == (n + 1) - (d + 1)
  <2>1. /\ i \in 1 .. n + 1 /\ i # n + 1 /\ i + 1 = (n + 1) - d /\ d <= n
    BY <1>1
  <2> HIDE DEF i
  <2>2. from[i + 1] = g[i + 1]
    BY <1>9, <2>1
  <2>3. /\ from[i] = s[i].bits + LebBase * from[i + 1]
        /\ g[i] = s[i].bits + LebBase * g[i + 1]
    <3> HIDE DEF g
    <3> QED
      BY <1>6, <1>7, <2>1
  <2> QED
    BY <2>2, <2>3 DEF i
<1>10. Nat \subseteq D
  <2> HIDE DEF D
  <2> QED
    BY <1>8, <1>9, SetInduction
<1>11. from[1] = g[1]
  <2>1. n \in Nat /\ n <= n /\ (n + 1) - n = 1
    BY <1>1
  <2> HIDE DEF g
  <2>2. from[(n + 1) - n] = g[(n + 1) - n]
    BY <1>10, <2>1
  <2> QED
    BY <2>1, <2>2
<1>12. g[1] = v
  <2>1. 1 \in 1 .. n + 1 /\ 1 - 1 = 0 /\ 0 \in 0 .. v + 1
    BY <1>1
  <2> QED
    BY <1>2, <2>1
<1> QED
  BY <1>4, <1>11, <1>12

(* What a uint64_t has room for does not wrap. *)
LEMMA NoWrap ==
  ASSUME NEW x \in Nat, x < U64
  PROVE  x % U64 = x
<1>1. U64 \in Nat \ {0} /\ x \in 0 .. U64 - 1
  BY WidthAssumption
<1> QED
  BY <1>1

(* A size that is a uint64_t is read back, and ends where it ends. *)
LEMMA DecodeWhole ==
  ASSUME NEW v \in Nat, v < U64, NEW s, Len(s) \in Nat, NEW n, n = Len(leb128_encode(v)),
         n <= Len(s), n <= LEB128_MAX_SIZE,
         \A i \in 1 .. n : s[i] = leb128_encode(v)[i]
  PROVE  leb128_decode(s) = [used |-> n, value |-> v]
<1> DEFINE used == CHOOSE i \in LastOfNumber(s) : TRUE
<1>1. n \in Nat \ {0} /\ \A i \in 1 .. n : s[i].more <=> i < n
  <2>1. n \in 1 .. v + 1
    BY EncodeIs
  <2>2. \A i \in 1 .. n : leb128_encode(v)[i].more <=> i < n
    BY EncodeIs, Zenon
  <2>3. n \in Nat \ {0}
    BY <2>1
  <2> QED
    BY <2>2, <2>3, Zenon
<1>2. LastOfNumber(s) = {n}
  <2>1. n \in LastOfNumber(s)
    <3>1. n \in 1 .. Len(s) /\ ~ (n < n) /\ n \in 1 .. n
      BY <1>1
    <3>2. \A j \in 1 .. n - 1 : j \in 1 .. n /\ j < n
      BY <1>1
    <3> QED
      BY <1>1, <3>1, <3>2 DEF LastOfNumber
  <2>2. ASSUME NEW i \in LastOfNumber(s) PROVE i = n
    <3>1. i \in 1 .. Len(s) /\ (\A j \in 1 .. i - 1 : s[j].more) /\ ~ s[i].more
      BY DEF LastOfNumber
    <3>2. CASE i < n
      BY <1>1, <3>1, <3>2
    <3>3. CASE i > n
      <4>1. n \in 1 .. i - 1 /\ n \in 1 .. n /\ ~ (n < n)
        BY <1>1, <3>1, <3>3
      <4> QED
        BY <1>1, <3>1, <4>1
    <3> QED
      BY <1>1, <3>1, <3>2, <3>3
  <2> QED
    BY <2>1, <2>2
<1>3. used = n
  BY <1>2
<1>4. leb128_decode(s) = [used |-> used, value |-> Number(s, used) % U64]
  BY <1>2 DEF leb128_decode
<1>5. Number(s, n) % U64 = v
  <2>1. Number(s, n) = v
    BY NumberIs
  <2>2. v % U64 = v
    BY NoWrap
  <2> QED
    BY <2>1, <2>2
<1> QED
  BY <1>3, <1>4, <1>5

(* The first octets of a size are no size. *)
LEMMA DecodeCut ==
  ASSUME NEW v \in Nat, NEW s, Len(s) \in Nat, Len(s) < Len(leb128_encode(v)),
         \A i \in 1 .. Len(s) : s[i] = leb128_encode(v)[i]
  PROVE  leb128_decode(s) = [used |-> 0, value |-> 0]
<1> DEFINE n == Len(leb128_encode(v))
<1>1. n \in Nat /\ \A i \in 1 .. n : leb128_encode(v)[i].more <=> i < n
  <2>1. n \in 1 .. v + 1
    BY EncodeIs
  <2>2. \A i \in 1 .. n : leb128_encode(v)[i].more <=> i < n
    BY EncodeIs, Zenon
  <2>3. n \in Nat
    BY <2>1
  <2> QED
    BY <2>2, <2>3, Zenon
<1> HIDE DEF n
<1>2. ASSUME NEW i \in 1 .. Len(s) PROVE s[i].more
  <2>1. i \in 1 .. n /\ i < n
    BY <1>1 DEF n
  <2> QED
    BY <1>1, <2>1
<1>3. LastOfNumber(s) = {}
  BY <1>2 DEF LastOfNumber
<1> QED
  BY <1>3 DEF leb128_decode

-----------------------------------------------------------------------------
(* Octets one behind the other. *)

Cat(s, t) == s \o t
One(x) == <<x>>

(* Where the octets of the two are. *)
LEMMA CatIs ==
  ASSUME NEW s, IsSeq(s), NEW t, IsSeq(t), NEW m, Len(s) = m, NEW n, Len(t) = n
  PROVE  LET c == Cat(s, t)
         IN  /\ IsSeq(c) /\ m \in Nat /\ n \in Nat /\ Len(c) = m + n
             /\ \A k \in 1 .. m : c[k] = s[k]
             /\ \A k \in 1 .. n : c[m + k] = t[k]
<1> DEFINE S == {s[k] : k \in 1 .. Len(s)} \cup {t[k] : k \in 1 .. Len(t)}
           c == s \o t
<1>1. s \in Seq(S) /\ t \in Seq(S)
  <2>1. s \in Seq({s[k] : k \in 1 .. Len(s)}) /\ t \in Seq({t[k] : k \in 1 .. Len(t)})
    BY SeqIs
  <2> QED
    BY <2>1
<1> HIDE DEF S
<1>2. /\ c \in Seq(S) /\ Len(s) \in Nat /\ Len(t) \in Nat /\ Len(c) = Len(s) + Len(t)
      /\ \A k \in 1 .. Len(s) + Len(t) : c[k] = IF k <= Len(s) THEN s[k] ELSE t[k - Len(s)]
  BY <1>1, ConcatProperties, LenProperties
<1>3. c = Cat(s, t)
  BY DEF Cat
<1> HIDE DEF c
<1>4. \A k \in 1 .. Len(s) : c[k] = s[k]
  BY <1>2
<1>5. ASSUME NEW k \in 1 .. Len(t) PROVE c[Len(s) + k] = t[k]
  <2>1. /\ Len(s) + k \in 1 .. Len(s) + Len(t) /\ ~ (Len(s) + k <= Len(s))
        /\ (Len(s) + k) - Len(s) = k
    BY <1>2
  <2> QED
    BY <1>2, <2>1
<1>6. IsSeq(c)
  BY <1>2, IsSeqOf
<1> QED
  BY <1>2, <1>4, <1>5, <1>6, <1>3

(* One octet. *)
LEMMA OneIs ==
  ASSUME NEW x
  PROVE  IsSeq(One(x)) /\ Len(One(x)) = 1 /\ One(x)[1] = x
<1>1. <<x>> \in Seq({x})
  OBVIOUS
<1> QED
  BY <1>1, IsSeqOf DEF One

(* No octet. *)
LEMMA NoneIs == IsSeq(<< >>) /\ Len(<< >>) = 0
<1>1. << >> \in Seq({})
  OBVIOUS
<1> QED
  BY <1>1, IsSeqOf

(* Sequences with the same octets are the same. *)
LEMMA SameSeq ==
  ASSUME NEW s, IsSeq(s), NEW t, IsSeq(t), Len(s) = Len(t),
         \A k \in 1 .. Len(s) : s[k] = t[k]
  PROVE  s = t
BY DEF IsSeq

-----------------------------------------------------------------------------
(* What an encoder makes of an OBU. *)

IsObu(obu) == obu \in [type : 0 .. 15, ext : BOOLEAN, size : BOOLEAN, len : Nat]

Intro(obu) == IF obu.ext THEN 2 ELSE 1
SizeOctets(obu) == IF obu.size THEN leb128_encode(obu.len) ELSE << >>
ExtOctet(unit, j) == [unit |-> unit, obu |-> j, extension |-> TRUE]
PayloadOctet(unit, j, k) == [more |-> FALSE, unit |-> unit, obu |-> j, at |-> k]

(* Its first octets, before its size. *)
LEMMA IntroIs ==
  ASSUME NEW unit, NEW j, NEW obu, IsObu(obu), NEW h
  PROVE  LET o == Cat(One(h), ExtOctets(unit, j, obu))
         IN  /\ IsSeq(o) /\ Len(o) = Intro(obu) /\ Intro(obu) \in {1, 2}
             /\ o[1] = h
             /\ Intro(obu) = 2 => o[2] = ExtOctet(unit, j)
<1> DEFINE e == ExtOctets(unit, j, obu)
           o == Cat(One(h), e)
<1>1. IsSeq(One(h)) /\ Len(One(h)) = 1 /\ One(h)[1] = h
  BY OneIs
<1>2. CASE obu.ext
  <2>1. e = One(ExtOctet(unit, j))
    BY <1>2 DEF ExtOctets, ExtOctet, One
  <2>2. IsSeq(e) /\ Len(e) = 1 /\ e[1] = ExtOctet(unit, j)
    BY <2>1, OneIs
  <2> HIDE DEF e
  <2>3. /\ IsSeq(o) /\ Len(o) = 1 + 1
        /\ \A k \in 1 .. 1 : o[k] = One(h)[k]
        /\ \A k \in 1 .. 1 : o[1 + k] = e[k]
    <3> DEFINE x == One(h)
               z == 1
    <3>1. IsSeq(x) /\ Len(x) = z /\ IsSeq(e) /\ Len(e) = z
      BY <1>1, <2>2
    <3> HIDE DEF x, z
    <3>2. LET c == Cat(x, e)
          IN  /\ IsSeq(c) /\ Len(c) = z + z
              /\ \A k \in 1 .. z : c[k] = x[k]
              /\ \A k \in 1 .. z : c[z + k] = e[k]
      BY <3>1, CatIs
    <3> QED
      BY <3>2, Zenon DEF x, z
  <2> HIDE DEF o
  <2>4. o[1] = h /\ o[2] = ExtOctet(unit, j)
    BY <1>1, <2>2, <2>3
  <2>5. Intro(obu) = 2
    BY <1>2 DEF Intro
  <2> QED
    BY <2>3, <2>4, <2>5 DEF o, e
<1>3. CASE ~ obu.ext
  <2>1. IsSeq(e) /\ Len(e) = 0
    BY <1>3, NoneIs DEF ExtOctets
  <2> HIDE DEF e
  <2>2. /\ IsSeq(o) /\ Len(o) = 1 + 0
        /\ \A k \in 1 .. 1 : o[k] = One(h)[k]
    <3> DEFINE x == One(h)
               z == 1
               y == 0
    <3>1. IsSeq(x) /\ Len(x) = z /\ IsSeq(e) /\ Len(e) = y
      BY <1>1, <2>1
    <3> HIDE DEF x, y, z
    <3>2. LET c == Cat(x, e)
          IN  /\ IsSeq(c) /\ Len(c) = z + y
              /\ \A k \in 1 .. z : c[k] = x[k]
      BY <3>1, CatIs
    <3> QED
      BY <3>2, Zenon DEF x, y, z
  <2> HIDE DEF o
  <2>3. Intro(obu) = 1
    BY <1>3 DEF Intro
  <2> QED
    BY <1>1, <2>2, <2>3 DEF o, e
<1> QED
  BY <1>2, <1>3

(* The extension flag as a number, which arithmetic can use. *)
LEMMA ExtIs ==
  ASSUME NEW obu, IsObu(obu)
  PROVE  obu.ext <=> Intro(obu) = 2
<1>1. 1 # 2
  OBVIOUS
<1>2. obu.ext \/ ~ obu.ext
  OBVIOUS
<1> QED
  BY <1>1, <1>2, Zenon DEF Intro

(* The octets of its payload. *)
LEMMA PayloadIs ==
  ASSUME NEW unit, NEW j, NEW len \in Nat
  PROVE  LET p == PayloadOctets(unit, j, len)
         IN  IsSeq(p) /\ Len(p) = len /\ \A k \in 1 .. len : p[k] = PayloadOctet(unit, j, k)
<1> DEFINE p == PayloadOctets(unit, j, len)
<1>1. p = [k \in 1 .. len |-> PayloadOctet(unit, j, k)]
  BY DEF PayloadOctets, PayloadOctet
<1> HIDE DEF p
<1>2. Len(p) = len
  BY <1>1
<1> QED
  BY <1>1, <1>2 DEF IsSeq, p

(* The octets of its size, if it has one. *)
LEMMA SizeIs ==
  ASSUME NEW obu, IsObu(obu)
  PROVE  IsSeq(SizeOctets(obu)) /\ Len(SizeOctets(obu)) \in Nat
<1>1. CASE obu.size
  <2>1. obu.len \in Nat
    BY DEF IsObu
  <2> QED
    BY <1>1, <2>1, EncodeIs DEF SizeOctets, IsSeq
<1>2. CASE ~ obu.size
  BY <1>2, NoneIs DEF SizeOctets
<1> QED
  BY <1>1, <1>2

(* Where the octets of an OBU are. *)
LEMMA ObuLayout ==
  ASSUME NEW unit, NEW j, NEW obu, IsObu(obu)
  PROVE  LET o == EncodeObu(unit, j, obu)
             a == Intro(obu)
             m == Len(SizeOctets(obu))
         IN  /\ IsSeq(o) /\ a \in {1, 2} /\ m \in Nat /\ Len(o) = a + m + obu.len
             /\ o[1] = obu_header(unit, j, obu)
             /\ a = 2 => o[2] = ExtOctet(unit, j)
             /\ \A k \in 1 .. m : o[a + k] = SizeOctets(obu)[k]
             /\ \A k \in 1 .. obu.len : o[a + m + k] = PayloadOctet(unit, j, k)
<1> DEFINE a == Intro(obu)
           b == SizeOctets(obu)
           m == Len(b)
           n == obu.len
           p == PayloadOctets(unit, j, n)
           h == obu_header(unit, j, obu)
           i == Cat(One(h), ExtOctets(unit, j, obu))
           c == Cat(i, b)
           o == Cat(c, p)
<1>1. EncodeObu(unit, j, obu) = o
  BY DEF EncodeObu, SizeOctets, Cat, One
<1> HIDE DEF h
<1>2. /\ IsSeq(i) /\ Len(i) = a /\ a \in {1, 2}
      /\ i[1] = h /\ (a = 2 => i[2] = ExtOctet(unit, j))
  BY IntroIs
<1>3. n \in Nat
  BY DEF IsObu
<1>4. IsSeq(p) /\ Len(p) = n /\ \A k \in 1 .. n : p[k] = PayloadOctet(unit, j, k)
  BY <1>3, PayloadIs
<1>5. IsSeq(b) /\ Len(b) = m /\ m \in Nat
  BY SizeIs
<1> HIDE DEF i, b, p, n, a, m
<1>6. /\ IsSeq(c) /\ Len(c) = a + m
      /\ \A k \in 1 .. a : c[k] = i[k]
      /\ \A k \in 1 .. m : c[a + k] = b[k]
  <2>1. IsSeq(i) /\ Len(i) = a /\ IsSeq(b) /\ Len(b) = m
    BY <1>2, <1>5
  <2> HIDE DEF o
  <2>2. LET d == Cat(i, b)
        IN  /\ IsSeq(d) /\ Len(d) = a + m
            /\ \A k \in 1 .. a : d[k] = i[k]
            /\ \A k \in 1 .. m : d[a + k] = b[k]
    BY <2>1, CatIs
  <2> QED
    BY <2>2
<1> HIDE DEF c
<1>7. /\ IsSeq(o) /\ Len(o) = a + m + n
      /\ \A k \in 1 .. a + m : o[k] = c[k]
      /\ \A k \in 1 .. n : o[a + m + k] = p[k]
  <2>1. IsSeq(c) /\ Len(c) = a + m /\ IsSeq(p) /\ Len(p) = n
    BY <1>4, <1>6
  <2> QED
    BY <2>1, CatIs
<1> HIDE DEF o
<1>8. /\ o[1] = h
      /\ a = 2 => o[2] = ExtOctet(unit, j)
  BY <1>2, <1>5, <1>6, <1>7
<1>9. ASSUME NEW k \in 1 .. m PROVE o[a + k] = b[k]
  <2>1. a + k \in 1 .. a + m
    BY <1>2, <1>5
  <2> QED
    BY <1>6, <1>7, <2>1
<1>10. \A k \in 1 .. n : o[a + m + k] = PayloadOctet(unit, j, k)
  BY <1>4, <1>7
<1> QED
  BY <1>1, <1>2, <1>5, <1>7, <1>8, <1>9, <1>10 DEF a, b, n, h, m

-----------------------------------------------------------------------------
(* One turn of the parser over octets an encoder made.                     *)

(* From the place on, as far as it goes, the stream has these octets.      *)
Reads(s, at, o) ==
  /\ IsSeq(s) /\ at \in Nat /\ at < Len(s)
  /\ \A i \in 1 .. Len(o) : at + i <= Len(s) => s[at + i] = o[i]

(* The size an OBU has fits its octets. *)
SizeFits(obu) == obu.size => Len(leb128_encode(obu.len)) <= LEB128_MAX_SIZE

(* The header. *)
LEMMA HeaderRead ==
  ASSUME NEW unit, NEW j, NEW obu, IsObu(obu), NEW s, NEW at,
         Reads(s, at, EncodeObu(unit, j, obu))
  PROVE  s[at + 1] = obu_header(unit, j, obu)
<1> DEFINE o == EncodeObu(unit, j, obu)
           n == obu.len
           m == Len(SizeOctets(obu))
           a == Intro(obu)
<1>1. Len(o) = a + m + n /\ a \in {1, 2} /\ m \in Nat /\ o[1] = obu_header(unit, j, obu)
  BY ObuLayout
<1>2. n \in Nat
  BY DEF IsObu
<1>3. /\ at \in Nat /\ Len(s) \in Nat /\ at < Len(s)
      /\ \A i \in 1 .. Len(o) : at + i <= Len(s) => s[at + i] = o[i]
  BY DEF Reads, IsSeq
<1> HIDE DEF o, n, m, a
<1>4. 1 \in 1 .. Len(o) /\ at + 1 <= Len(s)
  BY <1>1, <1>2, <1>3
<1> QED
  BY <1>1, <1>3, <1>4

(* The size, where it is whole and where the stream ends in it. *)
LEMMA SizeRead ==
  ASSUME NEW unit, NEW j, NEW obu, IsObu(obu), obu.size, SizeFits(obu), obu.len < U64,
         NEW s, NEW at,
         Reads(s, at, EncodeObu(unit, j, obu)),
         NEW m, m = Len(SizeOctets(obu)), NEW b, b = at + Intro(obu), b <= Len(s)
  PROVE  LET leb == leb128_decode(SubSeq(s, b + 1, Len(s)))
         IN  /\ b + m <= Len(s) => leb = [used |-> m, value |-> obu.len]
             /\ b + m > Len(s) => leb = [used |-> 0, value |-> 0]
<1> DEFINE o == EncodeObu(unit, j, obu)
           n == obu.len
           z == SizeOctets(obu)
           a == Intro(obu)
           rest == SubSeq(s, b + 1, Len(s))
<1>1. /\ Len(o) = a + m + n /\ a \in {1, 2} /\ m \in Nat
      /\ \A k \in 1 .. m : o[a + k] = z[k]
  BY ObuLayout
<1>2. n \in Nat /\ n < U64
  BY DEF IsObu
<1>3. /\ at \in Nat /\ IsSeq(s) /\ Len(s) \in Nat
      /\ \A i \in 1 .. Len(o) : at + i <= Len(s) => s[at + i] = o[i]
  BY DEF Reads, IsSeq
<1>4. z = leb128_encode(n)
  BY DEF SizeOctets
<1>5. m = Len(z) /\ b = at + a
  OBVIOUS
<1>6. m <= LEB128_MAX_SIZE
  BY <1>4 DEF SizeFits
<1> HIDE DEF o, n, a, z
<1>7. Len(rest) = Len(s) - b /\ \A k \in 1 .. Len(s) - b : rest[k] = s[b + k]
  <2>1. b \in Nat
    BY <1>1, <1>3, <1>5
  <2> QED
    BY <1>3, <2>1, ChunkIs
<1> HIDE DEF rest
<1>8. ASSUME NEW k \in 1 .. m, k <= Len(s) - b PROVE rest[k] = z[k]
  <2>1. k \in 1 .. Len(s) - b /\ a + k \in 1 .. Len(o) /\ at + (a + k) = b + k /\ b + k <= Len(s)
    <3>1. /\ Len(o) = a + m + n /\ a \in Nat /\ m \in Nat /\ n \in Nat
          /\ at \in Nat /\ Len(s) \in Nat /\ b = at + a
      BY <1>1, <1>2, <1>3, <1>5
    <3> QED
      BY <1>8, <3>1
  <2>2. s[b + k] = o[a + k]
    BY <1>3, <2>1
  <2> QED
    BY <1>1, <1>7, <2>1, <2>2
<1>9. ASSUME b + m <= Len(s) PROVE leb128_decode(rest) = [used |-> m, value |-> n]
  <2>1. Len(rest) \in Nat /\ m <= Len(rest) /\ \A k \in 1 .. m : k <= Len(s) - b
    BY <1>1, <1>3, <1>5, <1>7, <1>9
  <2>2. \A k \in 1 .. m : rest[k] = leb128_encode(n)[k]
    BY <1>4, <1>8, <2>1
  <2>3. m = Len(leb128_encode(n))
    BY <1>4, <1>5
  <2> QED
    BY <1>2, <1>6, <2>1, <2>2, <2>3, DecodeWhole
<1>10. ASSUME b + m > Len(s) PROVE leb128_decode(rest) = [used |-> 0, value |-> 0]
  <2>1. /\ Len(rest) \in Nat /\ Len(rest) < m
        /\ \A k \in 1 .. Len(rest) : k \in 1 .. m /\ k <= Len(s) - b
    BY <1>1, <1>3, <1>5, <1>7, <1>10
  <2>2. \A k \in 1 .. Len(rest) : rest[k] = leb128_encode(n)[k]
    BY <1>4, <1>8, <2>1
  <2>3. m = Len(leb128_encode(n))
    BY <1>4, <1>5
  <2> QED
    BY <1>2, <2>1, <2>2, <2>3, DecodeCut
<1> QED
  BY <1>9, <1>10 DEF rest, n

(* The extension octet and the payload. *)
LEMMA ExtRead ==
  ASSUME NEW unit, NEW j, NEW obu, IsObu(obu), NEW s, NEW at,
         Reads(s, at, EncodeObu(unit, j, obu)), at + Intro(obu) <= Len(s)
  PROVE  SubSeq(s, at + 2, at + Intro(obu)) = ExtOctets(unit, j, obu)
<1> DEFINE o == EncodeObu(unit, j, obu)
           n == obu.len
           m == Len(SizeOctets(obu))
           a == Intro(obu)
           e == ExtOctet(unit, j)
           c == SubSeq(s, at + 2, at + a)
<1>1. Len(o) = a + m + n /\ a \in {1, 2} /\ m \in Nat /\ (a = 2 => o[2] = e)
  BY ObuLayout
<1>2. n \in Nat
  BY DEF IsObu
<1>3. /\ at \in Nat /\ IsSeq(s) /\ Len(s) \in Nat
      /\ \A i \in 1 .. Len(o) : at + i <= Len(s) => s[at + i] = o[i]
  BY DEF Reads, IsSeq
<1>4. obu.ext <=> a = 2
  BY ExtIs
<1>5. at + a <= Len(s)
  OBVIOUS
<1> HIDE DEF o, n, m, a, e
<1>6. /\ IsSeq(c) /\ Len(c) = a - 1
      /\ \A k \in 1 .. a - 1 : c[k] = s[at + 1 + k]
  <2>1. /\ at + 1 \in Nat /\ at + a \in Nat /\ at + 1 <= at + a
        /\ (at + 1) + 1 = at + 2 /\ (at + a) - (at + 1) = a - 1
    BY <1>1, <1>3
  <2> DEFINE x == at + 1
             y == at + a
  <2>2. x \in Nat /\ y \in Nat /\ x <= y /\ y <= Len(s) /\ x + 1 = at + 2 /\ y - x = a - 1
    BY <1>5, <2>1
  <2> HIDE DEF x, y
  <2>3. LET d == SubSeq(s, x + 1, y)
        IN  /\ IsSeq(d) /\ Len(d) = y - x
            /\ \A k \in 1 .. y - x : d[k] = s[x + k]
    BY <1>3, <2>2, ChunkIs
  <2>4. c = SubSeq(s, x + 1, y)
    BY <2>2 DEF y
  <2> HIDE DEF c
  <2> QED
    BY <2>2, <2>3, <2>4 DEF x
<1> HIDE DEF c
<1>7. CASE a = 2
  <2>1. 2 \in 1 .. Len(o) /\ at + 2 <= Len(s) /\ a - 1 = 1 /\ at + 1 + 1 = at + 2
    BY <1>1, <1>2, <1>3, <1>5, <1>7
  <2>2. s[at + 2] = e
    BY <1>1, <1>3, <1>7, <2>1
  <2>3. Len(c) = 1 /\ c[1] = e
    BY <1>6, <2>1, <2>2
  <2>4. IsSeq(One(e)) /\ Len(One(e)) = 1 /\ One(e)[1] = e
    BY OneIs
  <2>5. c = One(e)
    BY <1>6, <2>3, <2>4, SameSeq
  <2>6. ExtOctets(unit, j, obu) = One(e)
    BY <1>4, <1>7, Zenon DEF ExtOctets, ExtOctet, One, e
  <2> QED
    BY <2>5, <2>6 DEF c, a
<1>8. CASE a # 2
  <2>1. Len(c) = 0
    BY <1>1, <1>6, <1>8
  <2>2. c = << >>
    BY <1>6, <2>1, NoneIs, SameSeq
  <2>3. ExtOctets(unit, j, obu) = << >>
    BY <1>4, <1>8, Zenon DEF ExtOctets
  <2> QED
    BY <2>2, <2>3 DEF c, a
<1> QED
  BY <1>7, <1>8

(* The payload, up to where the OBU ends. *)
LEMMA PayloadRead ==
  ASSUME NEW unit, NEW j, NEW obu, IsObu(obu), NEW s, NEW at,
         Reads(s, at, EncodeObu(unit, j, obu)),
         NEW end, end = at + Len(EncodeObu(unit, j, obu)), end <= Len(s),
         NEW b, b = at + Intro(obu) + Len(SizeOctets(obu))
  PROVE  SubSeq(s, b + 1, end) = PayloadOctets(unit, j, obu.len)
<1> DEFINE o == EncodeObu(unit, j, obu)
           n == obu.len
           m == Len(SizeOctets(obu))
           a == Intro(obu)
           p == PayloadOctets(unit, j, n)
           c == SubSeq(s, b + 1, end)
<1>1. /\ Len(o) = a + m + n /\ a \in {1, 2} /\ m \in Nat
      /\ \A k \in 1 .. n : o[a + m + k] = PayloadOctet(unit, j, k)
  BY ObuLayout
<1>2. n \in Nat
  BY DEF IsObu
<1>3. IsSeq(p) /\ Len(p) = n /\ \A k \in 1 .. n : p[k] = PayloadOctet(unit, j, k)
  BY <1>2, PayloadIs
<1>4. /\ at \in Nat /\ IsSeq(s) /\ Len(s) \in Nat
      /\ \A i \in 1 .. Len(o) : at + i <= Len(s) => s[at + i] = o[i]
  BY DEF Reads, IsSeq
<1>5. end = at + Len(o) /\ end <= Len(s) /\ b = at + a + m
  OBVIOUS
<1> HIDE DEF o, n, m, a, p
<1>6. /\ Len(o) = a + m + n /\ a \in Nat /\ m \in Nat /\ n \in Nat
       /\ at \in Nat /\ Len(s) \in Nat /\ b = at + a + m
  BY <1>1, <1>2, <1>4, <1>5
<1>7. b \in Nat /\ end \in Nat /\ b <= end /\ end - b = n
  BY <1>5, <1>6
<1>8. IsSeq(c) /\ Len(c) = end - b /\ \A k \in 1 .. end - b : c[k] = s[b + k]
  <2>1. IsSeq(s) /\ b \in Nat /\ end \in Nat /\ b <= end /\ end <= Len(s)
    BY <1>4, <1>5, <1>7
  <2> QED
    BY <2>1, ChunkIs
<1> HIDE DEF c
<1>9. ASSUME NEW k \in 1 .. n PROVE c[k] = p[k]
  <2>1. /\ a + m + k \in 1 .. Len(o) /\ at + (a + m + k) <= Len(s) /\ at + (a + m + k) = b + k
    BY <1>5, <1>6
  <2>2. s[b + k] = o[a + m + k]
    BY <1>4, <2>1
  <2> QED
    BY <1>1, <1>3, <1>7, <1>8, <2>2
<1>10. c = p
  BY <1>3, <1>7, <1>8, <1>9, SameSeq
<1> QED
  BY <1>10 DEF c, p, n

(* What a turn does, once it has read the header and the size. *)
Hdr(s, p) == s[p.pos]
After(s, p) == p.pos + (IF Hdr(s, p).ext THEN 2 ELSE 1)
Leb(s, p) == leb128_decode(SubSeq(s, After(s, p), Len(s)))
Start(s, p) == After(s, p) + (IF Hdr(s, p).size THEN Leb(s, p).used ELSE 0)
End(s, p) ==
  IF Hdr(s, p).size THEN ((Start(s, p) - 1 + Leb(s, p).value) % U64) + 1 ELSE Len(s) + 1

TurnOf(s, p, hdr, leb, after, start, end) ==
  IF \/ Overruns(s, hdr, leb, after, end)
     \/ hdr.type \notin DroppedTypes /\ p.n >= MAX_OBUS_PER_TU
  THEN Malformed
  ELSE IF hdr.type \in DroppedTypes THEN [p EXCEPT !.pos = end]
  ELSE [pos |-> end, n |-> p.n + 1,
        elements |-> Append(p.elements,
          <<obu_clear_size_field(hdr)>> \o SubSeq(s, p.pos + 1, after - 1)
            \o SubSeq(s, start, end - 1))]

(* The turn by these names. *)
LEMMA TurnIs ==
  ASSUME NEW s, NEW p
  PROVE  parse_obu(s, p) = TurnOf(s, p, Hdr(s, p), Leb(s, p), After(s, p), Start(s, p), End(s, p))
BY Zenon DEF parse_obu, TurnOf, Hdr, After, Leb, Start, End

(* A turn on a whole OBU, which ends the stream if it has no size field.   *)
LEMMA TurnWhole ==
  ASSUME NEW unit, NEW j, NEW obu, IsObu(obu), SizeFits(obu), NEW s, NEW at,
         Reads(s, at, EncodeObu(unit, j, obu)),
         NEW end, end = at + Len(EncodeObu(unit, j, obu)), end <= Len(s), end < U64,
         ~ obu.size => end = Len(s),
         NEW p, p.pos = at + 1
  PROVE  parse_obu(s, p) =
           IF obu.type \notin DroppedTypes /\ p.n >= MAX_OBUS_PER_TU THEN Malformed
           ELSE IF obu.type \in DroppedTypes THEN [p EXCEPT !.pos = end + 1]
           ELSE [pos |-> end + 1, n |-> p.n + 1,
                 elements |-> Append(p.elements, ElementOf(unit, j, obu))]
<1> DEFINE hdr == obu_header(unit, j, obu)
           a == Intro(obu)
           m == Len(SizeOctets(obu))
           n == obu.len
           after == at + a + 1
           leb == leb128_decode(SubSeq(s, after, Len(s)))
           start == at + a + m + 1
           N == Len(s)
<1>1. /\ end = at + (a + m + n) /\ a \in {1, 2} /\ m \in Nat /\ n \in Nat
      /\ at \in Nat /\ N \in Nat /\ end <= N /\ end \in Nat /\ end < U64 /\ n < U64
  <2>1. Len(EncodeObu(unit, j, obu)) = a + m + n /\ a \in {1, 2} /\ m \in Nat
    BY ObuLayout
  <2>2. n \in Nat
    BY DEF IsObu
  <2>3. at \in Nat /\ N \in Nat
    BY DEF Reads, IsSeq
  <2> HIDE DEF a, m, n, N
  <2>4. /\ end = at + (a + m + n) /\ end <= N /\ end < U64
        /\ at \in Nat /\ a \in Nat /\ m \in Nat /\ n \in Nat
    BY <2>1, <2>2, <2>3 DEF N
  <2>5. U64 \in Nat
    BY WidthAssumption
  <2>6. end \in Nat /\ n < U64
    BY <2>4, <2>5
  <2> QED
    BY <2>1, <2>2, <2>3, <2>4, <2>6
<1>2. hdr = s[at + 1] /\ hdr.ext = obu.ext /\ hdr.size = obu.size /\ hdr.type = obu.type
  BY HeaderRead DEF obu_header
<1>3. after = p.pos + (IF hdr.ext THEN 2 ELSE 1)
  <2>1. a = IF hdr.ext THEN 2 ELSE 1
    BY <1>2, Zenon DEF Intro
  <2>2. after = p.pos + a
    <3> HIDE DEF a
    <3> QED
      BY <1>1
  <2> QED
    BY <2>1, <2>2, Zenon
<1>4. obu.size => leb = [used |-> m, value |-> n]
  <2>1. ASSUME obu.size PROVE leb = [used |-> m, value |-> n]
    <3> DEFINE b == at + a
    <3>1. b <= Len(s) /\ b + m <= Len(s) /\ after = b + 1
      <4> HIDE DEF a, m, n
      <4> QED
        BY <1>1
    <3>1a. obu.len < U64
      BY <1>1
    <3> HIDE DEF after
    <3>2. b + m <= Len(s) => leb128_decode(SubSeq(s, b + 1, Len(s))) = [used |-> m, value |-> obu.len]
      BY <2>1, <3>1, <3>1a, SizeRead
    <3> QED
      BY <3>1, <3>2
  <2> QED
    BY <2>1
<1>5. ~ obu.size => m = 0
  BY NoneIs, Zenon DEF SizeOctets
<1>6. /\ start = after + (IF hdr.size THEN leb.used ELSE 0)
      /\ end + 1 = (IF hdr.size THEN ((start - 1 + leb.value) % U64) + 1 ELSE Len(s) + 1)
      /\ hdr.size => leb.used = m
  <2>1. CASE obu.size
    <3>1. hdr.size /\ leb.used = m /\ leb.value = n
      BY <1>2, <1>4, <2>1
    <3>2. start = after + m /\ start - 1 + n = end
      <4> HIDE DEF a, m, n
      <4> QED
        BY <1>1
    <3>3. end % U64 = end
      BY <1>1, NoWrap
    <3>4. (start - 1 + leb.value) % U64 = end
      <4> HIDE DEF start, leb, hdr, n
      <4> QED
        BY <3>1, <3>2, <3>3
    <3> QED
      BY <3>1, <3>2, <3>4, Zenon
  <2>2. CASE ~ obu.size
    <3>1. ~ hdr.size /\ m = 0 /\ end = Len(s)
      BY <1>2, <1>5, <2>2
    <3>2. start = after + 0 /\ end + 1 = Len(s) + 1
      <4> HIDE DEF a, m, n
      <4> QED
        BY <1>1, <3>1
    <3> QED
      BY <3>1, <3>2, Zenon
  <2> QED
    BY <2>1, <2>2
<1>7. ~ Overruns(s, hdr, leb, after, end + 1)
  <2>1. ~ (after > Len(s) + 1) /\ ~ (end + 1 > Len(s) + 1)
    <3> HIDE DEF a, m, n
    <3> QED
      BY <1>1
  <2>2. hdr.size => leb.used # 0
    <3>1. ASSUME obu.size PROVE m # 0
      <4>1. n \in Nat /\ m = Len(leb128_encode(n))
        BY <1>1, <3>1 DEF SizeOctets
      <4> HIDE DEF m, n
      <4>2. m \in 1 .. n + 1
        BY <4>1, EncodeIs
      <4> QED
        BY <4>1, <4>2
    <3> QED
      BY <1>2, <1>6, <3>1, Zenon
  <2> HIDE DEF hdr, leb, after, start
  <2> QED
    BY <2>1, <2>2, Zenon DEF Overruns
<1>8. <<obu_clear_size_field(hdr)>> \o SubSeq(s, p.pos + 1, after - 1)
        \o SubSeq(s, start, (end + 1) - 1) = ElementOf(unit, j, obu)
  <2>1. p.pos + 1 = at + 2 /\ after - 1 = at + a /\ (end + 1) - 1 = end /\ at + a <= Len(s)
        /\ start = (at + a + m) + 1
    <3> HIDE DEF a, m, n
    <3> QED
      BY <1>1
  <2>2. SubSeq(s, at + 2, at + a) = ExtOctets(unit, j, obu)
    BY <2>1, ExtRead
  <2>3. SubSeq(s, (at + a + m) + 1, end) = PayloadOctets(unit, j, obu.len)
    BY PayloadRead
  <2> HIDE DEF hdr, a, m, after, start
  <2> QED
    BY <2>1, <2>2, <2>3, Zenon DEF ElementOf, hdr
<1> DEFINE last == end + 1
<1>9. /\ Hdr(s, p) = hdr /\ After(s, p) = after /\ Leb(s, p) = leb
      /\ Start(s, p) = start /\ End(s, p) = last
  <2>1. Hdr(s, p) = hdr
    BY <1>2 DEF Hdr
  <2> HIDE DEF hdr
  <2>2. After(s, p) = after
    BY <1>3, <2>1, Zenon DEF After
  <2> HIDE DEF after
  <2>3. Leb(s, p) = leb
    BY <2>2 DEF Leb
  <2> HIDE DEF leb
  <2>4. Start(s, p) = start
    BY <1>6, <2>1, <2>2, <2>3, Zenon DEF Start
  <2> HIDE DEF start
  <2>5. End(s, p) = last
    BY <1>6, <2>1, <2>3, <2>4, Zenon DEF End
  <2> QED
    BY <2>1, <2>2, <2>3, <2>4, <2>5
<1> HIDE DEF hdr, leb, after, start, last
<1>10. parse_obu(s, p) = TurnOf(s, p, hdr, leb, after, start, last)
  BY <1>9, TurnIs, Zenon
<1> QED
  BY <1>2, <1>7, <1>8, <1>10, Zenon DEF last, TurnOf

(* A turn on an OBU the stream ends in, except in the payload of one       *)
(* without size.                                                           *)
LEMMA TurnCut ==
  ASSUME NEW unit, NEW j, NEW obu, IsObu(obu), SizeFits(obu), NEW s, NEW at,
         Reads(s, at, EncodeObu(unit, j, obu)),
         at + Len(EncodeObu(unit, j, obu)) > Len(s), at + Len(EncodeObu(unit, j, obu)) < U64,
         ~ obu.size => at + Intro(obu) > Len(s),
         NEW p, p.pos = at + 1
  PROVE  parse_obu(s, p) = Malformed
<1> DEFINE hdr == obu_header(unit, j, obu)
           a == Intro(obu)
           m == Len(SizeOctets(obu))
           n == obu.len
           N == Len(s)
           after == at + a + 1
           leb == leb128_decode(SubSeq(s, after, Len(s)))
           start == after + (IF hdr.size THEN leb.used ELSE 0)
           end == IF hdr.size THEN ((start - 1 + leb.value) % U64) + 1 ELSE Len(s) + 1
<1>1. /\ a \in {1, 2} /\ m \in Nat /\ n \in Nat
      /\ at \in Nat /\ N \in Nat /\ at + (a + m + n) > N
      /\ at + (a + m + n) \in Nat /\ at + (a + m + n) < U64 /\ n < U64
  <2>1. Len(EncodeObu(unit, j, obu)) = a + m + n /\ a \in {1, 2} /\ m \in Nat
    BY ObuLayout
  <2>2. n \in Nat
    BY DEF IsObu
  <2>3. at \in Nat /\ N \in Nat
    BY DEF Reads, IsSeq
  <2>4. at + Len(EncodeObu(unit, j, obu)) > N /\ at + Len(EncodeObu(unit, j, obu)) < U64
    OBVIOUS
  <2> HIDE DEF a, m, n, N
  <2>5. /\ at + (a + m + n) > N /\ at + (a + m + n) < U64
        /\ at \in Nat /\ a \in Nat /\ m \in Nat /\ n \in Nat
    BY <2>1, <2>2, <2>3, <2>4
  <2>6. U64 \in Nat
    BY WidthAssumption
  <2>7. at + (a + m + n) \in Nat /\ n < U64
    BY <2>5, <2>6
  <2> QED
    BY <2>1, <2>2, <2>3, <2>5, <2>7
<1>2. hdr = s[at + 1] /\ hdr.ext = obu.ext /\ hdr.size = obu.size
  BY HeaderRead DEF obu_header
<1>3. after = p.pos + (IF hdr.ext THEN 2 ELSE 1)
  <2>1. a = IF hdr.ext THEN 2 ELSE 1
    BY <1>2, Zenon DEF Intro
  <2>2. after = p.pos + a
    <3> HIDE DEF a
    <3> QED
      BY <1>1
  <2> QED
    BY <2>1, <2>2, Zenon
<1>4. Overruns(s, hdr, leb, after, end)
  <2>1. CASE at + a > N
    <3>1. after > Len(s) + 1
      <4> HIDE DEF a
      <4> QED
        BY <1>1, <2>1
    <3> QED
      BY <3>1, Zenon DEF Overruns
  <2>2. CASE ~ (at + a > N)
    <3> DEFINE b == at + a
    <3>1. obu.size /\ hdr.size
      BY <1>2, <2>2
    <3>2. b <= Len(s) /\ after = b + 1 /\ b \in Nat
      <4> HIDE DEF a
      <4> QED
        BY <1>1, <2>2
    <3>3. /\ b + m <= Len(s) => leb = [used |-> m, value |-> n]
          /\ b + m > Len(s) => leb = [used |-> 0, value |-> 0]
      <4> HIDE DEF after
      <4>1. LET l == leb128_decode(SubSeq(s, b + 1, Len(s)))
            IN  /\ b + m <= Len(s) => l = [used |-> m, value |-> obu.len]
                /\ b + m > Len(s) => l = [used |-> 0, value |-> 0]
        <5>1. obu.len < U64
          BY <1>1
        <5> QED
          BY <3>1, <3>2, <5>1, SizeRead
      <4> QED
        BY <3>2, <4>1
    <3>4. CASE b + m > Len(s)
      <4>1. leb.used = 0
        BY <3>3, <3>4
      <4> HIDE DEF leb
      <4> QED
        BY <3>1, <4>1, Zenon DEF Overruns
    <3>5. CASE ~ (b + m > Len(s))
      <4>1. leb = [used |-> m, value |-> n]
        <5> HIDE DEF m, n, leb, b
        <5>1. b + m <= Len(s)
          BY <1>1, <3>2, <3>5 DEF N
        <5> QED
          BY <3>3, <5>1
      <4>2. leb.used = m /\ leb.value = n
        BY <4>1
      <4> HIDE DEF leb, hdr
      <4>3. start = after + m
        BY <3>1, <4>2, Zenon
      <4>4. end = ((start - 1 + n) % U64) + 1
        BY <3>1, <4>2, Zenon
      <4> HIDE DEF start, end
      <4>5. end > Len(s) + 1
        <5> DEFINE sum == at + (a + m + n)
        <5>1. start - 1 + n = sum
          <6> HIDE DEF a, m, n
          <6> QED
            BY <1>1, <4>3
        <5>2. sum % U64 = sum
          <6>1. sum \in Nat /\ sum < U64
            BY <1>1
          <6> HIDE DEF sum
          <6> QED
            BY <6>1, NoWrap
        <5>3. sum \in Nat /\ sum > Len(s) /\ Len(s) \in Nat
          BY <1>1
        <5> HIDE DEF sum
        <5> QED
          BY <4>4, <5>1, <5>2, <5>3
      <4> QED
        BY <4>5, Zenon DEF Overruns
    <3> QED
      BY <3>4, <3>5
  <2> QED
    BY <2>1, <2>2
<1>5. /\ Hdr(s, p) = hdr /\ After(s, p) = after /\ Leb(s, p) = leb
      /\ Start(s, p) = start /\ End(s, p) = end
  <2>1. Hdr(s, p) = hdr
    BY <1>2 DEF Hdr
  <2> HIDE DEF hdr
  <2>2. After(s, p) = after
    BY <1>3, <2>1, Zenon DEF After
  <2> HIDE DEF after
  <2>3. Leb(s, p) = leb
    BY <2>2 DEF Leb
  <2> HIDE DEF leb
  <2>4. Start(s, p) = start
    BY <2>1, <2>2, <2>3, Zenon DEF Start
  <2> HIDE DEF start
  <2>5. End(s, p) = end
    BY <2>1, <2>3, <2>4, Zenon DEF End
  <2> QED
    BY <2>1, <2>2, <2>3, <2>4, <2>5
<1> HIDE DEF hdr, leb, after, start, end
<1>6. parse_obu(s, p) = TurnOf(s, p, hdr, leb, after, start, end)
  BY <1>5, TurnIs, Zenon
<1> QED
  BY <1>4, <1>6, Zenon DEF TurnOf

-----------------------------------------------------------------------------
(* What an encoder makes of a temporal unit.                               *)

(* The octets when one more OBU is encoded. *)
Longer(unit, tu, k, octets) == octets \o EncodeObu(unit, k, tu[k])

OctetTable(unit, tu, N, f) ==
  f = [k \in 0 .. N |-> IF k = 0 THEN << >> ELSE Longer(unit, tu, k, f[k - 1])]

(* There is a table of the octets of the first OBUs. *)
LEMMA EncodedExists ==
  ASSUME NEW unit, NEW tu
  PROVE  \A N \in Nat : \E f : OctetTable(unit, tu, N, f)
<1> DEFINE P(N) == \E f : f = [k \in 0 .. N |-> IF k = 0 THEN << >> ELSE Longer(unit, tu, k, f[k - 1])]
           S == {N \in Nat : P(N)}
<1>1. 0 \in S
  <2> DEFINE f == [k \in 0 .. 0 |-> << >>]
  <2>1. f = [k \in 0 .. 0 |-> IF k = 0 THEN << >> ELSE Longer(unit, tu, k, f[k - 1])]
    OBVIOUS
  <2> QED
    BY <2>1
<1>2. ASSUME NEW N \in Nat, N \in S PROVE N + 1 \in S
  <2>1. PICK f : f = [k \in 0 .. N |-> IF k = 0 THEN << >> ELSE Longer(unit, tu, k, f[k - 1])]
    BY <1>2
  <2> DEFINE g == [k \in 0 .. N + 1 |-> IF k = N + 1 THEN Longer(unit, tu, N + 1, f[N]) ELSE f[k]]
  <2>2. ASSUME NEW k \in 0 .. N + 1
        PROVE  g[k] = IF k = 0 THEN << >> ELSE Longer(unit, tu, k, g[k - 1])
    <3>1. CASE k = N + 1
      <4>1. k # 0 /\ k - 1 = N /\ N \in 0 .. N + 1 /\ N # N + 1
        BY <3>1
      <4>2. g[k - 1] = f[N]
        BY <4>1
      <4> QED
        BY <3>1, <4>1, <4>2
    <3>2. CASE k # N + 1
      <4>1. k \in 0 .. N /\ f[k] = IF k = 0 THEN << >> ELSE Longer(unit, tu, k, f[k - 1])
        BY <2>1, <3>2
      <4>2. k # 0 => k - 1 \in 0 .. N + 1 /\ k - 1 # N + 1
        BY <4>1
      <4>3. k # 0 => g[k - 1] = f[k - 1]
        BY <4>2
      <4> QED
        BY <3>2, <4>1, <4>3
    <3> QED
      BY <3>1, <3>2
  <2>3. g = [k \in 0 .. N + 1 |-> IF k = 0 THEN << >> ELSE Longer(unit, tu, k, g[k - 1])]
    BY <2>2
  <2> HIDE DEF g
  <2>4. P(N + 1)
    BY <2>3
  <2> HIDE DEF P
  <2> QED
    BY <2>4
<1>3. Nat \subseteq S
  <2> HIDE DEF S
  <2> QED
    BY <1>1, <1>2, SetInduction
<1> QED
  BY <1>3 DEF OctetTable

(* The equation of the table. *)
LEMMA EncodedIs ==
  ASSUME NEW unit, NEW tu, Len(tu) \in Nat
  PROVE  LET enc == Encoded(unit, tu)
         IN  \A k \in 0 .. Len(tu) :
               enc[k] = IF k = 0 THEN << >> ELSE Cat(enc[k - 1], EncodeObu(unit, k, tu[k]))
<1> DEFINE Table(f) == OctetTable(unit, tu, Len(tu), f)
           upto == CHOOSE f : Table(f)
<1>1. \E f : Table(f)
  BY EncodedExists
<1>2. Table(upto)
  BY <1>1
<1>3. Encoded(unit, tu) = upto
  BY Zenon DEF Encoded, Longer, OctetTable
<1> HIDE DEF upto
<1>4. \A k \in 0 .. Len(tu) :
        upto[k] = IF k = 0 THEN << >> ELSE Cat(upto[k - 1], EncodeObu(unit, k, tu[k]))
  BY <1>2 DEF Cat, Longer, OctetTable
<1> QED
  BY <1>3, <1>4

(* The elements when one more OBU is found. *)
MoreOf(unit, tu, k, elements) ==
  IF tu[k].type \in DroppedTypes THEN elements
  ELSE Append(elements, ElementOf(unit, k, tu[k]))

ElementTable(unit, tu, N, f) ==
  f = [k \in 0 .. N |-> IF k = 0 THEN << >> ELSE MoreOf(unit, tu, k, f[k - 1])]

(* And a table of their elements. *)
LEMMA ElementsExist ==
  ASSUME NEW unit, NEW tu
  PROVE  \A N \in Nat : \E f : ElementTable(unit, tu, N, f)
<1> DEFINE P(N) == \E f : f = [k \in 0 .. N |-> IF k = 0 THEN << >> ELSE MoreOf(unit, tu, k, f[k - 1])]
           S == {N \in Nat : P(N)}
<1>1. 0 \in S
  <2> DEFINE f == [k \in 0 .. 0 |-> << >>]
  <2>1. f = [k \in 0 .. 0 |-> IF k = 0 THEN << >> ELSE MoreOf(unit, tu, k, f[k - 1])]
    OBVIOUS
  <2> QED
    BY <2>1
<1>2. ASSUME NEW N \in Nat, N \in S PROVE N + 1 \in S
  <2>1. PICK f : f = [k \in 0 .. N |-> IF k = 0 THEN << >> ELSE MoreOf(unit, tu, k, f[k - 1])]
    BY <1>2
  <2> DEFINE g == [k \in 0 .. N + 1 |-> IF k = N + 1 THEN MoreOf(unit, tu, N + 1, f[N]) ELSE f[k]]
  <2>2. ASSUME NEW k \in 0 .. N + 1
        PROVE  g[k] = IF k = 0 THEN << >> ELSE MoreOf(unit, tu, k, g[k - 1])
    <3>1. CASE k = N + 1
      <4>1. k # 0 /\ k - 1 = N /\ N \in 0 .. N + 1 /\ N # N + 1
        BY <3>1
      <4>2. g[k - 1] = f[N]
        BY <4>1
      <4> QED
        BY <3>1, <4>1, <4>2
    <3>2. CASE k # N + 1
      <4>1. k \in 0 .. N /\ f[k] = IF k = 0 THEN << >> ELSE MoreOf(unit, tu, k, f[k - 1])
        BY <2>1, <3>2
      <4>2. k # 0 => k - 1 \in 0 .. N + 1 /\ k - 1 # N + 1
        BY <4>1
      <4>3. k # 0 => g[k - 1] = f[k - 1]
        BY <4>2
      <4> QED
        BY <3>2, <4>1, <4>3
    <3> QED
      BY <3>1, <3>2
  <2>3. g = [k \in 0 .. N + 1 |-> IF k = 0 THEN << >> ELSE MoreOf(unit, tu, k, g[k - 1])]
    BY <2>2
  <2> HIDE DEF g
  <2>4. P(N + 1)
    BY <2>3
  <2> HIDE DEF P
  <2> QED
    BY <2>4
<1>3. Nat \subseteq S
  <2> HIDE DEF S
  <2> QED
    BY <1>1, <1>2, SetInduction
<1> QED
  BY <1>3 DEF ElementTable

(* The equation of the table. *)
LEMMA ElementsIs ==
  ASSUME NEW unit, NEW tu, Len(tu) \in Nat
  PROVE  \A k \in 0 .. Len(tu) :
           ElementsOf(unit, tu, k) =
             IF k = 0 THEN << >>
             ELSE IF tu[k].type \in DroppedTypes THEN ElementsOf(unit, tu, k - 1)
             ELSE Append(ElementsOf(unit, tu, k - 1), ElementOf(unit, k, tu[k]))
<1> DEFINE Table(f) == ElementTable(unit, tu, Len(tu), f)
           found == CHOOSE f : Table(f)
<1>1. \E f : Table(f)
  BY ElementsExist
<1>2. Table(found)
  BY <1>1
<1>3. ASSUME NEW k PROVE ElementsOf(unit, tu, k) = found[k]
  BY Zenon DEF ElementsOf, MoreOf, ElementTable
<1> HIDE DEF found
<1>4. \A k \in 0 .. Len(tu) :
        found[k] = IF k = 0 THEN << >>
                   ELSE IF tu[k].type \in DroppedTypes THEN found[k - 1]
                   ELSE Append(found[k - 1], ElementOf(unit, k, tu[k]))
  BY <1>2 DEF MoreOf, ElementTable
<1> QED
  BY <1>3, <1>4

(* What a caller may pass. *)
IsUnit(tu) ==
  /\ Len(tu) \in Nat
  /\ \A j \in 1 .. Len(tu) : IsObu(tu[j]) /\ SizeFits(tu[j]) /\ (j < Len(tu) => tu[j].size)

(* Where the k-th OBU of a unit ends. *)
At(unit, tu, k) == Len(Encoded(unit, tu)[k])

(* An OBU has an octet at least. *)
LEMMA ObuLength ==
  ASSUME NEW unit, NEW tu, IsUnit(tu), NEW k \in 1 .. Len(tu)
  PROVE  LET o == EncodeObu(unit, k, tu[k])
         IN  IsSeq(o) /\ Len(o) \in Nat /\ Len(o) >= 1
<1> DEFINE o == EncodeObu(unit, k, tu[k])
           a == Intro(tu[k])
           m == Len(SizeOctets(tu[k]))
           n == tu[k].len
<1>1. IsObu(tu[k])
  BY DEF IsUnit
<1>2. IsSeq(o) /\ a \in {1, 2} /\ m \in Nat /\ Len(o) = a + m + n
  BY <1>1, ObuLayout
<1>3. n \in Nat
  BY <1>1 DEF IsObu
<1> HIDE DEF o, a, m, n
<1> QED
  BY <1>2, <1>3 DEF o

(* The octets of the first OBUs are a sequence. *)
LEMMA EncodedTypes ==
  ASSUME NEW unit, NEW tu, IsUnit(tu)
  PROVE  /\ Encoded(unit, tu)[0] = << >> /\ At(unit, tu, 0) = 0
         /\ \A k \in 0 .. Len(tu) : IsSeq(Encoded(unit, tu)[k]) /\ At(unit, tu, k) \in Nat
<1> DEFINE enc == Encoded(unit, tu)
           O(k) == EncodeObu(unit, k, tu[k])
           p(k) == Len(enc[k])
           N == Len(tu)
           S == {k \in Nat : k <= N => IsSeq(enc[k])}
<1>1. N \in Nat
  BY DEF IsUnit
<1>2. \A k \in 0 .. N : enc[k] = IF k = 0 THEN << >> ELSE Cat(enc[k - 1], O(k))
  BY <1>1, EncodedIs
<1>3. \A k \in 1 .. N : IsSeq(O(k))
  BY ObuLength
<1> HIDE DEF enc, O, N
<1>4. enc[0] = << >>
  BY <1>1, <1>2
<1>5. 0 \in S
  BY <1>4, NoneIs
<1>6. ASSUME NEW k \in Nat, k \in S PROVE k + 1 \in S
  <2> SUFFICES ASSUME k + 1 <= N PROVE IsSeq(enc[k + 1])
    OBVIOUS
  <2>1. k + 1 \in 0 .. N /\ k + 1 # 0 /\ (k + 1) - 1 = k /\ k + 1 \in 1 .. N /\ k <= N
    BY <1>1
  <2>2. enc[k + 1] = Cat(enc[k], O(k + 1))
    BY <1>2, <2>1
  <2>3. IsSeq(enc[k]) /\ IsSeq(O(k + 1))
    BY <1>3, <1>6, <2>1
  <2> DEFINE x == enc[k]
             o == O(k + 1)
             m == Len(x)
             n == Len(o)
  <2>4. IsSeq(x) /\ IsSeq(o) /\ Len(x) = m /\ Len(o) = n /\ enc[k + 1] = Cat(x, o)
    BY <2>2, <2>3
  <2> HIDE DEF x, o, m, n
  <2> QED
    BY <2>4, CatIs
<1>7. Nat \subseteq S
  <2> HIDE DEF S
  <2> QED
    BY <1>5, <1>6, SetInduction
<1>8. ASSUME NEW k \in 0 .. N PROVE IsSeq(enc[k]) /\ p(k) \in Nat
  <2>1. IsSeq(enc[k])
    BY <1>7
  <2> QED
    BY <2>1 DEF IsSeq
<1>9. p(0) = 0
  BY <1>4, NoneIs
<1> QED
  BY <1>4, <1>8, <1>9, Zenon DEF At, enc, N

(* The octets of an OBU follow those of the OBUs before it.                *)
LEMMA PlaceStep ==
  ASSUME NEW unit, NEW tu, IsUnit(tu), NEW k \in 1 .. Len(tu),
         NEW p, p = At(unit, tu, k - 1), NEW q, q = At(unit, tu, k),
         NEW n, n = Len(EncodeObu(unit, k, tu[k]))
  PROVE  q = p + n /\ p \in Nat /\ n \in Nat /\ n >= 1
<1> DEFINE o == EncodeObu(unit, k, tu[k])
           enc == Encoded(unit, tu)
           x == enc[k - 1]
<1>1. k \in 0 .. Len(tu) /\ k # 0 /\ k - 1 \in 0 .. Len(tu) /\ Len(tu) \in Nat
  BY DEF IsUnit
<1>2. enc[k] = Cat(x, o)
  BY <1>1, EncodedIs
<1>3. IsSeq(x) /\ p \in Nat
  BY <1>1, EncodedTypes
<1>4. IsSeq(o) /\ n \in Nat /\ n >= 1 /\ Len(o) = n
  BY ObuLength
<1>5. q = Len(enc[k]) /\ p = Len(x)
  BY DEF At
<1> HIDE DEF x, enc, o
<1>6. Len(Cat(x, o)) = p + n
  <2>1. IsSeq(x) /\ IsSeq(o) /\ Len(x) = p /\ Len(o) = n
    BY <1>3, <1>4, <1>5
  <2> QED
    BY <2>1, CatIs
<1> QED
  BY <1>2, <1>3, <1>4, <1>5, <1>6

(* PlaceStep of these places. *)
Spans(unit, tu, k, p, q, n) ==
  /\ IsUnit(tu) /\ k \in 1 .. Len(tu)
  /\ p = At(unit, tu, k - 1) /\ q = At(unit, tu, k) /\ n = Len(EncodeObu(unit, k, tu[k]))

LEMMA SpansIs ==
  ASSUME NEW unit, NEW tu, NEW k, NEW p, NEW q, NEW n, Spans(unit, tu, k, p, q, n)
  PROVE  q = p + n /\ p \in Nat /\ n \in Nat /\ n >= 1
BY PlaceStep DEF Spans

(* An octet of the first sequence. *)
LEMMA CatFirst ==
  ASSUME NEW s, IsSeq(s), NEW t, IsSeq(t), NEW m, Len(s) = m, NEW n, Len(t) = n, NEW i \in 1 .. m
  PROVE  Cat(s, t)[i] = s[i]
<1> DEFINE c == Cat(s, t)
<1> HIDE DEF c
<1>1. /\ Len(c) = m + n
      /\ \A k \in 1 .. m : c[k] = s[k]
      /\ \A k \in 1 .. n : c[m + k] = t[k]
  BY CatIs DEF c
<1> QED
  BY <1>1 DEF c

(* An octet of the second. *)
LEMMA CatSecond ==
  ASSUME NEW s, IsSeq(s), NEW t, IsSeq(t), NEW m, Len(s) = m, NEW n, Len(t) = n, NEW i \in 1 .. n
  PROVE  Cat(s, t)[m + i] = t[i]
<1> DEFINE c == Cat(s, t)
<1> HIDE DEF c
<1>1. /\ Len(c) = m + n
      /\ \A k \in 1 .. m : c[k] = s[k]
      /\ \A k \in 1 .. n : c[m + k] = t[k]
  BY CatIs DEF c
<1> QED
  BY <1>1 DEF c

(* The octets of the first k OBUs are those of the first k - 1 and those of *)
(* the k-th.                                                                *)
LEMMA OctetStep ==
  ASSUME NEW unit, NEW tu, IsUnit(tu), NEW k \in 1 .. Len(tu)
  PROVE  /\ \A i \in 1 .. At(unit, tu, k - 1) :
              Encoded(unit, tu)[k][i] = Encoded(unit, tu)[k - 1][i]
         /\ \A i \in 1 .. Len(EncodeObu(unit, k, tu[k])) :
              Encoded(unit, tu)[k][At(unit, tu, k - 1) + i] = EncodeObu(unit, k, tu[k])[i]
<1> DEFINE enc == Encoded(unit, tu)
           x == enc[k - 1]
           o == EncodeObu(unit, k, tu[k])
           p == At(unit, tu, k - 1)
           n == Len(o)
<1>1. k \in 0 .. Len(tu) /\ k # 0 /\ k - 1 \in 0 .. Len(tu) /\ Len(tu) \in Nat
  BY DEF IsUnit
<1>2. enc[k] = Cat(x, o)
  BY <1>1, EncodedIs
<1>3. IsSeq(x) /\ p \in Nat
  BY <1>1, EncodedTypes
<1>4. IsSeq(o) /\ n = Len(o) /\ n \in Nat
  BY ObuLength
<1>5. p = Len(x)
  BY DEF At
<1> HIDE DEF x, enc, o, p, n
<1>6. ASSUME NEW i \in 1 .. p PROVE Cat(x, o)[i] = x[i]
  <2>1. IsSeq(x) /\ IsSeq(o) /\ Len(x) = p /\ Len(o) = n
    BY <1>3, <1>4, <1>5
  <2> QED
    BY <2>1, CatFirst
<1>7. ASSUME NEW i \in 1 .. n PROVE Cat(x, o)[p + i] = o[i]
  <2>1. IsSeq(x) /\ IsSeq(o) /\ Len(x) = p /\ Len(o) = n
    BY <1>3, <1>4, <1>5
  <2> QED
    BY <2>1, CatSecond
<1> QED
  BY <1>2, <1>6, <1>7, Zenon DEF x, enc, o, p, n

(* A later OBU ends later. *)
LEMMA PlaceRises ==
  ASSUME NEW unit, NEW tu, IsUnit(tu), NEW i \in 0 .. Len(tu), NEW j \in 0 .. Len(tu), i <= j
  PROVE  At(unit, tu, i) + (j - i) <= At(unit, tu, j)
<1> DEFINE p(k) == At(unit, tu, k)
           N == Len(tu)
           S == {d \in Nat : i + d <= N => p(i) + d <= p(i + d)}
<1>1. N \in Nat /\ i \in 0 .. N /\ j \in 0 .. N
  BY DEF IsUnit
<1>2. \A k \in 0 .. N : p(k) \in Nat
  BY EncodedTypes, Zenon
<1>3. ASSUME NEW k \in 1 .. N PROVE p(k) >= p(k - 1) + 1
  <2> DEFINE n == Len(EncodeObu(unit, k, tu[k]))
             x == p(k - 1)
             y == p(k)
  <2>1. n = Len(EncodeObu(unit, k, tu[k])) /\ x = At(unit, tu, k - 1) /\ y = At(unit, tu, k)
    OBVIOUS
  <2> HIDE DEF n, x, y
  <2>2. y = x + n /\ x \in Nat /\ n \in Nat /\ n >= 1
    BY <2>1, PlaceStep
  <2>3. y >= x + 1
    BY <2>2
  <2> QED
    BY <2>3 DEF x, y
<1> HIDE DEF p, N
<1>4. 0 \in S
  BY <1>1, <1>2
<1>5. ASSUME NEW d \in Nat, d \in S PROVE d + 1 \in S
  <2> SUFFICES ASSUME i + (d + 1) <= N PROVE p(i) + (d + 1) <= p(i + (d + 1))
    OBVIOUS
  <2> DEFINE k == i + (d + 1)
  <2>1. k \in 1 .. N /\ k - 1 = i + d /\ i + d \in 0 .. N /\ k \in 0 .. N
    BY <1>1
  <2>2. p(i) + d <= p(i + d)
    BY <1>5, <2>1
  <2> HIDE DEF k
  <2>3. p(k) >= p(i + d) + 1 /\ p(k) \in Nat /\ p(i + d) \in Nat /\ p(i) \in Nat
    BY <1>1, <1>2, <1>3, <2>1
  <2>4. p(i) + (d + 1) <= p(k)
    BY <2>2, <2>3
  <2> QED
    BY <2>4 DEF k
<1>6. Nat \subseteq S
  <2> HIDE DEF S
  <2> QED
    BY <1>4, <1>5, SetInduction
<1>7. j - i \in Nat /\ i + (j - i) = j /\ j <= N
  BY <1>1
<1>8. p(i) + (j - i) <= p(i + (j - i))
  BY <1>6, <1>7
<1> QED
  BY <1>7, <1>8 DEF p

(* The octets of an OBU are those of the unit from where the OBU before it  *)
(* ends.                                                                    *)
LEMMA ObuAt ==
  ASSUME NEW unit, NEW tu, IsUnit(tu), NEW k \in 1 .. Len(tu)
  PROVE  LET o == EncodeObu(unit, k, tu[k])
         IN  \A i \in 1 .. Len(o) : Encode(unit, tu)[At(unit, tu, k - 1) + i] = o[i]
<1> DEFINE p(l) == At(unit, tu, l)
           N == Len(tu)
           o == EncodeObu(unit, k, tu[k])
           enc(l) == Encoded(unit, tu)[l]
           S == {d \in Nat : k + d <= N =>
                   \A i \in 1 .. Len(o) : enc(k + d)[p(k - 1) + i] = o[i]}
<1>1. N \in Nat /\ k \in 1 .. N /\ k - 1 \in 0 .. N /\ k \in 0 .. N
  BY DEF IsUnit
<1>2. \A l \in 0 .. N : p(l) \in Nat
  BY EncodedTypes, Zenon
<1>3. p(k) = p(k - 1) + Len(o) /\ \A i \in 1 .. Len(o) : enc(k)[p(k - 1) + i] = o[i]
  <2> DEFINE n == Len(o)
             x == p(k - 1)
             y == p(k)
  <2>1. n = Len(EncodeObu(unit, k, tu[k])) /\ x = At(unit, tu, k - 1) /\ y = At(unit, tu, k)
    OBVIOUS
  <2>2. \A i \in 1 .. Len(o) : enc(k)[p(k - 1) + i] = o[i]
    BY OctetStep
  <2> HIDE DEF n, x, y
  <2>3. y = x + n
    BY <2>1, PlaceStep
  <2> QED
    BY <2>2, <2>3 DEF n, x, y
<1>4. ASSUME NEW l \in 1 .. N, NEW i \in 1 .. p(l - 1) PROVE enc(l)[i] = enc(l - 1)[i]
  BY OctetStep
<1>5. \A l \in 0 .. N : k <= l => p(k) <= p(l)
  <2> TAKE l \in 0 .. N
  <2> HAVE k <= l
  <2>1. p(k) + (l - k) <= p(l)
    BY <1>1, PlaceRises
  <2>2. p(k) \in Nat /\ p(l) \in Nat
    BY <1>1, <1>2
  <2> HIDE DEF p
  <2> QED
    BY <1>1, <2>1, <2>2
<1>6. Len(o) \in Nat
  BY ObuLength
<1>7. Encode(unit, tu) = enc(N)
  BY DEF Encode
<1> HIDE DEF p, N, o, enc
<1>8. 0 \in S
  BY <1>1, <1>3
<1>9. ASSUME NEW d \in Nat, d \in S PROVE d + 1 \in S
  <2> SUFFICES ASSUME k + (d + 1) <= N, NEW i \in 1 .. Len(o)
               PROVE  enc(k + (d + 1))[p(k - 1) + i] = o[i]
    OBVIOUS
  <2> DEFINE l == k + (d + 1)
             x == p(k - 1) + i
  <2>1. l \in 1 .. N /\ l - 1 = k + d /\ k + d <= N /\ k + d \in 0 .. N /\ k <= k + d
    BY <1>1
  <2>2. enc(k + d)[x] = o[i]
    BY <1>9, <2>1
  <2>3. x \in 1 .. p(l - 1)
    <3>1. p(k) <= p(k + d) /\ p(k + d) \in Nat /\ p(k) \in Nat /\ p(k - 1) \in Nat
      BY <1>1, <1>2, <1>5, <2>1
    <3>2. x \in 1 .. p(k + d)
      BY <1>3, <1>6, <3>1
    <3> QED
      BY <2>1, <3>2
  <2> HIDE DEF l, x
  <2>4. enc(l)[x] = enc(l - 1)[x]
    BY <1>4, <2>1, <2>3
  <2>5. enc(l)[x] = o[i]
    BY <2>1, <2>2, <2>4
  <2> QED
    BY <2>5 DEF l, x
<1>10. Nat \subseteq S
  <2> HIDE DEF S
  <2> QED
    BY <1>8, <1>9, SetInduction
<1>11. N - k \in Nat /\ k + (N - k) = N /\ N <= N
  BY <1>1
<1>12. \A i \in 1 .. Len(o) : enc(k + (N - k))[p(k - 1) + i] = o[i]
  BY <1>10, <1>11
<1>13. \A i \in 1 .. Len(o) : enc(N)[p(k - 1) + i] = o[i]
  BY <1>11, <1>12
<1> QED
  BY <1>7, <1>13, Zenon DEF p, o

(* The stream is the beginning of what an encoder makes of the unit, and   *)
(* that is in memory.                                                      *)
OfUnit(s, unit, tu) ==
  /\ IsSeq(s) /\ Len(s) <= At(unit, tu, Len(tu)) /\ At(unit, tu, Len(tu)) < U64
  /\ \A i \in 1 .. Len(s) : s[i] = Encode(unit, tu)[i]

(* From the end of an OBU on, the stream has the octets of the next. *)
LEMMA UnitReads ==
  ASSUME NEW unit, NEW tu, IsUnit(tu), NEW s, OfUnit(s, unit, tu), NEW k \in 1 .. Len(tu),
         At(unit, tu, k - 1) < Len(s)
  PROVE  Reads(s, At(unit, tu, k - 1), EncodeObu(unit, k, tu[k]))
<1> DEFINE at == At(unit, tu, k - 1)
           o == EncodeObu(unit, k, tu[k])
           e == Encode(unit, tu)
<1>1. at \in Nat
  <2>1. k - 1 \in 0 .. Len(tu)
    BY DEF IsUnit
  <2> QED
    BY <2>1, EncodedTypes, Zenon
<1>2. \A i \in 1 .. Len(o) : e[at + i] = o[i]
  BY ObuAt
<1>3. IsSeq(s) /\ Len(s) \in Nat /\ \A i \in 1 .. Len(s) : s[i] = e[i]
  BY DEF OfUnit, IsSeq
<1>4. Len(o) \in Nat /\ at < Len(s)
  BY ObuLength
<1> HIDE DEF at, o, e
<1>5. ASSUME NEW i \in 1 .. Len(o), at + i <= Len(s) PROVE s[at + i] = o[i]
  <2>1. at + i \in 1 .. Len(s)
    BY <1>1, <1>3, <1>4, <1>5
  <2> QED
    BY <1>2, <1>3, <2>1
<1>6. Reads(s, at, o)
  BY <1>1, <1>3, <1>4, <1>5, Zenon DEF Reads
<1> QED
  BY <1>6 DEF at, o

(* What has been found grows by one, or not. *)
LEMMA ElementsGrow ==
  ASSUME NEW unit, NEW tu, IsUnit(tu)
  PROVE  /\ ElementsOf(unit, tu, 0) = << >>
         /\ \A k \in 0 .. Len(tu) :
              IsSeq(ElementsOf(unit, tu, k)) /\ Len(ElementsOf(unit, tu, k)) \in Nat
         /\ \A k \in 1 .. Len(tu) :
              LET es == ElementsOf(unit, tu, k - 1)
              IN  IF tu[k].type \in DroppedTypes THEN ElementsOf(unit, tu, k) = es
                  ELSE /\ ElementsOf(unit, tu, k) = Append(es, ElementOf(unit, k, tu[k]))
                       /\ Len(ElementsOf(unit, tu, k)) = Len(es) + 1
<1> DEFINE E(k) == ElementsOf(unit, tu, k)
           N == Len(tu)
           X(k) == ElementOf(unit, k, tu[k])
           Drops(k) == tu[k].type \in DroppedTypes
           S == {k \in Nat : k <= N => IsSeq(E(k))}
<1>1. N \in Nat
  BY DEF IsUnit
<1>2. \A k \in 0 .. N : E(k) = IF k = 0 THEN << >> ELSE IF Drops(k) THEN E(k - 1) ELSE Append(E(k - 1), X(k))
  BY <1>1, ElementsIs
<1> HIDE DEF E, N, X, Drops
<1>3. E(0) = << >>
  BY <1>1, <1>2
<1>4. \A k \in 1 .. N : k \in 0 .. N /\ k - 1 \in 0 .. N /\ k # 0
  BY <1>1
<1>5. ASSUME NEW k \in 1 .. N
      PROVE  E(k) = IF Drops(k) THEN E(k - 1) ELSE Append(E(k - 1), X(k))
  BY <1>2, <1>4
<1>6. 0 \in S
  BY <1>3, NoneIs
<1>7. ASSUME NEW k \in Nat, k \in S PROVE k + 1 \in S
  <2> SUFFICES ASSUME k + 1 <= N PROVE IsSeq(E(k + 1))
    OBVIOUS
  <2>1. k + 1 \in 1 .. N /\ (k + 1) - 1 = k /\ k <= N
    BY <1>1
  <2>2. IsSeq(E(k)) /\ (E(k + 1) = E(k) \/ E(k + 1) = Append(E(k), X(k + 1)))
    BY <1>5, <1>7, <2>1
  <2> DEFINE x == E(k)
             y == X(k + 1)
  <2>3. IsSeq(x) /\ (E(k + 1) = x \/ E(k + 1) = Append(x, y))
    BY <2>2
  <2> HIDE DEF x, y
  <2>4. IsSeq(Append(x, y))
    BY <2>3, AppendIs
  <2> QED
    BY <2>3, <2>4
<1>8. Nat \subseteq S
  <2> HIDE DEF S
  <2> QED
    BY <1>6, <1>7, SetInduction
<1>9. ASSUME NEW k \in 0 .. N PROVE IsSeq(E(k)) /\ Len(E(k)) \in Nat
  BY <1>8 DEF IsSeq
<1>10. ASSUME NEW k \in 1 .. N, ~ Drops(k)
       PROVE  E(k) = Append(E(k - 1), X(k)) /\ Len(E(k)) = Len(E(k - 1)) + 1
  <2>1. E(k) = Append(E(k - 1), X(k)) /\ IsSeq(E(k - 1))
    BY <1>4, <1>5, <1>9, <1>10
  <2> QED
    BY <2>1, AppendIs
<1>11. \A k \in 1 .. N :
         IF Drops(k) THEN E(k) = E(k - 1)
         ELSE E(k) = Append(E(k - 1), X(k)) /\ Len(E(k)) = Len(E(k - 1)) + 1
  BY <1>5, <1>10
<1> QED
  BY <1>3, <1>9, <1>11, Zenon DEF E, N, X, Drops

(* Elements are sequences of an octet at least. *)
NoneEmpty(es) == IsSeq(es) /\ \A i \in 1 .. Len(es) : IsSeq(es[i]) /\ Len(es[i]) # 0

(* An element begins with its OBU header. *)
LEMMA ElementIs ==
  ASSUME NEW unit, NEW j, NEW obu, IsObu(obu)
  PROVE  IsSeq(ElementOf(unit, j, obu)) /\ Len(ElementOf(unit, j, obu)) # 0
<1> DEFINE h == obu_clear_size_field(obu_header(unit, j, obu))
           b == Cat(One(h), ExtOctets(unit, j, obu))
           p == PayloadOctets(unit, j, obu.len)
           m == Len(b)
           n == Len(p)
<1>1. IsSeq(b) /\ m \in {1, 2}
  <2> HIDE DEF h
  <2>1. IsSeq(b) /\ Len(b) = Intro(obu) /\ Intro(obu) \in {1, 2}
    BY IntroIs
  <2> HIDE DEF b
  <2> QED
    BY <2>1
<1>2. IsSeq(p)
  <2>1. obu.len \in Nat
    BY DEF IsObu
  <2> QED
    BY <2>1, PayloadIs
<1>3. ElementOf(unit, j, obu) = Cat(b, p)
  BY Zenon DEF ElementOf, Cat, One
<1>4. Len(b) = m /\ Len(p) = n
  OBVIOUS
<1> HIDE DEF b, p, m, n
<1>5. IsSeq(Cat(b, p)) /\ Len(Cat(b, p)) = m + n /\ n \in Nat
  BY <1>1, <1>2, <1>4, CatIs
<1> QED
  BY <1>1, <1>3, <1>5

(* So none of those of a unit is empty. *)
LEMMA ElementsWhole ==
  ASSUME NEW unit, NEW tu, IsUnit(tu), NEW k \in 0 .. Len(tu)
  PROVE  NoneEmpty(ElementsOf(unit, tu, k))
<1> DEFINE E(j) == ElementsOf(unit, tu, j)
           N == Len(tu)
           X(j) == ElementOf(unit, j, tu[j])
           Drops(j) == tu[j].type \in DroppedTypes
           S == {j \in Nat : j <= N => NoneEmpty(E(j))}
<1>1. N \in Nat
  BY DEF IsUnit
<1>2. /\ E(0) = << >>
      /\ \A j \in 1 .. N : E(j) = IF Drops(j) THEN E(j - 1) ELSE Append(E(j - 1), X(j))
  BY ElementsGrow, Zenon
<1>3. ASSUME NEW j \in 1 .. N PROVE IsSeq(X(j)) /\ Len(X(j)) # 0
  BY ElementIs DEF IsUnit
<1> HIDE DEF E, N, X, Drops
<1>4. 0 \in S
  BY <1>2, NoneIs DEF NoneEmpty
<1>5. ASSUME NEW j \in Nat, j \in S PROVE j + 1 \in S
  <2> SUFFICES ASSUME j + 1 <= N PROVE NoneEmpty(E(j + 1))
    OBVIOUS
  <2>1. j + 1 \in 1 .. N /\ (j + 1) - 1 = j /\ j <= N
    BY <1>1
  <2> DEFINE es == E(j)
             x == X(j + 1)
  <2>2. NoneEmpty(es) /\ IsSeq(x) /\ Len(x) # 0 /\ (E(j + 1) = es \/ E(j + 1) = Append(es, x))
    BY <1>2, <1>3, <1>5, <2>1
  <2> HIDE DEF es, x
  <2>3. NoneEmpty(Append(es, x))
    <3> DEFINE fs == Append(es, x)
    <3>1. /\ IsSeq(fs) /\ Len(es) \in Nat /\ Len(fs) = Len(es) + 1
          /\ \A i \in 1 .. Len(es) : fs[i] = es[i]
          /\ fs[Len(es) + 1] = x
      BY <2>2, AppendIs DEF NoneEmpty
    <3> HIDE DEF fs
    <3>2. \A i \in 1 .. Len(fs) : i \in 1 .. Len(es) \/ i = Len(es) + 1
      BY <3>1
    <3>3. NoneEmpty(fs)
      BY <2>2, <3>1, <3>2 DEF NoneEmpty
    <3> QED
      BY <3>3 DEF fs
  <2> QED
    BY <2>2, <2>3
<1>6. Nat \subseteq S
  <2> HIDE DEF S
  <2> QED
    BY <1>4, <1>5, SetInduction
<1>7. NoneEmpty(E(k))
  BY <1>1, <1>6 DEF N
<1> QED
  BY <1>7 DEF E

-----------------------------------------------------------------------------
(* The loop over what an encoder made. *)

(* What the loop holds when it has read the first OBUs of a unit. *)
Reached(unit, tu, k) ==
  LET es == ElementsOf(unit, tu, k)
  IN  IF Len(es) <= MAX_OBUS_PER_TU
      THEN [pos |-> At(unit, tu, k) + 1, n |-> Len(es), elements |-> es]
      ELSE Malformed

(* A turn on a whole OBU, said shortly. *)
Turn(unit, j, obu, end, p) ==
  IF obu.type \notin DroppedTypes /\ p.n >= MAX_OBUS_PER_TU THEN Malformed
  ELSE IF obu.type \in DroppedTypes THEN [p EXCEPT !.pos = end + 1]
  ELSE [pos |-> end + 1, n |-> p.n + 1,
        elements |-> Append(p.elements, ElementOf(unit, j, obu))]

Whole(unit, j, obu, s, at, end, p) ==
  /\ IsObu(obu) /\ SizeFits(obu) /\ Reads(s, at, EncodeObu(unit, j, obu))
  /\ end = at + Len(EncodeObu(unit, j, obu)) /\ end <= Len(s) /\ end < U64
  /\ ~ obu.size => end = Len(s)
  /\ p.pos = at + 1

(* TurnWhole in these terms. *)
LEMMA TurnWholeIs ==
  ASSUME NEW unit, NEW j, NEW obu, NEW s, NEW at, NEW end, NEW p,
         Whole(unit, j, obu, s, at, end, p)
  PROVE  parse_obu(s, p) = Turn(unit, j, obu, end, p)
BY TurnWhole DEF Whole, Turn

(* A turn takes the loop from one OBU to the next. *)
LEMMA TurnReached ==
  ASSUME NEW unit, NEW tu, IsUnit(tu), NEW s, OfUnit(s, unit, tu), NEW k \in 1 .. Len(tu),
         NEW at, at = At(unit, tu, k - 1), NEW end, end = At(unit, tu, k), end <= Len(s),
         NEW p, p = Reached(unit, tu, k - 1)
  PROVE  Turned(s, p) = Reached(unit, tu, k)
<1> DEFINE o == EncodeObu(unit, k, tu[k])
           es == ElementsOf(unit, tu, k - 1)
           fs == ElementsOf(unit, tu, k)
           n == Len(es)
           m == Len(fs)
           N == Len(s)
           drops == tu[k].type \in DroppedTypes
           x == ElementOf(unit, k, tu[k])
<1>1. k - 1 \in 0 .. Len(tu) /\ k \in 0 .. Len(tu) /\ Len(tu) \in Nat
  BY DEF IsUnit
<1>2. end = at + Len(o) /\ at \in Nat /\ Len(o) \in Nat /\ Len(o) >= 1
  <2> DEFINE l == Len(o)
  <2>1. at = At(unit, tu, k - 1) /\ end = At(unit, tu, k) /\ l = Len(EncodeObu(unit, k, tu[k]))
    OBVIOUS
  <2> HIDE DEF l, o, es, fs, n, m, N, drops, x
  <2>2. end = at + l /\ at \in Nat /\ l \in Nat /\ l >= 1
    BY <2>1, PlaceStep
  <2> QED
    BY <2>2 DEF l
<1>3. N \in Nat /\ end <= N
  BY DEF OfUnit, IsSeq
<1>3a. end < U64
  <2> DEFINE l == At(unit, tu, Len(tu))
  <2>1. N <= l /\ l < U64
    BY DEF OfUnit
  <2>2. end \in Nat /\ l \in Nat /\ U64 \in Nat
    <3>1. k \in 0 .. Len(tu) /\ Len(tu) \in 0 .. Len(tu)
      BY <1>1
    <3>2. At(unit, tu, k) \in Nat /\ l \in Nat
      BY <3>1, EncodedTypes, Zenon
    <3> QED
      BY <3>2, WidthAssumption
  <2> HIDE DEF l, N, o, es, fs, n, m
  <2> QED
    BY <1>3, <2>1, <2>2
<1>4. /\ n \in Nat /\ m \in Nat
      /\ drops => fs = es
      /\ ~ drops => fs = Append(es, x) /\ m = n + 1
  <2>1. n \in Nat /\ m \in Nat
    BY <1>1, ElementsGrow, Zenon
  <2>2. IF drops THEN fs = es ELSE fs = Append(es, x) /\ m = n + 1
    BY ElementsGrow, Zenon
  <2> QED
    BY <2>1, <2>2, Zenon
<1>5. /\ p = IF n <= MAX_OBUS_PER_TU THEN [pos |-> at + 1, n |-> n, elements |-> es] ELSE Malformed
      /\ Reached(unit, tu, k) =
           IF m <= MAX_OBUS_PER_TU THEN [pos |-> end + 1, n |-> m, elements |-> fs] ELSE Malformed
  BY Zenon DEF Reached
<1>6. MAX_OBUS_PER_TU \in Nat
  BY Av1Assumption
<1>7. at < Len(s) /\ (~ tu[k].size => end = Len(s))
  <2>1. at < N
    <3> DEFINE l == Len(o)
    <3>1. end = at + l /\ at \in Nat /\ l \in Nat /\ l >= 1 /\ N \in Nat /\ end <= N
      BY <1>2, <1>3
    <3> HIDE DEF l, N
    <3> QED
      BY <3>1
  <2>2. ASSUME ~ tu[k].size PROVE end = N
    <3>1. ~ (k < Len(tu))
      BY <2>2, Zenon DEF IsUnit
    <3>2. k = Len(tu)
      BY <1>1, <3>1
    <3>3. N <= end
      BY <3>2 DEF OfUnit
    <3>4. end \in Nat
      BY <1>1, EncodedTypes, Zenon
    <3> HIDE DEF N
    <3> QED
      BY <1>3, <3>3, <3>4
  <2> QED
    BY <2>1, <2>2
<1>8. IsObu(tu[k]) /\ SizeFits(tu[k])
  BY DEF IsUnit
<1>9. Reads(s, at, o)
  BY <1>7, UnitReads
<1>10. CASE n <= MAX_OBUS_PER_TU
  <2>1. p = [pos |-> at + 1, n |-> n, elements |-> es]
    BY <1>5, <1>10
  <2>2. p.pos = at + 1 /\ p.n = n /\ p.elements = es
    BY <2>1
  <2>3. parse_obu(s, p) =
          IF ~ drops /\ p.n >= MAX_OBUS_PER_TU THEN Malformed
          ELSE IF drops THEN [p EXCEPT !.pos = end + 1]
          ELSE [pos |-> end + 1, n |-> p.n + 1, elements |-> Append(p.elements, x)]
    <3>1. Whole(unit, k, tu[k], s, at, end, p)
      <4>1. end = at + Len(EncodeObu(unit, k, tu[k]))
        BY <1>2
      <4>2. ~ tu[k].size => end = Len(s)
        BY <1>7
      <4>3. p.pos = at + 1
        BY <2>2
      <4>4. Reads(s, at, EncodeObu(unit, k, tu[k]))
        BY <1>9
      <4>5. end <= Len(s)
        BY <1>3
      <4> HIDE DEF o, es, fs, n, m, N, drops, x
      <4> QED
        BY <1>3a, <1>8, <4>1, <4>2, <4>3, <4>4, <4>5 DEF Whole
    <3>2. parse_obu(s, p) = Turn(unit, k, tu[k], end, p)
      BY <3>1, TurnWholeIs
    <3> QED
      BY <3>2, Zenon DEF Turn
  <2>4. Turned(s, p) = parse_obu(s, p)
    <3>1. ~ (p.n = -1 \/ p.pos > Len(s))
      <4>1. n \in Nat /\ at \in Nat /\ N \in Nat /\ at < N
        BY <1>2, <1>3, <1>4, <1>7
      <4> HIDE DEF n, N
      <4>2. p.n # -1
        BY <2>2, <4>1
      <4>3. ~ (p.pos > N)
        BY <2>2, <4>1
      <4> QED
        BY <4>2, <4>3 DEF N
    <3> QED
      BY <3>1, Zenon DEF Turned
  <2> HIDE DEF o, es, fs, n, m, N, drops, x
  <2>5. CASE drops
    <3>1. Turned(s, p) = [pos |-> end + 1, n |-> n, elements |-> es]
      BY <2>1, <2>3, <2>4, <2>5
    <3>2. m = n /\ fs = es
      BY <1>4, <2>5 DEF m, n
    <3> QED
      BY <1>5, <1>10, <3>1, <3>2
  <2>6. CASE ~ drops /\ n >= MAX_OBUS_PER_TU
    <3>1. Turned(s, p) = Malformed
      BY <2>2, <2>3, <2>4, <2>6
    <3>2. ~ (m <= MAX_OBUS_PER_TU)
      BY <1>4, <1>6, <2>6
    <3> QED
      BY <1>5, <3>1, <3>2
  <2>7. CASE ~ drops /\ ~ (n >= MAX_OBUS_PER_TU)
    <3>1. Turned(s, p) = [pos |-> end + 1, n |-> n + 1, elements |-> Append(es, x)]
      BY <2>2, <2>3, <2>4, <2>7
    <3>2. m <= MAX_OBUS_PER_TU /\ m = n + 1 /\ fs = Append(es, x)
      BY <1>4, <1>6, <2>7
    <3> QED
      BY <1>5, <3>1, <3>2
  <2> QED
    BY <2>5, <2>6, <2>7
<1>11. CASE ~ (n <= MAX_OBUS_PER_TU)
  <2>1. p = Malformed
    BY <1>5, <1>11
  <2>2. Turned(s, p) = Malformed
    BY <2>1 DEF Turned, Malformed
  <2> HIDE DEF n, m, es, fs, drops
  <2>3. ~ (m <= MAX_OBUS_PER_TU)
    <3>1. m = n \/ m = n + 1
      BY <1>4 DEF n, m
    <3> QED
      BY <1>4, <1>6, <1>11, <3>1
  <2> QED
    BY <1>5, <2>2, <2>3
<1> QED
  BY <1>10, <1>11

(* The table of the loop. *)
LoopOver(s, f) == \A k \in 0 .. Len(s) : f[k] = IF k = 0 THEN Begun ELSE Turned(s, f[k - 1])

(* So after k turns the loop has read k OBUs. *)
LEMMA LoopReaches ==
  ASSUME NEW unit, NEW tu, IsUnit(tu), NEW s, OfUnit(s, unit, tu), NEW f, LoopOver(s, f),
         NEW k \in 0 .. Len(tu), At(unit, tu, k) <= Len(s)
  PROVE  k <= Len(s) /\ f[k] = Reached(unit, tu, k)
<1> DEFINE p(t) == At(unit, tu, t)
           R(t) == Reached(unit, tu, t)
           N == Len(s)
           M == Len(tu)
           S == {t \in Nat : t <= M /\ p(t) <= N => f[t] = R(t)}
<1>1. N \in Nat /\ M \in Nat
  BY DEF OfUnit, IsSeq, IsUnit
<1>2. \A t \in 0 .. M : p(t) \in Nat /\ t <= p(t)
  <2> TAKE t \in 0 .. M
  <2>1. p(t) \in Nat /\ p(0) = 0
    BY EncodedTypes, Zenon
  <2>2. p(0) + (t - 0) <= p(t)
    <3>1. 0 \in 0 .. M /\ 0 <= t
      BY <1>1
    <3> QED
      BY <3>1, PlaceRises
  <2> HIDE DEF p
  <2> QED
    BY <2>1, <2>2
<1>3. \A t \in 1 .. M : p(t - 1) <= p(t)
  <2> TAKE t \in 1 .. M
  <2>1. t \in 0 .. M /\ t - 1 \in 0 .. M /\ t - 1 <= t
    BY <1>1
  <2> DEFINE r == t - 1
  <2>2. r \in 0 .. M /\ t \in 0 .. M /\ r <= t /\ t - r = 1
    BY <2>1
  <2> HIDE DEF r
  <2>3. p(r) + (t - r) <= p(t)
    BY <2>2, PlaceRises
  <2>4. p(r) \in Nat /\ p(t) \in Nat
    BY <1>2, <2>2
  <2> HIDE DEF p
  <2>5. p(r) <= p(t)
    BY <2>2, <2>3, <2>4
  <2> QED
    BY <2>5 DEF r
<1>4. R(0) = Begun
  <2>1. ElementsOf(unit, tu, 0) = << >> /\ p(0) = 0
    BY ElementsGrow, EncodedTypes, Zenon
  <2>2. 0 <= MAX_OBUS_PER_TU
    BY Av1Assumption
  <2>3. Len(<< >>) = 0
    BY NoneIs
  <2>4. R(0) = [pos |-> 0 + 1, n |-> 0, elements |-> << >>]
    BY <2>1, <2>2, <2>3, Zenon DEF Reached
  <2> QED
    BY <2>4 DEF Begun
<1>5. ASSUME NEW t \in 1 .. M, p(t) <= N PROVE Turned(s, R(t - 1)) = R(t)
  BY <1>5, TurnReached
<1>6. \A t \in 0 .. N : f[t] = IF t = 0 THEN Begun ELSE Turned(s, f[t - 1])
  BY DEF LoopOver
<1> HIDE DEF p, R, N, M
<1>7. 0 \in S
  BY <1>1, <1>4, <1>6
<1>8. ASSUME NEW t \in Nat, t \in S PROVE t + 1 \in S
  <2> SUFFICES ASSUME t + 1 <= M, p(t + 1) <= N PROVE f[t + 1] = R(t + 1)
    OBVIOUS
  <2> DEFINE u == t + 1
  <2>1. u \in 1 .. M /\ u \in 0 .. M /\ u - 1 = t /\ t \in 0 .. M /\ t <= M /\ p(u) <= N /\ u # 0
    BY <1>1
  <2> HIDE DEF u
  <2>2. p(t) <= p(u) /\ u <= p(u) /\ p(t) \in Nat /\ p(u) \in Nat
    BY <1>2, <1>3, <2>1
  <2>3. p(t) <= N /\ u \in 0 .. N
    BY <1>1, <2>1, <2>2
  <2>4. f[t] = R(t)
    BY <1>8, <2>1, <2>3
  <2>5. f[u] = Turned(s, f[u - 1])
    BY <1>6, <2>1, <2>3
  <2>6. f[u] = R(u)
    BY <1>5, <2>1, <2>4, <2>5
  <2> QED
    BY <2>6 DEF u
<1>9. Nat \subseteq S
  <2> HIDE DEF S
  <2> QED
    BY <1>7, <1>8, SetInduction
<1>10. k \in Nat /\ k <= M /\ k \in 0 .. M /\ p(k) <= N
  BY <1>1 DEF M, N, p
<1>11. k <= N
  BY <1>1, <1>2, <1>10
<1>12. f[k] = R(k)
  BY <1>9, <1>10
<1> QED
  BY <1>11, <1>12 DEF N, R

(* Once it has failed or has read everything, nothing changes. *)
LEMMA LoopStays ==
  ASSUME NEW s, Len(s) \in Nat, NEW f, LoopOver(s, f), NEW k \in 0 .. Len(s),
         f[k].n = -1 \/ f[k].pos > Len(s)
  PROVE  f[Len(s)] = f[k]
<1> DEFINE N == Len(s)
           S == {d \in Nat : k + d <= N => f[k + d] = f[k]}
<1>1. N \in Nat /\ k \in 0 .. N
  OBVIOUS
<1>2. \A t \in 0 .. N : f[t] = IF t = 0 THEN Begun ELSE Turned(s, f[t - 1])
  BY DEF LoopOver
<1>3. Turned(s, f[k]) = f[k]
  BY DEF Turned
<1> HIDE DEF N
<1>4. 0 \in S
  BY <1>1
<1>5. ASSUME NEW d \in Nat, d \in S PROVE d + 1 \in S
  <2> SUFFICES ASSUME k + (d + 1) <= N PROVE f[k + (d + 1)] = f[k]
    OBVIOUS
  <2> DEFINE t == k + (d + 1)
  <2>1. t \in 0 .. N /\ t # 0 /\ t - 1 = k + d /\ k + d <= N
    BY <1>1
  <2>2. f[k + d] = f[k]
    BY <1>5, <2>1
  <2> HIDE DEF t
  <2>3. f[t] = Turned(s, f[k + d])
    BY <1>2, <2>1
  <2>4. f[t] = f[k]
    BY <1>3, <2>2, <2>3
  <2> QED
    BY <2>4 DEF t
<1>6. Nat \subseteq S
  <2> HIDE DEF S
  <2> QED
    BY <1>4, <1>5, SetInduction
<1>7. N - k \in Nat /\ k + (N - k) = N /\ N <= N
  BY <1>1
<1>8. f[k + (N - k)] = f[k]
  BY <1>6, <1>7
<1> QED
  BY <1>7, <1>8 DEF N

(* The first k OBUs have k octets at least. *)
LEMMA PlaceAtLeast ==
  ASSUME NEW unit, NEW tu, IsUnit(tu), NEW k \in 0 .. Len(tu), NEW at, at = At(unit, tu, k)
  PROVE  at \in Nat /\ k <= at
<1> DEFINE z == 0
           begin == At(unit, tu, z)
<1>1. begin = 0 /\ at \in Nat
  BY EncodedTypes, Zenon
<1>2. z \in 0 .. Len(tu) /\ z <= k /\ z = 0
  BY DEF IsUnit
<1>3. begin + (k - z) <= at
  <2> HIDE DEF z
  <2> QED
    BY <1>2, PlaceRises
<1> HIDE DEF begin
<1> QED
  BY <1>1, <1>3

(* A stream that ends with an OBU is read to its end. *)
LEMMA ParseBoundary ==
  ASSUME NEW unit, NEW tu, IsUnit(tu), NEW s, OfUnit(s, unit, tu), NEW k \in 0 .. Len(tu),
         NEW at, at = At(unit, tu, k), Len(s) = at
  PROVE  parse_obus(s) = Reached(unit, tu, k)
<1> DEFINE N == Len(s)
           es == ElementsOf(unit, tu, k)
           n == Len(es)
<1>1. N \in Nat /\ at \in Nat /\ k <= at
  BY PlaceAtLeast
<1>2. PICK f : parse_obus(s) = f[N] /\ LoopOver(s, f)
  BY <1>1, ParseTable DEF LoopOver
<1>3. f[k] = Reached(unit, tu, k)
  <2>1. At(unit, tu, k) <= Len(s)
    BY <1>1
  <2> QED
    BY <1>2, <2>1, LoopReaches
<1>4. f[k].n = -1 \/ f[k].pos > N
  <2>1. f[k] = IF n <= MAX_OBUS_PER_TU THEN [pos |-> at + 1, n |-> n, elements |-> es] ELSE Malformed
    BY <1>3, Zenon DEF Reached
  <2> HIDE DEF n, es
  <2>2. CASE n <= MAX_OBUS_PER_TU
    <3>1. f[k].pos = at + 1
      BY <2>1, <2>2
    <3> QED
      BY <1>1, <3>1
  <2>3. CASE ~ (n <= MAX_OBUS_PER_TU)
    BY <2>1, <2>3 DEF Malformed
  <2> QED
    BY <2>2, <2>3
<1>5. k \in 0 .. N
  BY <1>1
<1>6. f[N] = f[k]
  BY <1>1, <1>2, <1>4, <1>5, LoopStays
<1> QED
  BY <1>2, <1>3, <1>6

(* One that ends in an OBU is refused, unless it ends in the payload of    *)
(* one without size.                                                       *)
LEMMA ParseCut ==
  ASSUME NEW unit, NEW tu, IsUnit(tu), NEW s, OfUnit(s, unit, tu), NEW k \in 1 .. Len(tu),
         NEW at, at = At(unit, tu, k - 1), NEW end, end = At(unit, tu, k),
         at < Len(s), Len(s) < end, ~ tu[k].size => at + Intro(tu[k]) > Len(s)
  PROVE  parse_obus(s) = Malformed
<1> DEFINE N == Len(s)
           es == ElementsOf(unit, tu, k - 1)
           n == Len(es)
           r == k - 1
<1>1. k \in 0 .. Len(tu) /\ r \in 0 .. Len(tu) /\ r + 1 = k /\ k \in Nat /\ r \in Nat
  BY DEF IsUnit
<1>2. N \in Nat /\ at \in Nat /\ end \in Nat /\ r <= at
  <2>1. N \in Nat
    BY DEF OfUnit, IsSeq
  <2>2. at \in Nat /\ r <= at
    <3> HIDE DEF N, es, n
    <3>1. at = At(unit, tu, r)
      OBVIOUS
    <3> HIDE DEF r
    <3> QED
      BY <1>1, <3>1, PlaceAtLeast
  <2>3. end \in Nat
    BY <1>1, PlaceAtLeast
  <2> QED
    BY <2>1, <2>2, <2>3
<1>3. PICK f : parse_obus(s) = f[N] /\ LoopOver(s, f)
  BY <1>2, ParseTable DEF LoopOver
<1>4. f[r] = Reached(unit, tu, r)
  <2>1. At(unit, tu, r) <= Len(s)
    BY <1>2
  <2> HIDE DEF r
  <2> QED
    BY <1>1, <1>3, <2>1, LoopReaches
<1>5. f[k] = Turned(s, f[r])
  <2>1. k \in 0 .. N /\ k # 0
    BY <1>1, <1>2
  <2> QED
    BY <1>3, <2>1 DEF LoopOver
<1>6. Turned(s, f[r]) = Malformed
  <2> DEFINE p == f[r]
  <2>1. p = IF n <= MAX_OBUS_PER_TU THEN [pos |-> at + 1, n |-> n, elements |-> es] ELSE Malformed
    BY <1>4, Zenon DEF Reached
  <2> HIDE DEF p
  <2>2. CASE ~ (n <= MAX_OBUS_PER_TU)
    <3>1. p = Malformed
      BY <2>1, <2>2
    <3> QED
      BY <3>1 DEF Turned, Malformed, p
  <2>3. CASE n <= MAX_OBUS_PER_TU
    <3>1. p.pos = at + 1 /\ p.n = n
      BY <2>1, <2>3
    <3>2. n \in Nat
      BY <1>1, ElementsGrow, Zenon
    <3>3. ~ (p.n = -1 \/ p.pos > Len(s))
      <4> HIDE DEF n
      <4> QED
        BY <1>2, <3>1, <3>2
    <3>4. Turned(s, p) = parse_obu(s, p)
      BY <3>3, Zenon DEF Turned
    <3>5. IsObu(tu[k]) /\ SizeFits(tu[k]) /\ Reads(s, at, EncodeObu(unit, k, tu[k]))
      <4>1. At(unit, tu, k - 1) < Len(s)
        BY <1>2
      <4> QED
        BY <4>1, UnitReads DEF IsUnit
    <3>6. at + Len(EncodeObu(unit, k, tu[k])) > Len(s)
      <4> DEFINE l == Len(EncodeObu(unit, k, tu[k]))
      <4>1. l = Len(EncodeObu(unit, k, tu[k]))
        OBVIOUS
      <4> HIDE DEF l
      <4>2. end = at + l
        BY <4>1, PlaceStep
      <4> QED
        BY <4>2 DEF l
    <3>6a. at + Len(EncodeObu(unit, k, tu[k])) < U64
      <4> DEFINE l == Len(EncodeObu(unit, k, tu[k]))
                 w == At(unit, tu, Len(tu))
                 d == Len(tu) - k
      <4>1. l = Len(EncodeObu(unit, k, tu[k])) /\ w = At(unit, tu, Len(tu)) /\ d = Len(tu) - k
        OBVIOUS
      <4>2. end + d <= w /\ d \in Nat
        <5>1. Len(tu) \in 0 .. Len(tu) /\ k <= Len(tu) /\ d \in Nat
          BY <1>1 DEF IsUnit
        <5> HIDE DEF d, l, w
        <5> QED
          BY <1>1, <4>1, <5>1, PlaceRises
      <4>3. w \in Nat /\ w < U64 /\ U64 \in Nat
        <5>1. Len(tu) \in 0 .. Len(tu)
          BY <1>1
        <5>2. w \in Nat
          BY <5>1, EncodedTypes, Zenon
        <5> QED
          BY <5>2, WidthAssumption DEF OfUnit
      <4> HIDE DEF l, w, d
      <4>4. end = at + l
        BY <4>1, PlaceStep
      <4>5. end < U64
        BY <1>2, <4>2, <4>3
      <4> QED
        BY <4>1, <4>4, <4>5
    <3>7. parse_obu(s, p) = Malformed
      <4> DEFINE obu == tu[k]
                 j == k
      <4>1. /\ IsObu(obu) /\ SizeFits(obu) /\ Reads(s, at, EncodeObu(unit, j, obu))
            /\ at + Len(EncodeObu(unit, j, obu)) > Len(s)
            /\ at + Len(EncodeObu(unit, j, obu)) < U64
            /\ ~ obu.size => at + Intro(obu) > Len(s)
            /\ p.pos = at + 1
        BY <3>1, <3>5, <3>6, <3>6a
      <4> HIDE DEF obu, j
      <4> QED
        BY <4>1, TurnCut
    <3> QED
      BY <3>4, <3>7 DEF p
  <2> QED
    BY <2>2, <2>3
<1>7. f[k] = Malformed
  BY <1>5, <1>6
<1>8. k \in 0 .. Len(s) /\ f[k].n = -1
  BY <1>1, <1>2, <1>7 DEF Malformed
<1>9. f[N] = f[k]
  BY <1>2, <1>3, <1>8, LoopStays
<1> QED
  BY <1>3, <1>7, <1>9

(* A place in a unit is an end of an OBU or within one. *)
LEMMA CutWhere ==
  ASSUME NEW unit, NEW tu, IsUnit(tu), NEW N \in Nat, N <= At(unit, tu, Len(tu))
  PROVE  \/ \E k \in 0 .. Len(tu) : At(unit, tu, k) = N
         \/ \E k \in 1 .. Len(tu) : At(unit, tu, k - 1) < N /\ N < At(unit, tu, k)
<1> DEFINE p(k) == At(unit, tu, k)
           M == Len(tu)
           S == {k \in Nat : k <= M => p(k) < N}
<1>1. M \in Nat /\ N <= p(M)
  BY DEF IsUnit
<1>2. p(0) = 0 /\ \A k \in 0 .. M : p(k) \in Nat
  BY EncodedTypes, Zenon
<1> HIDE DEF p, M
<1> SUFFICES ASSUME \A k \in 0 .. M : p(k) # N, \A k \in 1 .. M : ~ (p(k - 1) < N /\ N < p(k))
             PROVE  FALSE
  BY DEF p, M
<1>3. 0 \in S
  BY <1>1, <1>2
<1>4. ASSUME NEW k \in Nat, k \in S PROVE k + 1 \in S
  <2> SUFFICES ASSUME k + 1 <= M PROVE p(k + 1) < N
    OBVIOUS
  <2> DEFINE l == k + 1
  <2>1. l \in 1 .. M /\ l \in 0 .. M /\ l - 1 = k /\ k <= M
    BY <1>1
  <2> HIDE DEF l
  <2>2. p(k) < N /\ ~ (p(l - 1) < N /\ N < p(l)) /\ p(l) # N /\ p(l) \in Nat
    BY <1>2, <1>4, <2>1
  <2>3. p(l) < N
    BY <2>1, <2>2
  <2> QED
    BY <2>3 DEF l
<1>5. Nat \subseteq S
  <2> HIDE DEF S
  <2> QED
    BY <1>3, <1>4, SetInduction
<1>6. p(M) < N /\ p(M) \in Nat
  BY <1>1, <1>2, <1>5
<1> QED
  BY <1>1, <1>6

-----------------------------------------------------------------------------
(* A last OBU without size that lost the end of its payload. *)

(* The octets of an OBU without size. *)
Laid(unit, j, o, a, n, h) ==
  /\ a \in {1, 2} /\ Len(o) = a + n /\ o[1] = h
  /\ a = 2 => o[2] = ExtOctet(unit, j)
  /\ \A k \in 1 .. n : o[a + k] = PayloadOctet(unit, j, k)

(* ObuLayout in these terms. *)
LEMMA ObuLaid ==
  ASSUME NEW unit, NEW j, NEW obu, IsObu(obu), ~ obu.size
  PROVE  Laid(unit, j, EncodeObu(unit, j, obu), Intro(obu), obu.len, obu_header(unit, j, obu))
<1> DEFINE o == EncodeObu(unit, j, obu)
           a == Intro(obu)
           z == Len(SizeOctets(obu))
           n == obu.len
           h == obu_header(unit, j, obu)
<1>1. z = 0
  BY NoneIs, Zenon DEF SizeOctets
<1>2. /\ a \in {1, 2} /\ Len(o) = a + z + n /\ o[1] = h
      /\ a = 2 => o[2] = ExtOctet(unit, j)
      /\ \A k \in 1 .. n : o[a + z + k] = PayloadOctet(unit, j, k)
  BY ObuLayout
<1>3. n \in Nat
  BY DEF IsObu
<1> HIDE DEF o, a, z, n, h
<1>4. a + z = a /\ a + z + n = a + n
  BY <1>1, <1>2, <1>3
<1>5. Laid(unit, j, o, a, n, h)
  BY <1>2, <1>4 DEF Laid
<1> QED
  BY <1>5 DEF o, a, n, h

(* An OBU without size that lost the end of its payload begins as it did. *)
LEMMA ShorterObu ==
  ASSUME NEW unit, NEW j, NEW obu, IsObu(obu), ~ obu.size, NEW missing \in 0 .. obu.len,
         NEW ov, ov = [obu EXCEPT !.len = @ - missing],
         NEW l, l = Len(EncodeObu(unit, j, obu)), NEW m, m = Len(EncodeObu(unit, j, ov))
  PROVE  /\ IsObu(ov) /\ ~ ov.size /\ l \in Nat /\ m \in Nat /\ m = l - missing
         /\ l = Intro(obu) + obu.len /\ Intro(obu) \in {1, 2}
         /\ \A i \in 1 .. m : EncodeObu(unit, j, ov)[i] = EncodeObu(unit, j, obu)[i]
<1> DEFINE a == Intro(obu)
           n == obu.len
           q == n - missing
           o == EncodeObu(unit, j, obu)
           v == EncodeObu(unit, j, ov)
           h == obu_header(unit, j, obu)
<1>1. n \in Nat /\ q \in Nat /\ q <= n
  <2>1. n \in Nat
    BY DEF IsObu
  <2> HIDE DEF n
  <2>2. missing \in 0 .. n
    BY DEF n
  <2> QED
    BY <2>1, <2>2
<1>2. /\ IsObu(ov) /\ ov.type = obu.type /\ ov.ext = obu.ext /\ ov.size = obu.size
      /\ ov.len = q
  <2>1. ov = [obu EXCEPT !.len = q]
    OBVIOUS
  <2>2. q \in Nat
    BY <1>1
  <2> HIDE DEF q
  <2> QED
    BY <2>1, <2>2 DEF IsObu
<1>3. Intro(ov) = a /\ obu_header(unit, j, ov) = h
  <2>1. Intro(ov) = a
    BY <1>2, Zenon DEF Intro
  <2>2. obu_header(unit, j, ov) = h
    BY <1>2, Zenon DEF obu_header
  <2> QED
    BY <2>1, <2>2
<1>4. Laid(unit, j, o, a, n, h)
  BY ObuLaid
<1>5. Laid(unit, j, v, a, q, h)
  <2>1. IsObu(ov) /\ ~ ov.size /\ Intro(ov) = a /\ obu_header(unit, j, ov) = h /\ ov.len = q
    BY <1>2, <1>3, Zenon
  <2> HIDE DEF a, q, h
  <2>2. Laid(unit, j, EncodeObu(unit, j, ov), Intro(ov), ov.len, obu_header(unit, j, ov))
    BY <2>1, ObuLaid, Zenon
  <2> QED
    BY <2>1, <2>2
<1>6. l = Len(o) /\ m = Len(v)
  OBVIOUS
<1> HIDE DEF a, o, v, h, q
<1>7. l = a + n /\ m = a + q
  <2> HIDE DEF n
  <2> QED
    BY <1>1, <1>4, <1>5, <1>6 DEF Laid
<1>8. missing \in Nat /\ q = n - missing
  <2>1. missing \in 0 .. n
    OBVIOUS
  <2> HIDE DEF n
  <2> QED
    BY <1>1, <2>1 DEF q
<1> HIDE DEF n
<1>9. ASSUME NEW i \in 1 .. m PROVE v[i] = o[i]
  <2>1. CASE i = 1
    BY <1>4, <1>5, <2>1 DEF Laid
  <2>2. CASE i = 2 /\ a = 2
    BY <1>4, <1>5, <2>2 DEF Laid
  <2>3. CASE i > a
    <3> DEFINE k == i - a
    <3>1. k \in 1 .. q /\ k \in 1 .. n /\ a + k = i
      BY <1>1, <1>4, <1>7, <2>3 DEF Laid
    <3> HIDE DEF k
    <3> QED
      BY <1>4, <1>5, <3>1 DEF Laid
  <2> QED
    BY <1>1, <1>4, <1>7, <2>1, <2>2, <2>3 DEF Laid
<1>10. l \in Nat /\ m \in Nat /\ m = l - missing
  BY <1>1, <1>4, <1>7, <1>8 DEF Laid
<1> QED
  BY <1>2, <1>4, <1>7, <1>9, <1>10, Zenon DEF a, n, o, v, Laid

(* Units alike in all but the last OBU are encoded alike up to it. *)
LEMMA SameEncoded ==
  ASSUME NEW unit, NEW tu, IsUnit(tu), NEW tv, IsUnit(tv), Len(tv) = Len(tu),
         \A j \in 1 .. Len(tu) - 1 : tv[j] = tu[j]
  PROVE  \A k \in 0 .. Len(tu) : k < Len(tu) => Encoded(unit, tv)[k] = Encoded(unit, tu)[k]
<1> DEFINE M == Len(tu)
           enc == Encoded(unit, tu)
           env == Encoded(unit, tv)
           O(k) == EncodeObu(unit, k, tu[k])
           V(k) == EncodeObu(unit, k, tv[k])
           S == {k \in Nat : k < M => env[k] = enc[k]}
<1>1. M \in Nat
  BY DEF IsUnit
<1>2. \A k \in 0 .. M : enc[k] = IF k = 0 THEN << >> ELSE Cat(enc[k - 1], O(k))
  BY <1>1, EncodedIs
<1>3. \A k \in 0 .. M : env[k] = IF k = 0 THEN << >> ELSE Cat(env[k - 1], V(k))
  <2>1. Len(tv) \in Nat /\ M = Len(tv)
    BY <1>1
  <2> HIDE DEF M
  <2> QED
    BY <2>1, EncodedIs
<1>4. ASSUME NEW k \in 1 .. M - 1 PROVE V(k) = O(k)
  OBVIOUS
<1> HIDE DEF M, enc, env, O, V
<1>5. 0 \in S
  BY <1>1, <1>2, <1>3
<1>6. ASSUME NEW k \in Nat, k \in S PROVE k + 1 \in S
  <2> SUFFICES ASSUME k + 1 < M PROVE env[k + 1] = enc[k + 1]
    OBVIOUS
  <2> DEFINE l == k + 1
  <2>1. l \in 1 .. M - 1 /\ l \in 0 .. M /\ l # 0 /\ l - 1 = k /\ k < M
    BY <1>1
  <2>2. env[k] = enc[k]
    BY <1>6, <2>1
  <2> HIDE DEF l
  <2>3. enc[l] = Cat(enc[k], O(l)) /\ env[l] = Cat(env[k], V(l))
    BY <1>2, <1>3, <2>1
  <2>4. V(l) = O(l)
    BY <1>4, <2>1
  <2>5. env[l] = enc[l]
    BY <2>2, <2>3, <2>4
  <2> QED
    BY <2>5 DEF l
<1>7. Nat \subseteq S
  <2> HIDE DEF S
  <2> QED
    BY <1>5, <1>6, SetInduction
<1>8. ASSUME NEW k \in 0 .. M, k < M PROVE env[k] = enc[k]
  BY <1>7, <1>8
<1> QED
  BY <1>8 DEF M, enc, env

(* The unit tv is tu without the last octets of the last payload. *)
Shorter(tu, tv, M, missing) ==
  /\ IsUnit(tu) /\ IsSeq(tu) /\ M = Len(tu) /\ M # 0 /\ ~ tu[M].size
  /\ missing \in 0 .. tu[M].len
  /\ tv = [tu EXCEPT ![M].len = @ - missing]

(* Its octets are the first of those of tu. *)
SameBeginning(unit, tu, tv, M, missing, p, q) ==
  /\ IsUnit(tv) /\ Len(tv) = M /\ p \in Nat /\ q \in Nat /\ q = p - missing
  /\ \A i \in 1 .. q : Encode(unit, tv)[i] = Encode(unit, tu)[i]

(* So does a unit that ends with it. *)
LEMMA ShorterUnit ==
  ASSUME NEW unit, NEW tu, NEW tv, NEW M, NEW missing, Shorter(tu, tv, M, missing),
         NEW p, p = At(unit, tu, M), NEW q, q = At(unit, tv, M)
  PROVE  SameBeginning(unit, tu, tv, M, missing, p, q)
<1> DEFINE obu == tu[M]
           ov == [obu EXCEPT !.len = @ - missing]
           o == EncodeObu(unit, M, obu)
           v == EncodeObu(unit, M, ov)
           l == Len(o)
           m == Len(v)
           r == M - 1
           at == At(unit, tu, r)
           enc == Encoded(unit, tu)
           env == Encoded(unit, tv)
<1>1. IsUnit(tu) /\ M = Len(tu)
  BY DEF Shorter
<1>2. /\ M \in Nat /\ M \in 1 .. M /\ M \in 1 .. Len(tu) /\ M # 0 /\ IsObu(obu) /\ ~ obu.size
      /\ missing \in 0 .. obu.len
  <2>1. M \in Nat /\ M # 0 /\ M = Len(tu)
    BY DEF Shorter, IsUnit
  <2>2. M \in 1 .. M /\ M \in 1 .. Len(tu)
    BY <2>1
  <2> QED
    BY <2>1, <2>2 DEF Shorter, IsUnit
<1>3. tv = [tu EXCEPT ![M] = ov]
  BY DEF Shorter
<1>4. /\ IsObu(ov) /\ ~ ov.size /\ l \in Nat /\ m \in Nat /\ m = l - missing
      /\ \A i \in 1 .. m : v[i] = o[i]
  <2>1. IsObu(obu) /\ ~ obu.size /\ missing \in 0 .. obu.len
    BY <1>2, Zenon
  <2>2. ov = [obu EXCEPT !.len = @ - missing] /\ l = Len(EncodeObu(unit, M, obu))
        /\ m = Len(EncodeObu(unit, M, ov))
    OBVIOUS
  <2> HIDE DEF obu, ov, l, m
  <2> QED
    BY <2>1, <2>2, ShorterObu
<1> HIDE DEF ov
<1>5. Len(tv) = M /\ tv[M] = ov /\ \A j \in 1 .. M - 1 : tv[j] = tu[j]
  <2>1. DOMAIN tu = 1 .. M
    BY DEF IsSeq, Shorter
  <2>2. DOMAIN tv = 1 .. M
    BY <1>3, <2>1
  <2>3. Len(tv) = M
    BY <1>2, <2>2
  <2>4. tv[M] = ov
    BY <1>2, <1>3, <2>1
  <2>5. ASSUME NEW j \in 1 .. M - 1 PROVE tv[j] = tu[j]
    <3>1. j \in 1 .. M /\ j # M
      BY <1>2
    <3> QED
      BY <1>3, <2>1, <3>1
  <2> QED
    BY <2>3, <2>4, <2>5
<1>6. IsUnit(tv)
  <2>1. ASSUME NEW j \in 1 .. M
        PROVE  IsObu(tv[j]) /\ SizeFits(tv[j]) /\ (j < M => tv[j].size)
    <3>1. CASE j = M
      <4>1. SizeFits(ov)
        BY <1>4, Zenon DEF SizeFits
      <4>2. ~ (M < M)
        BY <1>2
      <4> QED
        BY <1>4, <1>5, <3>1, <4>1, <4>2, Zenon
    <3>2. CASE j # M
      <4>1. j \in 1 .. M - 1
        BY <1>2, <3>2
      <4>2. tv[j] = tu[j]
        BY <1>5, <4>1
      <4>3. IsObu(tu[j]) /\ SizeFits(tu[j]) /\ (j < M => tu[j].size)
        BY <1>1 DEF IsUnit
      <4> QED
        BY <4>2, <4>3, Zenon
    <3> QED
      BY <3>1, <3>2
  <2> QED
    BY <1>2, <1>5, <2>1, Zenon DEF IsUnit
<1>7. r \in 0 .. M /\ r < M
  BY <1>2
<1>8. env[r] = enc[r]
  <2>1. \A k \in 0 .. Len(tu) : k < Len(tu) => Encoded(unit, tv)[k] = Encoded(unit, tu)[k]
    <3>1. Len(tv) = Len(tu) /\ \A j \in 1 .. Len(tu) - 1 : tv[j] = tu[j]
      BY <1>1, <1>5
    <3> QED
      BY <1>1, <1>6, <3>1, SameEncoded
  <2> HIDE DEF r
  <2>2. r \in 0 .. Len(tu) /\ r < Len(tu)
    BY <1>1, <1>7
  <2> QED
    BY <2>1, <2>2
<1>9. At(unit, tv, r) = at
  BY <1>8 DEF At
<1>10. p = at + l /\ at \in Nat /\ p \in Nat
  <2>1. Spans(unit, tu, M, at, p, l)
    BY <1>1, <1>2, Zenon DEF Spans
  <2> HIDE DEF at, l, r, obu, o, ov, v, m, enc, env
  <2>2. p = at + l /\ at \in Nat /\ l \in Nat
    BY <2>1, SpansIs
  <2> QED
    BY <2>2
<1>11. q = at + m
  <2>1. M \in 1 .. Len(tv) /\ at = At(unit, tv, M - 1) /\ m = Len(EncodeObu(unit, M, tv[M]))
    BY <1>2, <1>5, <1>9
  <2> HIDE DEF at, l, r, obu, o, ov, v, m, enc, env
  <2>2. Spans(unit, tv, M, at, q, m)
    BY <1>6, <2>1, Zenon DEF Spans
  <2> QED
    BY <2>2, SpansIs
<1>12. /\ \A i \in 1 .. at : enc[M][i] = enc[r][i]
       /\ \A i \in 1 .. l : enc[M][at + i] = o[i]
  BY <1>1, <1>2, OctetStep
<1>13. /\ \A i \in 1 .. at : env[M][i] = env[r][i]
       /\ \A i \in 1 .. m : env[M][at + i] = v[i]
  <2> HIDE DEF obu, o, v, l, m, r, at, enc, env
  <2>1. M \in 1 .. Len(tv)
    BY <1>2, <1>5
  <2>2. /\ \A i \in 1 .. At(unit, tv, M - 1) : Encoded(unit, tv)[M][i] = Encoded(unit, tv)[M - 1][i]
        /\ \A i \in 1 .. Len(EncodeObu(unit, M, tv[M])) :
              Encoded(unit, tv)[M][At(unit, tv, M - 1) + i] = EncodeObu(unit, M, tv[M])[i]
    BY <1>6, <2>1, OctetStep
  <2>3. /\ env = Encoded(unit, tv) /\ r = M - 1 /\ at = At(unit, tv, r)
        /\ v = EncodeObu(unit, M, tv[M]) /\ m = Len(v)
    BY <1>5, <1>9 DEF env, r, v, m
  <2> QED
    BY <2>2, <2>3
<1>14. Encode(unit, tu) = enc[M] /\ Encode(unit, tv) = env[M]
  BY <1>1, <1>5 DEF Encode
<1>15. missing \in Nat
  <2>1. obu.len \in Nat /\ missing \in 0 .. obu.len
    BY <1>2 DEF IsObu
  <2> HIDE DEF obu
  <2> QED
    BY <2>1
<1> HIDE DEF obu, o, v, l, m, r, at, enc, env
<1>16. q \in Nat /\ q = p - missing
  BY <1>4, <1>10, <1>11, <1>15
<1>17. ASSUME NEW i \in 1 .. q PROVE env[M][i] = enc[M][i]
  <2>1. CASE i <= at
    <3>1. i \in 1 .. at
      BY <1>10, <2>1
    <3> QED
      BY <1>8, <1>12, <1>13, <3>1
  <2>2. CASE ~ (i <= at)
    <3> DEFINE k == i - at
    <3>1. k \in 1 .. m /\ k \in 1 .. l /\ at + k = i
      BY <1>4, <1>10, <1>11, <1>15, <2>2
    <3> HIDE DEF k
    <3>2. env[M][at + k] = v[k] /\ enc[M][at + k] = o[k] /\ v[k] = o[k]
      BY <1>4, <1>12, <1>13, <3>1
    <3> QED
      BY <3>1, <3>2
  <2> QED
    BY <2>1, <2>2
<1> QED
  BY <1>5, <1>6, <1>10, <1>14, <1>16, <1>17, Zenon DEF SameBeginning

-----------------------------------------------------------------------------
(* What is parsed of a stream cut anywhere. *)

(* What the parser answers when it makes these elements of a stream. *)
Answer(cut, es) ==
  IF Len(es) <= MAX_OBUS_PER_TU THEN [pos |-> cut + 1, n |-> Len(es), elements |-> es]
  ELSE Malformed

(* What is cut off an encoded unit is of that unit. *)
LEMMA StreamOf ==
  ASSUME NEW unit, NEW tu, IsUnit(tu), NEW cut \in Nat, cut <= Len(Encode(unit, tu)),
         Len(Encode(unit, tu)) < U64
  PROVE  OfUnit(Stream(unit, tu, cut), unit, tu) /\ Len(Stream(unit, tu, cut)) = cut
<1> DEFINE e == Encode(unit, tu)
           s == [k \in 1 .. cut |-> e[k]]
<1>1. Stream(unit, tu, cut) = s
  BY DEF Stream
<1>2. At(unit, tu, Len(tu)) = Len(e)
  BY DEF At, Encode
<1>3. cut <= Len(e) /\ Len(e) < U64
  OBVIOUS
<1> HIDE DEF e
<1>4. Len(s) = cut /\ IsSeq(s) /\ \A k \in 1 .. cut : s[k] = e[k]
  <2>1. Len(s) = cut
    OBVIOUS
  <2> QED
    BY <2>1 DEF IsSeq
<1> HIDE DEF s
<1> QED
  BY <1>1, <1>2, <1>4, <1>3, Zenon DEF OfUnit, e

(* What the loop has reached is an answer. *)
LEMMA AnswerIs ==
  ASSUME NEW unit, NEW tu, NEW k, NEW cut, cut = At(unit, tu, k)
  PROVE  Reached(unit, tu, k) = Answer(cut, ElementsOf(unit, tu, k))
BY Zenon DEF Reached, Answer

(* The answer to a stream that ends with an OBU. *)
LEMMA BoundaryAnswer ==
  ASSUME NEW unit, NEW tu, IsUnit(tu), NEW s, OfUnit(s, unit, tu), NEW cut, Len(s) = cut,
         NEW k \in 0 .. Len(tu), Len(Encoded(unit, tu)[k]) = cut
  PROVE  parse_obus(s) = Answer(cut, ElementsOf(unit, tu, k))
<1>1. cut = At(unit, tu, k)
  BY DEF At
<1>2. parse_obus(s) = Reached(unit, tu, k)
  BY <1>1, ParseBoundary
<1> QED
  BY <1>1, <1>2, AnswerIs

(* The answer to a stream that ends in a payload without size. *)
LEMMA ShortenedAnswer ==
  ASSUME NEW unit, NEW tu, NEW tv, NEW M, NEW missing, Shorter(tu, tv, M, missing),
         NEW s, OfUnit(s, unit, tu), NEW cut, Len(s) = cut,
         missing = Len(Encode(unit, tu)) - cut
  PROVE  parse_obus(s) = Answer(cut, ElementsOf(unit, tv, Len(tv)))
<1> DEFINE p == At(unit, tu, M)
           q == At(unit, tv, M)
<1>1. IsUnit(tu) /\ M = Len(tu)
  BY DEF Shorter
<1>2. p = Len(Encode(unit, tu)) /\ p \in Nat /\ M \in Nat
  <2>1. p = Len(Encode(unit, tu))
    BY <1>1 DEF At, Encode
  <2>2. M \in 0 .. Len(tu) /\ M \in Nat
    BY <1>1 DEF IsUnit
  <2>3. p \in Nat
    BY <1>1, <2>2, EncodedTypes, Zenon
  <2> QED
    BY <2>1, <2>2, <2>3
<1>3. cut \in Nat /\ cut <= p /\ IsSeq(s)
  BY <1>1 DEF OfUnit, IsSeq
<1>4. cut = p - missing
  <2>1. missing = p - cut
    BY <1>2
  <2> HIDE DEF p
  <2> QED
    BY <1>2, <1>3, <2>1
<1>5. /\ IsUnit(tv) /\ Len(tv) = M /\ q = p - missing
      /\ \A i \in 1 .. q : Encode(unit, tv)[i] = Encode(unit, tu)[i]
  <2>1. p = At(unit, tu, M) /\ q = At(unit, tv, M)
    OBVIOUS
  <2> HIDE DEF p, q
  <2>2. SameBeginning(unit, tu, tv, M, missing, p, q)
    BY <2>1, ShorterUnit
  <2> QED
    BY <2>2 DEF SameBeginning
<1>6. cut = q
  BY <1>4, <1>5
<1>7. OfUnit(s, unit, tv)
  <2>1. Len(s) <= At(unit, tv, Len(tv)) /\ At(unit, tv, Len(tv)) < U64
    <3>1. q <= q
      BY <1>3, <1>6
    <3>2. p < U64 /\ U64 \in Nat
      BY <1>1, WidthAssumption DEF OfUnit
    <3>3. q < U64
      <4> HIDE DEF p, q
      <4> QED
        BY <1>2, <1>3, <1>6, <3>2
    <3> QED
      BY <1>5, <1>6, <3>1, <3>3
  <2>2. \A i \in 1 .. Len(s) : s[i] = Encode(unit, tv)[i]
    <3>1. \A i \in 1 .. cut : s[i] = Encode(unit, tu)[i]
      BY DEF OfUnit
    <3> HIDE DEF p, q
    <3> QED
      BY <1>5, <1>6, <3>1
  <2> QED
    BY <1>3, <2>1, <2>2, Zenon DEF OfUnit
<1>8. M \in 0 .. Len(tv) /\ Len(Encoded(unit, tv)[M]) = cut
  <2>1. q = Len(Encoded(unit, tv)[M])
    BY DEF At
  <2> HIDE DEF q
  <2> QED
    BY <1>2, <1>5, <1>6, <2>1
<1>9. parse_obus(s) = Answer(cut, ElementsOf(unit, tv, M))
  <2> HIDE DEF p, q
  <2> QED
    BY <1>5, <1>7, <1>8, BoundaryAnswer
<1> QED
  BY <1>5, <1>9

(* ParsesBack of one unit. *)
Boundary(unit, u) == {k \in 0 .. Len(u.tu) : Len(Encoded(unit, u.tu)[k]) = u.cut}
Open(u) == u.tu # << >> /\ ~ u.tu[Len(u.tu)].size
Missing(unit, u) == Len(Encode(unit, u.tu)) - u.cut
Shortened(unit, u) ==
  IF Open(u) /\ Missing(unit, u) <= u.tu[Len(u.tu)].len
  THEN {[u.tu EXCEPT ![Len(u.tu)].len = @ - Missing(unit, u)]} ELSE {}
Readings(unit, u) ==
  {ElementsOf(unit, u.tu, k) : k \in Boundary(unit, u)}
    \cup {ElementsOf(unit, tu, Len(tu)) : tu \in Shortened(unit, u)}
ReadBack(unit, u) ==
  LET ok == {es \in Readings(unit, u) : Len(es) <= MAX_OBUS_PER_TU}
  IN  IF ok = {} THEN u.n = -1 ELSE u.n = Len(u.elements) /\ u.elements \in ok

(* ParsesBack says ReadBack of every unit. *)
LEMMA ReadBackAll ==
  ASSUME \A unit \in 1 .. Len(units) : ReadBack(unit, units[unit])
  PROVE  ParsesBack
BY Zenon DEF ParsesBack, ReadBack, Readings, Shortened, Missing, Open, Boundary

(* The parser made of the octets what a call recorded. *)
FromStream(unit, u) ==
  /\ IsUnit(u.tu) /\ IsSeq(u.tu) /\ u.cut \in Nat /\ u.cut <= Len(Encode(unit, u.tu))
  /\ Len(Encode(unit, u.tu)) < U64
  /\ u.n = parse_obus(Stream(unit, u.tu, u.cut)).n
  /\ u.elements = parse_obus(Stream(unit, u.tu, u.cut)).elements

(* The parser answers with each reading there is, which has whole elements. *)
LEMMA ReadingIs ==
  ASSUME NEW unit, NEW u, FromStream(unit, u), NEW es \in Readings(unit, u)
  PROVE  parse_obus(Stream(unit, u.tu, u.cut)) = Answer(u.cut, es) /\ NoneEmpty(es)
<1> DEFINE tu == u.tu
           cut == u.cut
           s == Stream(unit, tu, cut)
           M == Len(tu)
           missing == Missing(unit, u)
           tv == [tu EXCEPT ![M].len = @ - missing]
<1>1. /\ IsUnit(tu) /\ IsSeq(tu) /\ cut \in Nat /\ cut <= Len(Encode(unit, tu)) /\ M \in Nat
      /\ Len(Encode(unit, tu)) < U64
  BY DEF FromStream, IsUnit
<1>2. OfUnit(s, unit, tu) /\ Len(s) = cut
  <2> HIDE DEF tu, cut, M
  <2> QED
    BY <1>1, StreamOf
<1>3. CASE es \in {ElementsOf(unit, u.tu, k) : k \in Boundary(unit, u)}
  <2>1. PICK k \in Boundary(unit, u) : es = ElementsOf(unit, tu, k)
    BY <1>3
  <2>2. k \in 0 .. Len(tu) /\ Len(Encoded(unit, tu)[k]) = cut
    BY DEF Boundary
  <2> HIDE DEF tu, cut, M, s
  <2>3. parse_obus(s) = Answer(cut, ElementsOf(unit, tu, k))
    BY <1>1, <1>2, <2>2, BoundaryAnswer
  <2>4. NoneEmpty(ElementsOf(unit, tu, k))
    BY <1>1, <2>2, ElementsWhole
  <2> QED
    BY <2>1, <2>3, <2>4 DEF s, tu, cut
<1>4. CASE es \in {ElementsOf(unit, tw, Len(tw)) : tw \in Shortened(unit, u)}
  <2>1. PICK tw \in Shortened(unit, u) : es = ElementsOf(unit, tw, Len(tw))
    BY <1>4
  <2>2. tw = tv /\ tu # << >> /\ ~ tu[M].size /\ missing <= tu[M].len
    BY DEF Shortened, Open
  <2>3. missing = Len(Encode(unit, tu)) - cut
    BY DEF Missing
  <2>4. M # 0
    <3> HIDE DEF tu
    <3>1. M = 0 => tu = << >>
      BY <1>1, NoneIs, SameSeq
    <3> QED
      BY <2>2, <3>1
  <2>5. missing \in 0 .. tu[M].len
    <3>1. Len(Encode(unit, tu)) \in Nat
      <4>1. M \in 0 .. Len(tu)
        BY <1>1
      <4>2. At(unit, tu, M) \in Nat
        <5> HIDE DEF tu, M
        <5> QED
          BY <1>1, <4>1, EncodedTypes, Zenon
      <4> QED
        BY <4>2 DEF At, Encode
    <3>2. tu[M].len \in Nat
      <4>1. M \in 1 .. Len(tu)
        BY <1>1, <2>4
      <4> QED
        BY <1>1, <4>1 DEF IsUnit, IsObu
    <3> HIDE DEF tu, cut, M, missing
    <3> QED
      BY <1>1, <2>2, <2>3, <3>1, <3>2
  <2>6. Shorter(tu, tv, M, missing)
    BY <1>1, <2>2, <2>4, <2>5 DEF Shorter
  <2>7. parse_obus(s) = Answer(cut, ElementsOf(unit, tv, Len(tv)))
    <3> HIDE DEF tu, cut, M, s, tv, missing
    <3> QED
      BY <1>2, <2>3, <2>6, ShortenedAnswer
  <2>8. NoneEmpty(ElementsOf(unit, tv, Len(tv)))
    <3> DEFINE p == At(unit, tu, M)
               q == At(unit, tv, M)
    <3>1. p = At(unit, tu, M) /\ q = At(unit, tv, M)
      OBVIOUS
    <3> HIDE DEF tu, M, tv, missing, p, q
    <3>2. SameBeginning(unit, tu, tv, M, missing, p, q)
      BY <2>6, <3>1, ShorterUnit
    <3>3. IsUnit(tv) /\ Len(tv) \in 0 .. Len(tv)
      BY <1>1, <3>2 DEF SameBeginning, IsUnit
    <3> QED
      BY <3>3, ElementsWhole
  <2> QED
    BY <2>1, <2>2, <2>7, <2>8
<1> QED
  BY <1>3, <1>4 DEF Readings

(* Without a reading it refuses. *)
LEMMA NoReading ==
  ASSUME NEW unit, NEW u, FromStream(unit, u), Readings(unit, u) = {}
  PROVE  parse_obus(Stream(unit, u.tu, u.cut)) = Malformed
<1> DEFINE tu == u.tu
           cut == u.cut
           s == Stream(unit, tu, cut)
           M == Len(tu)
           E == Len(Encode(unit, tu))
<1>1. IsUnit(tu) /\ IsSeq(tu) /\ cut \in Nat /\ cut <= E /\ M \in Nat /\ E < U64
  BY DEF FromStream, IsUnit
<1>2. OfUnit(s, unit, tu) /\ Len(s) = cut
  <2>1. cut <= Len(Encode(unit, tu)) /\ Len(Encode(unit, tu)) < U64
    BY <1>1
  <2> HIDE DEF tu, cut, M, E
  <2> QED
    BY <1>1, <2>1, StreamOf
<1>3. /\ \A k \in 0 .. M : Len(Encoded(unit, tu)[k]) # cut
      /\ Shortened(unit, u) = {}
  <2>1. Boundary(unit, u) = {} /\ Shortened(unit, u) = {}
    BY DEF Readings
  <2> QED
    BY <2>1 DEF Boundary
<1>4. E = At(unit, tu, M)
  BY DEF At, Encode
<1>5. PICK k \in 1 .. M : At(unit, tu, k - 1) < cut /\ cut < At(unit, tu, k)
  <2>1. cut <= At(unit, tu, Len(tu))
    BY <1>1, <1>4
  <2>2. \/ \E k \in 0 .. M : At(unit, tu, k) = cut
        \/ \E k \in 1 .. M : At(unit, tu, k - 1) < cut /\ cut < At(unit, tu, k)
    <3> HIDE DEF tu, cut, E
    <3> QED
      BY <1>1, <2>1, CutWhere
  <2>3. \A k \in 0 .. M : At(unit, tu, k) # cut
    BY <1>3 DEF At
  <2> QED
    BY <2>2, <2>3
<1> DEFINE at == At(unit, tu, k - 1)
           end == At(unit, tu, k)
           obu == tu[k]
           o == EncodeObu(unit, k, obu)
           l == Len(o)
           a == Intro(obu)
           n == obu.len
<1>6. end = at + l /\ at \in Nat /\ l \in Nat
  <2>1. at = At(unit, tu, k - 1) /\ end = At(unit, tu, k) /\ l = Len(EncodeObu(unit, k, tu[k]))
        /\ k \in 1 .. Len(tu) /\ IsUnit(tu)
    BY <1>1
  <2> HIDE DEF at, end, l, o, obu, a, n, tu, cut, M, E
  <2> QED
    BY <2>1, PlaceStep
<1>7. ~ tu[k].size => at + a > cut
  <2> SUFFICES ASSUME ~ obu.size PROVE at + a > cut
    OBVIOUS
  <2>1. IsObu(obu) /\ (k < M => obu.size)
    BY <1>1 DEF IsUnit
  <2>2. k = M
    <3>1. ~ (k < M)
      BY <2>1, Zenon
    <3> HIDE DEF M
    <3> QED
      BY <1>1, <3>1
  <2>3. l = a + n /\ a \in {1, 2} /\ n \in Nat
    <3>1. Laid(unit, k, o, a, n, obu_header(unit, k, obu))
      <4> HIDE DEF obu
      <4> QED
        BY <2>1, ObuLaid
    <3>2. n \in Nat
      BY <2>1 DEF IsObu
    <3> HIDE DEF o, a, n
    <3> QED
      BY <3>1, <3>2 DEF Laid
  <2>4. E - cut > n
    <3>1. tu # << >>
      <4>1. M # 0
        BY <1>1
      <4>2. Len(<< >>) = 0
        BY NoneIs
      <4> QED
        BY <4>1, <4>2
    <3>2. Open(u)
      BY <2>2, <3>1 DEF Open
    <3>3. ~ (Missing(unit, u) <= u.tu[Len(u.tu)].len)
      BY <1>3, <3>2 DEF Shortened
    <3>4. Missing(unit, u) = E - cut /\ u.tu[Len(u.tu)].len = n
      BY <2>2 DEF Missing
    <3>5. ~ (E - cut <= n)
      BY <3>3, <3>4
    <3>6. E = end
      BY <1>4, <2>2
    <3> HIDE DEF E, cut, n, at, end, l
    <3> QED
      BY <1>1, <1>6, <2>3, <3>5, <3>6
  <2>5. E = end
    BY <1>4, <2>2
  <2> HIDE DEF E, cut, n, at, end, l, a
  <2> QED
    BY <1>1, <1>6, <2>3, <2>4, <2>5
<1>8. at < Len(s) /\ Len(s) < end
  BY <1>2, <1>5
<1>9. parse_obus(s) = Malformed
  <2>1. k \in 1 .. Len(tu) /\ (~ tu[k].size => at + Intro(tu[k]) > Len(s))
    BY <1>2, <1>7
  <2>2. at = At(unit, tu, k - 1) /\ end = At(unit, tu, k)
    OBVIOUS
  <2> HIDE DEF at, end, l, o, obu, a, n, tu, cut, M, E, s
  <2> QED
    BY <1>1, <1>2, <1>8, <2>1, <2>2, ParseCut
<1> QED
  BY <1>9

(* So what was parsed is read back. *)
LEMMA ReadBackIs ==
  ASSUME NEW unit, NEW u, FromStream(unit, u)
  PROVE  ReadBack(unit, u)
<1> DEFINE p == parse_obus(Stream(unit, u.tu, u.cut))
           R == Readings(unit, u)
           ok == {es \in R : Len(es) <= MAX_OBUS_PER_TU}
<1>1. u.n = p.n /\ u.elements = p.elements
  BY DEF FromStream
<1>2. \A es \in R : p = Answer(u.cut, es)
  BY ReadingIs
<1>3. R = {} => p = Malformed
  BY NoReading
<1> HIDE DEF p, R
<1>4. CASE ok = {}
  <2>1. p = Malformed
    <3>1. CASE R = {}
      BY <1>3, <3>1
    <3>2. CASE R # {}
      <4>1. PICK es \in R : ~ (Len(es) <= MAX_OBUS_PER_TU)
        BY <1>4, <3>2
      <4> QED
        BY <1>2, <4>1 DEF Answer
    <3> QED
      BY <3>1, <3>2
  <2>2. u.n = -1
    BY <1>1, <2>1 DEF Malformed
  <2> QED
    BY <1>4, <2>2 DEF ReadBack, R
<1>5. CASE ok # {}
  <2>1. PICK es \in R : Len(es) <= MAX_OBUS_PER_TU
    BY <1>5
  <2>2. p = Answer(u.cut, es)
    BY <1>2
  <2>3. p.n = Len(es) /\ p.elements = es
    BY <2>1, <2>2 DEF Answer
  <2>4. u.n = Len(u.elements) /\ u.elements \in ok
    BY <1>1, <2>1, <2>3
  <2> QED
    BY <1>5, <2>4 DEF ReadBack, R
<1> QED
  BY <1>4, <1>5

-----------------------------------------------------------------------------
(* The units a caller passes. *)

(* What a caller passes is such a unit. *)
LEMMA CallersUnit ==
  ASSUME NEW tu \in TemporalUnits, NEW unit \in 1 .. MaxUnits
  PROVE  IsUnit(tu) /\ IsSeq(tu) /\ Len(Encode(unit, tu)) < U64
<1> DEFINE O == [type : 0 .. 15, ext : BOOLEAN, size : BOOLEAN, len : Nat]
<1>1. tu \in Seq(O) /\ \A j \in 1 .. Len(tu) - 1 : tu[j].size
  BY Av1Assumption
<1>2. Len(tu) \in Nat /\ IsSeq(tu)
  BY <1>1, LenProperties, IsSeqOf
<1>3. ASSUME NEW j \in 1 .. Len(tu)
      PROVE  IsObu(tu[j]) /\ SizeFits(tu[j]) /\ (j < Len(tu) => tu[j].size)
  <2>1. IsObu(tu[j])
    <3> HIDE DEF O
    <3>1. tu[j] \in O
      BY <1>1, ElementOfSeq
    <3> QED
      BY <3>1, Zenon DEF O, IsObu
  <2>2. SizeFits(tu[j])
    BY SizesFit DEF SizeFits
  <2>3. j < Len(tu) => j \in 1 .. Len(tu) - 1
    BY <1>2
  <2> QED
    BY <1>1, <2>1, <2>2, <2>3, Zenon
<1>4. Len(Encode(unit, tu)) < U64
  BY UnitsFit
<1> QED
  BY <1>2, <1>3, <1>4, Zenon DEF IsUnit

(* What a call records comes from a stream. *)
LEMMA CallRecords ==
  ASSUME NEW ts, NEW tu \in TemporalUnits, NEW cut \in Nat, NEW is_new_cvs,
         Len(units) \in Nat, Call(ts, tu, cut, is_new_cvs)
  PROVE  LET unit == Len(units) + 1
             parsed == parse_obus(Stream(unit, tu, cut))
         IN  FromStream(unit, [tu |-> tu, cut |-> cut, cvs |-> is_new_cvs,
                               n |-> parsed.n, elements |-> parsed.elements])
<1> DEFINE unit == Len(units) + 1
<1>1. unit \in 1 .. MaxUnits /\ cut <= Len(Encode(unit, tu))
  <2>1. Len(units) < MaxUnits /\ cut <= Len(Encode(unit, tu))
    BY DEF Call
  <2>2. MaxUnits \in Nat
    BY Av1Assumption
  <2> QED
    BY <2>1, <2>2
<1> HIDE DEF unit
<1>2. IsUnit(tu) /\ IsSeq(tu) /\ Len(Encode(unit, tu)) < U64
  BY <1>1, CallersUnit
<1> DEFINE parsed == parse_obus(Stream(unit, tu, cut))
           u == [tu |-> tu, cut |-> cut, cvs |-> is_new_cvs,
                 n |-> parsed.n, elements |-> parsed.elements]
<1>3. /\ u.tu = tu /\ u.cut = cut /\ u.n = parse_obus(Stream(unit, tu, cut)).n
      /\ u.elements = parse_obus(Stream(unit, tu, cut)).elements
  OBVIOUS
<1> HIDE DEF u
<1>4. FromStream(unit, u)
  BY <1>1, <1>2, <1>3 DEF FromStream
<1> QED
  BY <1>4 DEF u, unit

-----------------------------------------------------------------------------
(* The sender. *)

Sending == call.stage = "send"
Unit == units[Len(units)]
Element == Unit.elements[call.i]

(* What was parsed of a unit. *)
UnitOK(u) ==
  /\ u.cvs \in BOOLEAN
  /\ u.n \in Int
  /\ u.n >= 0 => Len(u.elements) = u.n
  /\ \A k \in 1 .. u.n : IsSeq(u.elements[k]) /\ Len(u.elements[k]) # 0

UnitsOK == IsSeq(units) /\ \A k \in 1 .. Len(units) : UnitOK(units[k])

(* The call is at an octet of an element of the last unit. *)
CallOK ==
  /\ call.stage \in {"idle", "send", "return"}
  /\ Sending => /\ call \in [stage : {"send"}, ts : Timestamps, i : Nat, sent : Nat]
                /\ Len(units) # 0
                /\ call.i \in 1 .. Unit.n
                /\ call.sent < Len(Element)

(* A packet carries octets of the element it is said to be from. *)
ChunkOK(p) ==
  /\ p.unit \in 1 .. Len(units)
  /\ p.element \in 1 .. units[p.unit].n
  /\ p.off \in Nat
  /\ p.len \in Nat \ {0}
  /\ p.off + p.len <= Len(units[p.unit].elements[p.element])
  /\ \A o \in p.off + 1 .. p.off + p.len : Carries(p, p.unit, p.element, o)

WireOK(w) == IsSeq(w) /\ \A j \in 1 .. Len(w) : ChunkOK(w[j].payload)

SenderTypeOK ==
  /\ seq_num \in 0 .. U16 - 1
  /\ UnitsOK
  /\ CallOK
  /\ WireOK(wire)

(* The packets of the unit that is being sent end before a place in it.    *)
NoneAhead(w, i, sent) ==
  \A j \in 1 .. Len(w) :
    LET p == w[j].payload
    IN  p.unit = Len(units) =>
          p.element < i \/ (p.element = i /\ p.off + p.len <= sent)

(* Every octet before the place has been sent. *)
AllBehind(w, i, sent) ==
  \A e \in 1 .. i : \A o \in 1 .. (IF e < i THEN Len(Unit.elements[e]) ELSE sent) :
    \E j \in 1 .. Len(w) : Carries(w[j].payload, Len(units), e, o)

(* MarkerMeansWholeUnit and NewSequenceIsFirst of one packet. *)
MarkedRight(w, i) ==
  LET unit == w[i].payload.unit
      elements == units[unit].elements
  IN  w[i].marker <=>
        \A e \in 1 .. Len(elements) : \A o \in 1 .. Len(elements[e]) :
          \E j \in 1 .. i : Carries(w[j].payload, unit, e, o)

(* The packets 1 .. i of w carry every octet of the elements es of unit x. *)
HaveAll(w, i, x, es) ==
  \A e \in 1 .. Len(es) : \A o \in 1 .. Len(es[e]) : \E j \in 1 .. i :
    LET p == w[j].payload
    IN  /\ p.unit = x
        /\ p.element = e
        /\ o \in p.off + 1 .. p.off + p.len
        /\ p.data[o - p.off] = es[e][o]

FirstRight(w, i) ==
  LET p == w[i].payload
  IN  p.n <=> units[p.unit].cvs /\ \A j \in 1 .. i - 1 : w[j].payload.unit # p.unit

(* They stay true when nothing of the packet's unit changes. *)
LEMMA MarkedStays ==
  ASSUME NEW w, NEW k, MarkedRight(w, k), wire' = w,
         units'[w[k].payload.unit] = units[w[k].payload.unit]
  PROVE  MarkedRight(wire, k)'
<1> DEFINE x == w[k].payload.unit
           es == units[x].elements
<1>1. MarkedRight(w, k) <=> (w[k].marker <=> HaveAll(w, k, x, es))
  BY DEF MarkedRight, Carries, HaveAll
<1>2. MarkedRight(wire, k)' <=> (w[k].marker <=> HaveAll(w, k, x, units'[x].elements))
  BY DEF MarkedRight, Carries, HaveAll
<1>3. units'[x].elements = es
  OBVIOUS
<1> HIDE DEF x, es
<1> QED
  BY <1>1, <1>2, <1>3

LEMMA FirstStays ==
  ASSUME NEW w, NEW k, FirstRight(w, k), wire' = w,
         units'[w[k].payload.unit] = units[w[k].payload.unit]
  PROVE  FirstRight(wire, k)'
BY DEF FirstRight

SenderInv ==
  /\ SenderTypeOK
  /\ Sending => NoneAhead(wire, call.i, call.sent) /\ AllBehind(wire, call.i, call.sent)
  /\ \A i \in 1 .. Len(wire) : MarkedRight(wire, i) /\ FirstRight(wire, i)

(* What a call records is a unit the loop can send. *)
LEMMA ParsedUnit ==
  ASSUME NEW unit, NEW u, FromStream(unit, u), u.cvs \in BOOLEAN
  PROVE  UnitOK(u)
<1> DEFINE R == Readings(unit, u)
           ok == {es \in R : Len(es) <= MAX_OBUS_PER_TU}
<1>1. IF ok = {} THEN u.n = -1 ELSE u.n = Len(u.elements) /\ u.elements \in ok
  BY ReadBackIs DEF ReadBack
<1>2. \A es \in R : NoneEmpty(es)
  BY ReadingIs
<1> HIDE DEF R
<1>3. CASE ok = {}
  <2>1. u.n = -1
    BY <1>1, <1>3
  <2> QED
    BY <2>1 DEF UnitOK
<1>4. CASE ok # {}
  <2>1. u.n = Len(u.elements) /\ NoneEmpty(u.elements)
    BY <1>1, <1>2, <1>4
  <2>2. Len(u.elements) \in Nat
    BY <2>1 DEF NoneEmpty, IsSeq
  <2> QED
    BY <2>1, <2>2 DEF UnitOK, NoneEmpty
<1> QED
  BY <1>3, <1>4

(* A packet with the next octets of the unit. *)
Following(p, i, sent, chunk) ==
  /\ p.unit = Len(units) /\ p.element = i /\ p.off = sent /\ p.len = chunk
  /\ chunk \in Nat \ {0}
  /\ sent + chunk <= Len(Unit.elements[i])
  /\ \A o \in sent + 1 .. sent + chunk : Carries(p, Len(units), i, o)

LEMMA WireTypes ==
  ASSUME UnitsOK, NEW w, WireOK(w), NEW j \in 1 .. Len(w)
  PROVE  /\ w[j].payload.element \in Int
         /\ w[j].payload.off \in Nat
         /\ w[j].payload.off + w[j].payload.len \in Nat
<1> DEFINE p == w[j].payload
<1>1. ChunkOK(p)
  BY DEF WireOK
<1> HIDE DEF p
<1>2. p.element \in 1 .. units[p.unit].n /\ units[p.unit].n \in Int
  BY <1>1 DEF ChunkOK, UnitsOK, UnitOK
<1>3. p.element \in Int /\ p.off \in Nat /\ p.off + p.len \in Nat
  BY <1>1, <1>2 DEF ChunkOK
<1> QED
  BY <1>3 DEF p

(* It moves the place on. *)
LEMMA PlaceMoves ==
  ASSUME UnitsOK, Len(units) # 0, NEW i \in 1 .. Unit.n, NEW sent \in Nat,
         NEW chunk, NEW p, Following(p, i, sent, chunk), NEW w, WireOK(w),
         NEW pkt, pkt.payload = p, NoneAhead(w, i, sent), AllBehind(w, i, sent)
  PROVE  LET v == Append(w, pkt)
         IN  /\ NoneAhead(v, i, sent + chunk)
             /\ AllBehind(v, i, sent + chunk)
             /\ sent + chunk = Len(Unit.elements[i]) => NoneAhead(v, i + 1, 0) /\ AllBehind(v, i + 1, 0)
<1> DEFINE v == Append(w, pkt)
           to == sent + chunk
<1>1. /\ Len(w) \in Nat /\ Len(v) = Len(w) + 1
      /\ \A k \in 1 .. Len(w) : v[k] = w[k]
      /\ v[Len(w) + 1] = pkt
  BY AppendIs DEF WireOK
<1> HIDE DEF v
<1>0. ASSUME NEW j \in 1 .. Len(w)
      PROVE  w[j].payload.element \in Int /\ w[j].payload.off + w[j].payload.len \in Nat
  BY WireTypes
<1>2. /\ to \in Nat /\ sent <= to /\ i \in Nat \ {0} /\ p.element = i /\ p.off + p.len = to
      /\ \A o \in sent + 1 .. to : Carries(p, Len(units), i, o)
  <2>1. Unit.n \in Int
    BY DEF UnitsOK, UnitOK, IsSeq, Unit
  <2> QED
    BY <2>1 DEF Following
<1> HIDE DEF to
<1>3. NoneAhead(v, i, to)
  <2> SUFFICES ASSUME NEW j \in 1 .. Len(v), v[j].payload.unit = Len(units)
               PROVE  \/ v[j].payload.element < i
                      \/ v[j].payload.element = i /\ v[j].payload.off + v[j].payload.len <= to
    BY DEF NoneAhead
  <2>1. CASE j \in 1 .. Len(w)
    <3>1. \/ v[j].payload.element < i
          \/ v[j].payload.element = i /\ v[j].payload.off + v[j].payload.len <= sent
      BY <1>1, <2>1 DEF NoneAhead
    <3>2. v[j].payload.off + v[j].payload.len \in Nat
      BY <1>0, <1>1, <2>1
    <3> QED
      BY <1>2, <3>1, <3>2
  <2>2. CASE j = Len(w) + 1
    BY <1>1, <1>2, <2>2
  <2> QED
    BY <1>1, <2>1, <2>2
<1>4. AllBehind(v, i, to)
  <2> SUFFICES ASSUME NEW e \in 1 .. i,
                      NEW o \in 1 .. (IF e < i THEN Len(Unit.elements[e]) ELSE to)
               PROVE  \E j \in 1 .. Len(v) : Carries(v[j].payload, Len(units), e, o)
    BY DEF AllBehind
  <2>1. CASE o \in 1 .. (IF e < i THEN Len(Unit.elements[e]) ELSE sent)
    <3>1. PICK j \in 1 .. Len(w) : Carries(w[j].payload, Len(units), e, o)
      BY <2>1 DEF AllBehind
    <3> QED
      BY <1>1, <3>1
  <2>2. CASE o \notin 1 .. (IF e < i THEN Len(Unit.elements[e]) ELSE sent)
    <3>1. e = i /\ o \in sent + 1 .. to
      BY <1>2, <2>2
    <3>2. Len(w) + 1 \in 1 .. Len(v)
      BY <1>1
    <3> QED
      BY <1>1, <1>2, <3>1, <3>2
  <2> QED
    BY <2>1, <2>2
<1>5. ASSUME to = Len(Unit.elements[i])
      PROVE  NoneAhead(v, i + 1, 0) /\ AllBehind(v, i + 1, 0)
  <2>1. NoneAhead(v, i + 1, 0)
    <3> SUFFICES ASSUME NEW j \in 1 .. Len(v), v[j].payload.unit = Len(units)
                 PROVE  v[j].payload.element < i + 1
      BY DEF NoneAhead
    <3>1. v[j].payload.element < i \/ v[j].payload.element = i
      BY <1>3 DEF NoneAhead
    <3>2. v[j].payload.element \in Int
      BY <1>0, <1>1, <1>2
    <3> QED
      BY <1>2, <3>1, <3>2
  <2>2. ASSUME NEW e \in 1 .. i + 1,
               NEW o \in 1 .. (IF e < i + 1 THEN Len(Unit.elements[e]) ELSE 0)
        PROVE  \E j \in 1 .. Len(v) : Carries(v[j].payload, Len(units), e, o)
    <3>1. e \in 1 .. i /\ o \in 1 .. (IF e < i THEN Len(Unit.elements[e]) ELSE to)
      BY <1>2, <1>5
    <3> QED
      BY <1>4, <3>1 DEF AllBehind
  <2> QED
    BY <2>1, <2>2 DEF AllBehind
<1> QED
  BY <1>3, <1>4, <1>5 DEF v, to

(* The packet is marked exactly if the place it moves to is the end of the *)
(* unit, and is the first of the unit exactly if it was at its beginning.  *)
LEMMA PacketRight ==
  ASSUME UnitsOK, Len(units) # 0, NEW i \in 1 .. Unit.n, NEW sent \in Nat,
         NEW chunk, NEW p, Following(p, i, sent, chunk), NEW w, WireOK(w),
         NEW pkt, pkt.payload = p, NoneAhead(w, i, sent), AllBehind(w, i, sent),
         pkt.marker <=> i = Unit.n /\ sent + chunk = Len(Unit.elements[i]),
         p.n <=> sent = 0 /\ i = 1 /\ Unit.cvs
  PROVE  LET v == Append(w, pkt)
         IN  MarkedRight(v, Len(w) + 1) /\ FirstRight(v, Len(w) + 1)
<1> DEFINE v == Append(w, pkt)
           to == sent + chunk
           last == Len(w) + 1
           es == Unit.elements
           n == Unit.n
<1>1. /\ Len(w) \in Nat /\ Len(v) = Len(w) + 1
      /\ \A k \in 1 .. Len(w) : v[k] = w[k]
      /\ v[Len(w) + 1] = pkt
  BY AppendIs DEF WireOK
<1>2. NoneAhead(v, i, to) /\ AllBehind(v, i, to)
  BY PlaceMoves
<1> HIDE DEF v
<1>3. /\ UnitOK(Unit) /\ Len(units) \in Nat \ {0}
  BY DEF UnitsOK, IsSeq, Unit
<1>4. /\ n \in Nat \ {0} /\ i \in 1 .. n /\ Len(es) = n
      /\ \A k \in 1 .. n : Len(es[k]) \in Nat \ {0}
  <2>1. n \in Int /\ i \in 1 .. n /\ (n >= 0 => Len(es) = n)
    BY <1>3 DEF UnitOK
  <2>2. \A k \in 1 .. n : Len(es[k]) \in Nat /\ Len(es[k]) # 0
    BY <1>3 DEF UnitOK, IsSeq
  <2> HIDE DEF es, n
  <2> QED
    BY <2>1, <2>2
<1>5. /\ p.unit = Len(units) /\ p.element = i /\ p.off = sent /\ p.len = chunk
      /\ to \in Nat \ {0} /\ sent <= to /\ to <= Len(es[i])
      /\ v[last] = pkt /\ v[last].payload = p
  BY <1>1 DEF Following
<1>6. units[p.unit] = Unit
  BY <1>5 DEF Unit
<1> DEFINE Covered == \A e \in 1 .. Len(es) : \A o \in 1 .. Len(es[e]) :
                        \E j \in 1 .. last : Carries(v[j].payload, Len(units), e, o)
<1> HIDE DEF es, n, to
<1>7. ASSUME i = n, to = Len(es[i]) PROVE Covered
  <2> SUFFICES ASSUME NEW e \in 1 .. Len(es), NEW o \in 1 .. Len(es[e])
               PROVE  \E j \in 1 .. last : Carries(v[j].payload, Len(units), e, o)
    OBVIOUS
  <2>1. e \in 1 .. i /\ o \in 1 .. (IF e < i THEN Len(es[e]) ELSE to)
    BY <1>4, <1>7
  <2> QED
    BY <1>1, <1>2, <2>1 DEF AllBehind, es
<1>8. ASSUME Covered PROVE i = n /\ to = Len(es[i])
  <2>1. n \in 1 .. Len(es) /\ Len(es[n]) \in 1 .. Len(es[n])
    BY <1>4
  <2>2. PICK j \in 1 .. last : Carries(v[j].payload, Len(units), n, Len(es[n]))
    BY <1>8, <2>1
  <2> DEFINE q == v[j].payload
  <2>3. /\ q.unit = Len(units) /\ q.element = n
        /\ Len(es[n]) \in q.off + 1 .. q.off + q.len
    BY <2>2 DEF Carries
  <2>4. q.element < i \/ (q.element = i /\ q.off + q.len <= to)
    BY <1>1, <1>2, <2>3 DEF NoneAhead
  <2>5. q.off + q.len \in Nat
    <3>1. CASE j \in 1 .. Len(w)
      BY <1>1, <3>1, WireTypes
    <3>2. CASE j = last
      <4>1. q = p
        BY <1>5, <3>2
      <4>2. q.off + q.len = to
        BY <1>5, <4>1 DEF to
      <4> QED
        BY <1>5, <4>2
    <3> QED
      BY <1>1, <3>1, <3>2
  <2> HIDE DEF q
  <2>6. i = n
    BY <1>4, <2>3, <2>4
  <2>7. Len(es[n]) <= to
    BY <1>4, <1>5, <2>1, <2>3, <2>4, <2>5, <2>6
  <2> QED
    BY <1>4, <1>5, <2>6, <2>7
<1>9. MarkedRight(v, last)
  <2>1. pkt.marker <=> Covered
    BY <1>7, <1>8 DEF n, to, es
  <2> QED
    BY SMTT(30), <1>5, <1>6, <2>1 DEF MarkedRight, es
<1> HIDE DEF Covered
<1>10. FirstRight(v, last)
  <2>1. ASSUME sent = 0, i = 1, NEW j \in 1 .. Len(w) PROVE w[j].payload.unit # Len(units)
    <3> SUFFICES ASSUME w[j].payload.unit = Len(units) PROVE FALSE
      OBVIOUS
    <3> DEFINE q == w[j].payload
    <3>1. q.element < 1 \/ (q.element = 1 /\ q.off + q.len <= 0)
      BY <2>1 DEF NoneAhead
    <3>2. ChunkOK(q)
      BY DEF WireOK
    <3> HIDE DEF q
    <3>3. q.element \in 1 .. units[q.unit].n /\ units[q.unit].n \in Int
      BY <3>2 DEF ChunkOK, UnitsOK, UnitOK
    <3>4. q.off \in Nat /\ q.len \in Nat \ {0}
      BY <3>2 DEF ChunkOK
    <3> QED
      BY <3>1, <3>3, <3>4
  <2>2. ASSUME ~ (sent = 0 /\ i = 1) PROVE \E j \in 1 .. Len(w) : w[j].payload.unit = Len(units)
    <3>1. 1 \in 1 .. i /\ 1 \in 1 .. (IF 1 < i THEN Len(es[1]) ELSE sent)
      BY <1>4, <2>2
    <3>2. PICK j \in 1 .. Len(w) : Carries(w[j].payload, Len(units), 1, 1)
      BY <3>1 DEF AllBehind, es
    <3> QED
      BY <3>2 DEF Carries
  <2>3. last - 1 = Len(w) /\ \A j \in 1 .. Len(w) : v[j] = w[j]
    BY <1>1
  <2>4. (sent = 0 /\ i = 1) <=> \A j \in 1 .. last - 1 : v[j].payload.unit # p.unit
    BY <1>5, <2>1, <2>2, <2>3
  <2>5. p.n <=> Unit.cvs /\ \A j \in 1 .. last - 1 : v[j].payload.unit # p.unit
    BY <2>4
  <2> QED
    BY <1>5, <1>6, <2>5 DEF FirstRight
<1> QED
  BY <1>9, <1>10 DEF v

(* The packets before it stay right, and the wire well formed. *)
LEMMA WireGrows ==
  ASSUME UnitsOK, Len(units) # 0, NEW i \in 1 .. Unit.n, NEW sent \in Nat,
         NEW chunk, NEW p, Following(p, i, sent, chunk), NEW w, WireOK(w),
         NEW pkt, pkt.payload = p, NoneAhead(w, i, sent), AllBehind(w, i, sent),
         pkt.marker <=> i = Unit.n /\ sent + chunk = Len(Unit.elements[i]),
         p.n <=> sent = 0 /\ i = 1 /\ Unit.cvs,
         \A k \in 1 .. Len(w) : MarkedRight(w, k) /\ FirstRight(w, k)
  PROVE  LET v == Append(w, pkt)
         IN  WireOK(v) /\ \A k \in 1 .. Len(v) : MarkedRight(v, k) /\ FirstRight(v, k)
<1> DEFINE v == Append(w, pkt)
<1>1. /\ Len(w) \in Nat /\ Len(v) = Len(w) + 1 /\ IsSeq(v)
      /\ \A k \in 1 .. Len(w) : v[k] = w[k]
      /\ v[Len(w) + 1] = pkt
  BY AppendIs DEF WireOK
<1>2. MarkedRight(v, Len(w) + 1) /\ FirstRight(v, Len(w) + 1)
  BY PacketRight
<1> HIDE DEF v
<1>3. ChunkOK(p)
  <2>1. Len(units) \in 1 .. Len(units)
    BY DEF UnitsOK, IsSeq
  <2> QED
    BY <2>1 DEF Following, ChunkOK, Unit
<1>4. WireOK(v)
  <2> SUFFICES ASSUME NEW j \in 1 .. Len(v) PROVE ChunkOK(v[j].payload)
    BY <1>1 DEF WireOK
  <2>1. CASE j \in 1 .. Len(w)
    BY <1>1, <2>1 DEF WireOK
  <2>2. CASE j = Len(w) + 1
    BY <1>1, <1>3, <2>2
  <2> QED
    BY <1>1, <2>1, <2>2
<1>5. ASSUME NEW k \in 1 .. Len(v) PROVE MarkedRight(v, k) /\ FirstRight(v, k)
  <2>1. CASE k \in 1 .. Len(w)
    <3>1. v[k] = w[k] /\ (\A j \in 1 .. k : v[j] = w[j]) /\ (\A j \in 1 .. k - 1 : v[j] = w[j])
      BY <1>1, <2>1
    <3>2. MarkedRight(w, k) /\ FirstRight(w, k)
      BY <2>1
    <3>3. MarkedRight(v, k)
      BY <3>1, <3>2 DEF MarkedRight
    <3>4. FirstRight(v, k)
      BY <3>1, <3>2 DEF FirstRight
    <3> QED
      BY <3>3, <3>4
  <2>2. CASE k = Len(w) + 1
    BY <1>2, <2>2
  <2> QED
    BY <1>1, <2>1, <2>2
<1> QED
  BY <1>4, <1>5 DEF v

(* What a packet says of itself, and where the call goes after it.         *)
Carrying(p, pkt, chunk) ==
  /\ Following(p, call.i, call.sent, chunk)
  /\ p.data = SubSeq(Element, call.sent + 1, call.sent + chunk)
  /\ p.z <=> call.sent # 0
  /\ p.y <=> call.sent + chunk # Len(Element)
  /\ p.n <=> call.sent = 0 /\ call.i = 1 /\ Unit.cvs
  /\ pkt.payload = p
  /\ pkt.seq = seq_num
  /\ pkt.marker <=> call.i = Unit.n /\ call.sent + chunk = Len(Element)

Moved(chunk, ret) ==
  LET end == call.sent + chunk = Len(Element)
  IN  IF ret = -1 \/ (end /\ call.i = Unit.n)
      THEN call' = [stage |-> "return", ret |-> ret]
      ELSE call' = [stage |-> "send", ts |-> call.ts,
                    i |-> IF end THEN call.i + 1 ELSE call.i,
                    sent |-> IF end THEN 0 ELSE call.sent + chunk]

Transmitted(pkt, ret) ==
  IF ret = -1 THEN wire' = wire /\ seq_num' = seq_num /\ rx' = rx
  ELSE /\ wire' = Append(wire, pkt)
       /\ seq_num' = (seq_num + 1) % U16
       /\ rx' = Receive(pkt) \/ (rx.gap < U16 - 1 /\ rx' = Lose(pkt))

(* One turn of the loop, without its arithmetic. *)
LEMMA TurnOfLoop ==
  ASSUME SenderTypeOK, NEW ret \in {0, -1}, SendChunk(ret)
  PROVE  \E chunk, p, pkt : Carrying(p, pkt, chunk) /\ Moved(chunk, ret) /\ Transmitted(pkt, ret)
<1> DEFINE bytes_left == Len(Element) - call.sent
           chunk == IF bytes_left <= per_packet_budget THEN bytes_left ELSE per_packet_budget
           last == chunk = bytes_left
           data == SubSeq(Element, call.sent + 1, call.sent + chunk)
           p == Av1AggregationHeader(call.sent = 0, last, call.i = 1 /\ Unit.cvs, data)
           marker == last /\ is_last_obu(Unit)
           pkt == PacketOf(call.ts, marker, p)
<1>1. /\ call \in [stage : {"send"}, ts : Timestamps, i : Nat, sent : Nat]
      /\ Sending /\ Len(units) \in Nat \ {0} /\ call.i \in 1 .. Unit.n /\ call.sent < Len(Element)
      /\ IsSeq(Element) /\ Len(Element) \in Nat
  <2>1. /\ call \in [stage : {"send"}, ts : Timestamps, i : Nat, sent : Nat]
        /\ Sending /\ Len(units) # 0 /\ call.i \in 1 .. Unit.n /\ call.sent < Len(Element)
    BY DEF SenderTypeOK, CallOK, SendChunk, Sending
  <2>2. Len(units) \in Nat /\ UnitOK(Unit)
    BY <2>1 DEF SenderTypeOK, UnitsOK, IsSeq, Unit
  <2>3. IsSeq(Element)
    BY <2>1, <2>2 DEF UnitOK, Element
  <2> QED
    BY <2>1, <2>2, <2>3 DEF IsSeq
<1>2. Emit(marker, p, ret) /\ Advance(Unit, chunk, last, ret)
  BY DEF SendChunk, Unit, Element
<1>3. /\ chunk \in Nat \ {0} /\ call.sent + chunk <= Len(Element) /\ call.sent \in Nat
      /\ last <=> call.sent + chunk = Len(Element)
  <2>1. per_packet_budget \in Nat \ {0}
    BY Av1Assumption DEF per_packet_budget, AGGREGATION_HEADER_SIZE
  <2>2. bytes_left \in Nat \ {0} /\ call.sent \in Nat
    BY <1>1
  <2> QED
    BY <1>1, <2>1, <2>2
<1> HIDE DEF chunk
<1>4. /\ Len(data) = chunk /\ \A k \in 1 .. chunk : data[k] = Element[call.sent + k]
  <2> DEFINE a == call.sent
             b == call.sent + chunk
  <2>1. a \in Nat /\ b \in Nat /\ a <= b /\ b <= Len(Element) /\ b - a = chunk
    BY <1>1, <1>3
  <2>2. data = SubSeq(Element, a + 1, b)
    OBVIOUS
  <2> HIDE DEF a, b, data
  <2>3. Len(data) = b - a /\ \A k \in 1 .. b - a : data[k] = Element[a + k]
    BY <1>1, <2>1, <2>2, ChunkIs
  <2> QED
    BY <2>1, <2>3 DEF a
<1> HIDE DEF data, last
<1>5. /\ p.unit = Len(units) /\ p.element = call.i /\ p.off = call.sent /\ p.len = chunk
      /\ p.data = data
      /\ p.z = (~ (call.sent = 0)) /\ p.y = (~ last)
      /\ p.n = ((call.sent = 0) /\ (call.i = 1 /\ Unit.cvs))
  BY <1>4 DEF Av1AggregationHeader
<1> HIDE DEF p
<1>6. Following(p, call.i, call.sent, chunk)
  <2>1. ASSUME NEW o \in call.sent + 1 .. call.sent + chunk
        PROVE  Carries(p, Len(units), call.i, o)
    <3>1. o - call.sent \in 1 .. chunk /\ call.sent + (o - call.sent) = o
      BY <1>3
    <3>2. data[o - call.sent] = Element[o]
      BY <1>4, <3>1
    <3> QED
      BY <1>5, <3>2 DEF Carries, Unit, Element
  <2> QED
    BY <1>3, <1>5, <2>1 DEF Following, Element
<1>7. /\ pkt.payload = p /\ pkt.seq = seq_num /\ pkt.marker = marker
  BY DEF PacketOf
<1>8. Carrying(p, pkt, chunk)
  BY <1>3, <1>5, <1>6, <1>7 DEF Carrying, data, is_last_obu
<1>9. Transmitted(pkt, ret)
  BY <1>2 DEF Emit, SendPacket, Account, counters, Transmitted
<1>10. Moved(chunk, ret)
  <2> DEFINE to == call.sent + chunk
  <2>1. CASE ret = -1 \/ (last /\ call.i = Unit.n)
    BY <1>2, <1>3, <2>1 DEF Advance, Moved, is_last_obu
  <2>2. CASE ~ (ret = -1 \/ (last /\ call.i = Unit.n)) /\ last
    <3>1. call' = [call EXCEPT !.i = call.i + 1, !.sent = 0]
      BY <1>2, <2>2 DEF Advance, is_last_obu
    <3>2. call' = [stage |-> "send", ts |-> call.ts, i |-> call.i + 1, sent |-> 0]
      BY <1>1, <3>1
    <3> QED
      BY <1>3, <2>2, <3>2 DEF Moved
  <2>3. CASE ~ (ret = -1 \/ (last /\ call.i = Unit.n)) /\ ~ last
    <3>1. call' = [call EXCEPT !.sent = to]
      BY <1>2, <2>3 DEF Advance, is_last_obu
    <3> HIDE DEF to
    <3>2. call' = [stage |-> "send", ts |-> call.ts, i |-> call.i, sent |-> to]
      BY <1>1, <3>1
    <3> QED
      BY <1>3, <2>3, <3>2 DEF Moved, to
  <2> QED
    BY <2>1, <2>2, <2>3
<1> QED
  BY <1>8, <1>9, <1>10

LEMMA SenderTurn ==
  ASSUME SenderInv, Sending, units' = units, NEW ret \in {0, -1},
         NEW chunk, NEW p, NEW pkt, Carrying(p, pkt, chunk), Moved(chunk, ret), Transmitted(pkt, ret)
  PROVE  SenderInv'
<1>1. /\ UnitsOK /\ WireOK(wire) /\ seq_num \in 0 .. U16 - 1
      /\ call \in [stage : {"send"}, ts : Timestamps, i : Nat, sent : Nat]
      /\ Len(units) # 0 /\ call.i \in 1 .. Unit.n /\ call.sent < Len(Element)
      /\ NoneAhead(wire, call.i, call.sent) /\ AllBehind(wire, call.i, call.sent)
      /\ \A k \in 1 .. Len(wire) : MarkedRight(wire, k) /\ FirstRight(wire, k)
  BY DEF SenderInv, SenderTypeOK, CallOK
<1>2. /\ Following(p, call.i, call.sent, chunk) /\ pkt.payload = p
      /\ (p.n <=> call.sent = 0 /\ call.i = 1 /\ Unit.cvs)
      /\ (pkt.marker <=> call.i = Unit.n /\ call.sent + chunk = Len(Unit.elements[call.i]))
  BY DEF Carrying, Element
<1>3. call.sent \in Nat /\ call.i \in Nat
  BY <1>1
<1> DEFINE v == Append(wire, pkt)
           to == call.sent + chunk
<1>4. WireOK(v) /\ \A k \in 1 .. Len(v) : MarkedRight(v, k) /\ FirstRight(v, k)
  BY <1>1, <1>2, <1>3, WireGrows
<1>5. /\ NoneAhead(v, call.i, to) /\ AllBehind(v, call.i, to)
      /\ to = Len(Element) => NoneAhead(v, call.i + 1, 0) /\ AllBehind(v, call.i + 1, 0)
  BY <1>1, <1>2, <1>3, PlaceMoves DEF Element
<1>6. to \in Nat /\ to <= Len(Element)
  BY <1>2, <1>3 DEF Following, Element
<1> HIDE DEF v, to
<1>7. UnitsOK'
  <2>1. units' = units
    OBVIOUS
  <2> QED
    BY <1>1, <2>1 DEF UnitsOK, UnitOK, IsSeq
<1>8. wire' = wire \/ wire' = v
  BY DEF Transmitted, v
<1>9. WireOK(wire)' /\ (\A k \in 1 .. Len(wire) : MarkedRight(wire, k) /\ FirstRight(wire, k))'
  <2>1. WireOK(wire') /\ \A k \in 1 .. Len(wire') : MarkedRight(wire', k) /\ FirstRight(wire', k)
    BY <1>1, <1>4, <1>8
  <2>2. WireOK(wire)'
    BY <2>1 DEF WireOK, ChunkOK, Carries
  <2>3. ASSUME NEW k \in 1 .. Len(wire') PROVE MarkedRight(wire, k)' /\ FirstRight(wire, k)'
    <3>1. MarkedRight(wire', k) /\ FirstRight(wire', k)
      BY <2>1
    <3> DEFINE w == wire'
    <3>a. MarkedRight(w, k) /\ FirstRight(w, k) /\ wire' = w
          /\ units'[w[k].payload.unit] = units[w[k].payload.unit]
      BY <3>1
    <3> HIDE DEF w
    <3>2. MarkedRight(wire, k)'
      BY <3>a, MarkedStays
    <3>3. FirstRight(wire, k)'
      BY <3>a, FirstStays
    <3> QED
      BY <3>2, <3>3
  <2> QED
    BY <2>2, <2>3
<1>10. seq_num' \in 0 .. U16 - 1
  BY <1>1, WidthAssumption DEF Transmitted
<1>11. CASE ret = -1 \/ (to = Len(Element) /\ call.i = Unit.n)
  <2>1. call'.stage = "return"
    BY <1>11 DEF Moved, to
  <2> QED
    BY <1>7, <1>9, <1>10, <2>1 DEF SenderInv, SenderTypeOK, CallOK, Sending
<1>12. CASE ~ (ret = -1 \/ (to = Len(Element) /\ call.i = Unit.n))
  <2> DEFINE i == IF to = Len(Element) THEN call.i + 1 ELSE call.i
             sent == IF to = Len(Element) THEN 0 ELSE to
  <2>1. call' = [stage |-> "send", ts |-> call.ts, i |-> i, sent |-> sent]
    BY <1>12 DEF Moved, to
  <2>2. UnitOK(Unit) /\ Unit.n \in Int
    <3>1. Len(units) \in 1 .. Len(units)
      BY <1>1 DEF UnitsOK, IsSeq
    <3>2. UnitOK(Unit)
      BY <1>1, <3>1 DEF UnitsOK, Unit
    <3> QED
      BY <3>2 DEF UnitOK
  <2>3. i \in 1 .. Unit.n /\ sent \in Nat /\ sent < Len(Unit.elements[i])
    <3>1. CASE to = Len(Element)
      <4>1. i = call.i + 1 /\ sent = 0 /\ i \in 1 .. Unit.n
        BY <1>1, <1>3, <1>12, <2>2, <3>1
      <4>2. Len(Unit.elements[i]) \in Nat /\ Len(Unit.elements[i]) # 0
        BY <2>2, <4>1 DEF UnitOK, IsSeq
      <4> QED
        BY <4>1, <4>2
    <3>2. CASE to # Len(Element)
      <4>1. i = call.i /\ sent = to
        BY <3>2
      <4>2. Len(Element) \in Nat
        BY <1>1, <2>2 DEF UnitOK, IsSeq, Element
      <4> QED
        BY <1>1, <1>6, <3>2, <4>1, <4>2 DEF Element
    <3> QED
      BY <3>1, <3>2
  <2>4. NoneAhead(wire', i, sent) /\ AllBehind(wire', i, sent)
    <3>1. wire' = v
      BY <1>12 DEF Transmitted, v
    <3> QED
      BY <1>5, <3>1
  <2> HIDE DEF i, sent
  <2>5. /\ call' \in [stage : {"send"}, ts : Timestamps, i : Nat, sent : Nat]
        /\ call'.i = i /\ call'.sent = sent /\ call'.stage = "send"
    <3>1. call.ts \in Timestamps /\ i \in Nat
      BY <1>1, <2>2, <2>3
    <3> QED
      BY <2>1, <2>3, <3>1
  <2>6. CallOK'
    BY <1>1, <2>3, <2>5 DEF CallOK, Sending, Unit, Element
  <2>7. NoneAhead(wire, call.i, call.sent)' /\ AllBehind(wire, call.i, call.sent)'
    BY <2>4, <2>5 DEF NoneAhead, AllBehind, Carries, Unit
  <2> QED
    BY <1>7, <1>9, <1>10, <2>6, <2>7 DEF SenderInv, SenderTypeOK
<1> QED
  BY <1>11, <1>12

(* A new unit leaves what was said of the earlier ones, and no packet is   *)
(* of it yet.                                                              *)
LEMMA UnitsGrow ==
  ASSUME UnitsOK, NEW u, UnitOK(u), units' = Append(units, u)
  PROVE  /\ UnitsOK'
         /\ Len(units') = Len(units) + 1 /\ Len(units) \in Nat
         /\ \A k \in 1 .. Len(units) : units'[k] = units[k]
         /\ units'[Len(units')] = u
<1> DEFINE v == Append(units, u)
<1>1. /\ IsSeq(v) /\ Len(units) \in Nat /\ Len(v) = Len(units) + 1
      /\ \A k \in 1 .. Len(units) : v[k] = units[k]
      /\ v[Len(units) + 1] = u
  BY AppendIs DEF UnitsOK
<1> HIDE DEF v
<1>2. ASSUME NEW k \in 1 .. Len(v) PROVE UnitOK(v[k])
  <2>1. k \in 1 .. Len(units) \/ k = Len(units) + 1
    BY <1>1
  <2> QED
    BY <1>1, <2>1 DEF UnitsOK
<1>3. units' = v
  BY DEF v
<1>4. UnitsOK'
  BY <1>1, <1>2, <1>3 DEF UnitsOK, UnitOK, IsSeq
<1> QED
  BY <1>1, <1>3, <1>4

LEMMA SenderCall ==
  ASSUME SenderInv, NEW ts \in Timestamps, NEW tu \in TemporalUnits, NEW cut \in Nat,
         NEW is_new_cvs \in BOOLEAN, Call(ts, tu, cut, is_new_cvs)
  PROVE  /\ SenderInv'
         /\ Len(units') = Len(units) + 1 /\ Len(units) \in Nat
         /\ \A k \in 1 .. Len(units) : units'[k] = units[k]
         /\ UNCHANGED <<wire, seq_num, rx>>
         /\ LET u == units'[Len(units')]
            IN  IF u.n <= 0 THEN call' = [stage |-> "return", ret |-> u.n]
                ELSE call' = [stage |-> "send", ts |-> ts, i |-> 1, sent |-> 0]
<1> DEFINE parsed == parse_obus(Stream(Len(units) + 1, tu, cut))
           u == [tu |-> tu, cut |-> cut, cvs |-> is_new_cvs,
                 n |-> parsed.n, elements |-> parsed.elements]
<1>1. UnitOK(u)
  <2>1. Len(units) \in Nat
    BY DEF SenderInv, SenderTypeOK, UnitsOK, IsSeq
  <2>2. FromStream(Len(units) + 1, u)
    BY <2>1, CallRecords
  <2>3. u.cvs \in BOOLEAN
    OBVIOUS
  <2> HIDE DEF u
  <2> QED
    BY <2>2, <2>3, ParsedUnit
<1> HIDE DEF parsed
<1>2. /\ units' = Append(units, u) /\ UNCHANGED <<wire, seq_num, rx>>
      /\ call' = IF u.n <= 0 THEN [stage |-> "return", ret |-> u.n]
                 ELSE [stage |-> "send", ts |-> ts, i |-> 1, sent |-> 0]
  BY DEF Call, parsed, rtpVars
<1> HIDE DEF u
<1>3. UnitsOK /\ WireOK(wire) /\ seq_num \in 0 .. U16 - 1
      /\ \A k \in 1 .. Len(wire) : MarkedRight(wire, k) /\ FirstRight(wire, k)
  BY DEF SenderInv, SenderTypeOK
<1>4. /\ UnitsOK'
      /\ Len(units') = Len(units) + 1 /\ Len(units) \in Nat
      /\ \A k \in 1 .. Len(units) : units'[k] = units[k]
      /\ units'[Len(units')] = u
  BY <1>1, <1>2, <1>3, UnitsGrow
<1>5. ASSUME NEW j \in 1 .. Len(wire)
      PROVE  /\ wire[j].payload.unit \in 1 .. Len(units)
             /\ units'[wire[j].payload.unit] = units[wire[j].payload.unit]
             /\ ChunkOK(wire[j].payload)
  BY <1>3, <1>4 DEF WireOK, ChunkOK
<1>6. WireOK(wire)'
  <2> SUFFICES ASSUME NEW j \in 1 .. Len(wire) PROVE ChunkOK(wire[j].payload)'
    BY <1>2, <1>3 DEF WireOK, IsSeq
  <2> DEFINE q == wire[j].payload
  <2>1. ChunkOK(q) /\ units'[q.unit] = units[q.unit] /\ q.unit \in 1 .. Len(units')
    BY <1>4, <1>5
  <2>2. wire[j].payload' = q
    BY <1>2
  <2> HIDE DEF q
  <2>3. ChunkOK(q)'
    BY <1>2, <2>1, <2>2 DEF ChunkOK, Carries, q
  <2> QED
    BY <1>2, <2>3 DEF q
<1>7. ASSUME NEW k \in 1 .. Len(wire) PROVE MarkedRight(wire, k)' /\ FirstRight(wire, k)'
  <2>1. /\ MarkedRight(wire, k) /\ FirstRight(wire, k) /\ wire' = wire
        /\ units'[wire[k].payload.unit] = units[wire[k].payload.unit]
    BY <1>2, <1>3, <1>5
  <2>2. MarkedRight(wire, k)'
    BY <2>1, MarkedStays
  <2>3. FirstRight(wire, k)'
    BY <2>1, FirstStays
  <2> QED
    BY <2>2, <2>3
<1>8. CASE u.n <= 0
  <2>1. call' = [stage |-> "return", ret |-> u.n]
    BY <1>2, <1>8
  <2> QED
    BY <1>2, <1>3, <1>4, <1>6, <1>7, <1>8, <2>1 DEF SenderInv, SenderTypeOK, CallOK, Sending
<1>9. CASE ~ (u.n <= 0)
  <2>1. call' = [stage |-> "send", ts |-> ts, i |-> 1, sent |-> 0]
    BY <1>2, <1>9
  <2>2. call' \in [stage : {"send"}, ts : Timestamps, i : Nat, sent : Nat]
        /\ call'.i = 1 /\ call'.sent = 0 /\ call'.stage = "send"
    BY <2>1
  <2>3. 1 \in 1 .. u.n /\ Len(u.elements[1]) \in Nat /\ Len(u.elements[1]) # 0
    <3>1. u.n \in Int
      BY <1>1 DEF UnitOK
    <3>2. 1 \in 1 .. u.n
      BY <1>9, <3>1
    <3>3. IsSeq(u.elements[1]) /\ Len(u.elements[1]) # 0
      BY <1>1, <3>2 DEF UnitOK
    <3> QED
      BY <3>2, <3>3 DEF IsSeq
  <2>4. CallOK'
    <3>1. Len(units') # 0 /\ Unit' = u /\ Element' = u.elements[1]
      BY <1>4, <2>2 DEF Unit, Element
    <3>2. call'.i \in 1 .. Unit'.n /\ call'.sent < Len(Element')
      BY <2>2, <2>3, <3>1
    <3> QED
      BY <2>2, <3>1, <3>2 DEF CallOK, Sending
  <2>5. NoneAhead(wire, call.i, call.sent)'
    <3>1. ASSUME NEW j \in 1 .. Len(wire) PROVE wire[j].payload.unit # Len(units')
      BY <1>4, <1>5
    <3> QED
      BY <1>2, <3>1 DEF NoneAhead
  <2>6. AllBehind(wire, call.i, call.sent)'
    BY <2>2 DEF AllBehind
  <2> QED
    BY <1>2, <1>3, <1>4, <1>6, <1>7, <1>9, <2>1, <2>4, <2>5, <2>6 DEF SenderInv, SenderTypeOK
<1> QED
  BY <1>8, <1>9

(* A step that neither sends nor begins to. *)
LEMMA SenderKeeps ==
  ASSUME SenderInv, UNCHANGED <<wire, seq_num, units>>,
         call' = call \/ call' = Idle
  PROVE  SenderInv'
<1>1. /\ UnitsOK /\ WireOK(wire) /\ seq_num \in 0 .. U16 - 1 /\ CallOK
      /\ \A k \in 1 .. Len(wire) : MarkedRight(wire, k) /\ FirstRight(wire, k)
      /\ Sending => NoneAhead(wire, call.i, call.sent) /\ AllBehind(wire, call.i, call.sent)
  BY DEF SenderInv, SenderTypeOK
<1>2. UnitsOK' /\ seq_num' \in 0 .. U16 - 1
  BY <1>1 DEF UnitsOK, UnitOK, IsSeq
<1>3. WireOK(wire)'
  <2>1. IsSeq(wire)'
    BY <1>1 DEF WireOK, IsSeq
  <2>2. ASSUME NEW j \in 1 .. Len(wire) PROVE ChunkOK(wire[j].payload)'
    <3>1. ChunkOK(wire[j].payload)
      BY <1>1 DEF WireOK
    <3> QED
      BY <3>1 DEF ChunkOK, Carries
  <2> QED
    BY <2>1, <2>2 DEF WireOK
<1>4. ASSUME NEW k \in 1 .. Len(wire) PROVE MarkedRight(wire, k)' /\ FirstRight(wire, k)'
  <2>1. MarkedRight(wire, k) /\ FirstRight(wire, k)
    BY <1>1
  <2>2. MarkedRight(wire, k)'
    BY <2>1, MarkedStays
  <2>3. FirstRight(wire, k)'
    BY <2>1, FirstStays
  <2> QED
    BY <2>2, <2>3
<1>5. CallOK' /\ (Sending' => NoneAhead(wire, call.i, call.sent)' /\ AllBehind(wire, call.i, call.sent)')
  <2>1. CASE call' = call
    <3>1. CallOK'
      BY <1>1, <2>1 DEF CallOK, Sending, Unit, Element
    <3>2. Sending' = Sending
      BY <2>1 DEF Sending
    <3>3. ASSUME Sending
          PROVE  NoneAhead(wire, call.i, call.sent)' /\ AllBehind(wire, call.i, call.sent)'
      <4> DEFINE i == call.i
                 sent == call.sent
      <4>1. NoneAhead(wire', i, sent) /\ AllBehind(wire', i, sent)
        BY <1>1, <3>3
      <4>2. call'.i = i /\ call'.sent = sent /\ units' = units
        BY <2>1
      <4> HIDE DEF i, sent
      <4>3. NoneAhead(wire, call.i, call.sent)'
        BY <4>1, <4>2 DEF NoneAhead
      <4>4. AllBehind(wire, call.i, call.sent)'
        BY <4>1, <4>2 DEF AllBehind, Carries, Unit
      <4> QED
        BY <4>3, <4>4
    <3> QED
      BY <3>1, <3>2, <3>3
  <2>2. CASE call' = Idle
    BY <2>2 DEF CallOK, Sending, Idle
  <2> QED
    BY <2>1, <2>2
<1> QED
  BY <1>1, <1>2, <1>3, <1>4, <1>5 DEF SenderInv, SenderTypeOK

LEMMA SenderInit == Av1Init => SenderInv
<1> SUFFICES ASSUME Av1Init PROVE SenderInv
  OBVIOUS
<1>1. wire = << >> /\ units = << >> /\ seq_num = 0 /\ call.stage = "idle"
  BY DEF Av1Init, Init, Idle
<1>2. Len(wire) = 0 /\ Len(units) = 0 /\ IsSeq(wire) /\ IsSeq(units)
  <2>1. << >> \in Seq({})
    OBVIOUS
  <2>2. IsSeq(<< >>)
    BY <2>1, IsSeqOf
  <2> QED
    BY <1>1, <2>2
<1>3. SenderTypeOK
  BY <1>1, <1>2, WidthAssumption DEF SenderTypeOK, UnitsOK, CallOK, WireOK, Sending
<1> QED
  BY <1>1, <1>2, <1>3 DEF SenderInv, Sending

(* The steps of the specification. *)
LEMMA SenderStep == SenderInv /\ [Av1Next]_av1Vars => SenderInv'
<1> SUFFICES ASSUME SenderInv, [Av1Next]_av1Vars PROVE SenderInv'
  OBVIOUS
<1>1. ASSUME NEW ts \in Timestamps, NEW tu \in TemporalUnits, NEW is_new_cvs \in BOOLEAN,
             NEW cut \in 0 .. Len(Encode(0, tu)), Call(ts, tu, cut, is_new_cvs)
      PROVE  SenderInv'
  <2>1. cut \in Nat
    OBVIOUS
  <2> QED
    BY <1>1, <2>1, SenderCall
<1>2. ASSUME NEW ret \in {0, -1}, SendChunk(ret)
      PROVE  SenderInv'
  <2>1. SenderTypeOK /\ Sending /\ units' = units
    BY <1>2 DEF SenderInv, SendChunk, Sending
  <2>2. PICK chunk, p, pkt : Carrying(p, pkt, chunk) /\ Moved(chunk, ret) /\ Transmitted(pkt, ret)
    BY <1>2, <2>1, TurnOfLoop
  <2> QED
    BY <1>2, <2>1, <2>2, SenderTurn
<1>3. CASE Return
  BY <1>3, SenderKeeps DEF Return, rtpVars
<1>4. CASE UNCHANGED av1Vars
  BY <1>4, SenderKeeps DEF av1Vars, rtpVars
<1> QED
  BY <1>1, <1>2, <1>3, <1>4 DEF Av1Next

LEMMA SenderInvariant == Av1Spec => []SenderInv
BY SenderInit, SenderStep, PTL DEF Av1Spec

(* MarkerMeansWholeUnit, for every temporal unit, cut and packet size: the *)
(* marker is on a packet exactly when the packets of its unit so far carry *)
(* every octet of every element.                                           *)
THEOREM MarkersMeanWholeUnits == Av1Spec => []MarkerMeansWholeUnit
<1>1. SenderInv => MarkerMeansWholeUnit
  BY DEF SenderInv, MarkerMeansWholeUnit, MarkedRight
<1> QED
  BY <1>1, SenderInvariant, PTL

(* NewSequenceIsFirst, for all of them: N is on the first packet of a unit *)
(* that starts a new coded video sequence and on no other.                 *)
THEOREM NewSequencesComeFirst == Av1Spec => []NewSequenceIsFirst
<1>1. SenderInv => NewSequenceIsFirst
  BY DEF SenderInv, NewSequenceIsFirst, FirstRight
<1> QED
  BY <1>1, SenderInvariant, PTL

-----------------------------------------------------------------------------
(* The receiver. *)

(* It has counted with the sender, whose next number is s. *)
CountsRight(r, s) ==
  /\ r.next \in -1 .. U16 - 1
  /\ r.gap \in 0 .. U16 - 1
  /\ r.next # -1 => s = (r.next + r.gap) % U16
  /\ r.frags # << >> => r.next # -1

(* The finished elements are the caller's, in order. *)
DoneOK(done) ==
  /\ IsSeq(done)
  /\ \A k \in 1 .. Len(done) :
       LET d == done[k]
       IN  /\ d.unit \in 1 .. Len(units)
           /\ d.element \in 1 .. units[d.unit].n
           /\ d.octets = units[d.unit].elements[d.element]
  /\ \A k \in 1 .. Len(done) - 1 : Precedes(done[k], done[k + 1])

(* They are before the element i of the last unit. *)
NonePast(done, i) ==
  \A k \in 1 .. Len(done) :
    \/ done[k].unit < Len(units)
    \/ done[k].unit = Len(units) /\ done[k].element < i

(* The last of them are the first m of the last unit. *)
Finished(done, m) ==
  LET earlier == Len(done) - m
  IN  earlier >= 0 /\ \A k \in 1 .. m :
        done[earlier + k] = [unit |-> Len(units), element |-> k, octets |-> Unit.elements[k]]

(* What the receiver holds when no packet was lost since the last one that *)
(* arrived is the beginning of the element that is being sent; and as long *)
(* as no packet of the unit is lost, it has all of it up to the place the  *)
(* call is at.                                                             *)
Abreast(r, i, sent) ==
  /\ NonePast(r.done, i)
  /\ sent # 0 /\ r.frags # << >> /\ r.gap = 0 => r.frags = SubSeq(Unit.elements[i], 1, sent)
  /\ Len(units) \notin r.hurt =>
       Finished(r.done, i - 1) /\ (sent # 0 => r.frags # << >> /\ r.gap = 0)

ReceiverInv ==
  /\ CountsRight(rx, seq_num)
  /\ DoneOK(rx.done)
  /\ Sending => Abreast(rx, call.i, call.sent)
  /\ SuccessMeansDelivered

(* What becomes of a packet that was sent: the receiver has the element up *)
(* to it, or nothing, or the packet is lost.                               *)
Received(q, i, to, octets) ==
  LET end == to = Len(Unit.elements[i])
      whole == octets # << >> /\ end
  IN  /\ octets = << >> \/ octets = SubSeq(Unit.elements[i], 1, to)
      /\ rx.frags # << >> /\ rx.gap = 0 => octets # << >>
      /\ q.gap = 0 /\ q.hurt = rx.hurt
      /\ q.frags = IF whole THEN << >> ELSE octets
      /\ q.done = IF whole
                  THEN Append(rx.done, [unit |-> Len(units), element |-> i, octets |-> octets])
                  ELSE rx.done

Lost(q) ==
  /\ q.gap # 0 /\ q.hurt = rx.hurt \cup {Len(units)}
  /\ q.frags = rx.frags /\ q.done = rx.done

LEMMA CountsOn ==
  ASSUME CountsRight(rx, seq_num), seq_num \in 0 .. U16 - 1, NEW q,
         \/ q.next = (seq_num + 1) % U16 /\ q.gap = 0
         \/ q.next = rx.next /\ q.gap = rx.gap + 1 /\ rx.gap < U16 - 1 /\ q.frags = rx.frags
  PROVE  CountsRight(q, (seq_num + 1) % U16)
<1> DEFINE n == rx.next
           g == rx.gap
           s == seq_num
           M == U16
<1>1. /\ M \in Nat \ {0} /\ n \in -1 .. M - 1 /\ g \in 0 .. M - 1 /\ s \in 0 .. M - 1
      /\ n # -1 => s = (n + g) % M
      /\ \/ q.next = (s + 1) % M /\ q.gap = 0
         \/ q.next = n /\ q.gap = g + 1 /\ g < M - 1 /\ q.frags = rx.frags
      /\ rx.frags # << >> => n # -1
  BY WidthAssumption DEF CountsRight
<1> HIDE DEF n, g, s, M
<1> SUFFICES /\ q.next \in -1 .. M - 1 /\ q.gap \in 0 .. M - 1
             /\ q.next # -1 => (s + 1) % M = (q.next + q.gap) % M
             /\ q.frags # << >> => q.next # -1
  BY DEF CountsRight, s, M
<1>2. (s + 1) % M \in 0 .. M - 1
  BY <1>1
<1>3. CASE q.next = (s + 1) % M /\ q.gap = 0
  <2> DEFINE t == (s + 1) % M
  <2>1. t \in 0 .. M - 1
    BY <1>2
  <2> HIDE DEF t
  <2>2. t % M = t
    BY <1>1, <2>1
  <2> QED
    BY <1>1, <1>3, <2>1, <2>2 DEF t
<1>4. CASE q.next = n /\ q.gap = g + 1 /\ g < M - 1 /\ q.frags = rx.frags
  <2>1. ASSUME n # -1 PROVE (s + 1) % M = (n + (g + 1)) % M
    <3>1. n + g \in Nat /\ s = (n + g) % M
      BY <1>1, <2>1
    <3>2. (((n + g) % M) + 1) % M = ((n + g) + 1) % M
      BY <1>1, <3>1, WrapIncrement
    <3>3. (n + g) + 1 = n + (g + 1)
      BY <1>1
    <3> QED
      BY <3>1, <3>2, <3>3
  <2> QED
    BY <1>1, <1>4, <2>1
<1> QED
  BY <1>1, <1>3, <1>4

LEMMA FinishedGrows ==
  ASSUME NEW done, IsSeq(done), NEW i \in Nat \ {0}, Finished(done, i - 1),
         NEW d, d = [unit |-> Len(units), element |-> i, octets |-> Unit.elements[i]]
  PROVE  Finished(Append(done, d), i)
<1> DEFINE v == Append(done, d)
           earlier == Len(done) - (i - 1)
<1>1. /\ Len(done) \in Nat /\ Len(v) = Len(done) + 1
      /\ \A k \in 1 .. Len(done) : v[k] = done[k]
      /\ v[Len(done) + 1] = d
  BY AppendIs
<1>2. /\ earlier >= 0
      /\ \A k \in 1 .. i - 1 :
           done[earlier + k] = [unit |-> Len(units), element |-> k, octets |-> Unit.elements[k]]
  BY DEF Finished
<1> HIDE DEF v
<1>3. Len(v) - i = earlier /\ earlier \in Nat /\ earlier + i = Len(done) + 1
  BY <1>1, <1>2
<1>4. ASSUME NEW k \in 1 .. i
      PROVE  v[earlier + k] = [unit |-> Len(units), element |-> k, octets |-> Unit.elements[k]]
  <2>1. CASE k = i
    BY <1>1, <1>3, <2>1
  <2>2. CASE k # i
    <3>1. k \in 1 .. i - 1 /\ earlier + k \in 1 .. Len(done)
      BY <1>1, <1>3, <2>2
    <3> QED
      BY <1>1, <1>2, <3>1
  <2> QED
    BY <2>1, <2>2
<1> HIDE DEF earlier
<1> QED
  BY <1>2, <1>3, <1>4 DEF Finished, v

LEMMA DoneGrows ==
  ASSUME UnitsOK, NEW i \in 1 .. Unit.n, Len(units) # 0, NEW done, DoneOK(done), NonePast(done, i),
         NEW d, d = [unit |-> Len(units), element |-> i, octets |-> Unit.elements[i]]
  PROVE  DoneOK(Append(done, d)) /\ NonePast(Append(done, d), i + 1)
<1> DEFINE v == Append(done, d)
<1>1. /\ Len(done) \in Nat /\ Len(v) = Len(done) + 1 /\ IsSeq(v)
      /\ \A k \in 1 .. Len(done) : v[k] = done[k]
      /\ v[Len(done) + 1] = d
  BY AppendIs DEF DoneOK
<1> HIDE DEF v
<1>2. Len(units) \in 1 .. Len(units) /\ i \in Int
  <2>1. Len(units) \in Nat
    BY DEF UnitsOK, IsSeq
  <2> QED
    BY <2>1
<1>3. ASSUME NEW k \in 1 .. Len(done)
      PROVE  /\ done[k].unit \in 1 .. Len(units)
             /\ done[k].element \in 1 .. units[done[k].unit].n
             /\ done[k].octets = units[done[k].unit].elements[done[k].element]
             /\ Precedes(done[k], d)
             /\ done[k].unit < Len(units) \/ (done[k].unit = Len(units) /\ done[k].element < i)
  BY DEF DoneOK, NonePast, Precedes
<1>4. ASSUME NEW k \in 1 .. Len(v)
      PROVE  /\ v[k].unit \in 1 .. Len(units)
             /\ v[k].element \in 1 .. units[v[k].unit].n
             /\ v[k].octets = units[v[k].unit].elements[v[k].element]
             /\ v[k].unit < Len(units) \/ (v[k].unit = Len(units) /\ v[k].element < i + 1)
  <2>1. CASE k = Len(done) + 1
    BY <1>1, <1>2, <2>1 DEF Unit
  <2>2. CASE k # Len(done) + 1
    <3>1. k \in 1 .. Len(done) /\ v[k] = done[k]
      BY <1>1, <2>2
    <3>2. done[k].element < i => done[k].element < i + 1
      <4>1. units[done[k].unit].n \in Int
        BY <1>3, <3>1 DEF UnitsOK, UnitOK
      <4> QED
        BY <1>2, <1>3, <3>1, <4>1
    <3> QED
      BY <1>3, <3>1, <3>2
  <2> QED
    BY <2>1, <2>2
<1>5. ASSUME NEW k \in 1 .. Len(v) - 1 PROVE Precedes(v[k], v[k + 1])
  <2>1. CASE k = Len(done)
    BY <1>1, <1>3, <2>1
  <2>2. CASE k # Len(done)
    <3>1. k \in 1 .. Len(done) - 1 /\ v[k] = done[k] /\ v[k + 1] = done[k + 1]
      BY <1>1, <2>2
    <3> QED
      BY <3>1 DEF DoneOK
  <2> QED
    BY <2>1, <2>2
<1> QED
  BY <1>1, <1>4, <1>5 DEF DoneOK, NonePast, v

(* The receiver keeps abreast of the call, whatever becomes of the packet  *)
(* with the octets of element i up to the place `to`.                      *)
LEMMA KeepsAbreast ==
  ASSUME UnitsOK, Len(units) # 0, NEW i \in 1 .. Unit.n, NEW sent \in Nat, NEW to \in Nat,
         sent < to, to <= Len(Unit.elements[i]),
         DoneOK(rx.done), Abreast(rx, i, sent), NEW q,
         \/ Lost(q)
         \/ \E octets : Received(q, i, to, octets) /\ (sent = 0 => octets # << >>)
  PROVE  /\ DoneOK(q.done)
         /\ to # Len(Unit.elements[i]) => Abreast(q, i, to)
         /\ to = Len(Unit.elements[i]) => Abreast(q, i + 1, 0)
<1> DEFINE e == Unit.elements[i]
           d == [unit |-> Len(units), element |-> i, octets |-> e]
<1>1. /\ Len(units) \in Nat \ {0} /\ i \in Nat \ {0} /\ (i + 1) - 1 = i
      /\ IsSeq(e) /\ UnitOK(Unit)
  <2>1. Len(units) \in 1 .. Len(units)
    BY DEF UnitsOK, IsSeq
  <2>2. UnitOK(Unit)
    BY <2>1 DEF UnitsOK, Unit
  <2>3. Unit.n \in Int
    BY <2>2 DEF UnitOK
  <2>4. i \in Nat \ {0} /\ (i + 1) - 1 = i
    BY <2>3
  <2>5. IsSeq(e)
    BY <2>2 DEF UnitOK
  <2> QED
    BY <2>1, <2>2, <2>4, <2>5
<1>2. NonePast(rx.done, i + 1)
  <2>1. ASSUME NEW k \in 1 .. Len(rx.done), rx.done[k].unit = Len(units), rx.done[k].element < i
        PROVE  rx.done[k].element < i + 1
    <3>1. rx.done[k].element \in 1 .. Unit.n
      BY <2>1 DEF DoneOK, Unit
    <3>2. Unit.n \in Int
      BY <1>1 DEF UnitOK
    <3> QED
      BY <1>1, <2>1, <3>1, <3>2
  <2> QED
    BY <2>1 DEF Abreast, NonePast
<1>3. CASE Lost(q)
  BY <1>2, <1>3 DEF Lost, Abreast
<1>4. ASSUME NEW octets, Received(q, i, to, octets), sent = 0 => octets # << >>
      PROVE  /\ DoneOK(q.done)
             /\ to # Len(e) => Abreast(q, i, to)
             /\ to = Len(e) => Abreast(q, i + 1, 0)
  <2>1. /\ octets = << >> \/ octets = SubSeq(e, 1, to)
        /\ q.gap = 0 /\ q.hurt = rx.hurt
        /\ Len(units) \notin rx.hurt => Finished(rx.done, i - 1) /\ octets # << >>
    BY <1>4 DEF Received, Abreast
  <2>2. CASE octets # << >> /\ to = Len(e)
    <3>1. octets = e
      BY <1>1, <2>1, <2>2, ChunksJoin
    <3>2. q.done = Append(rx.done, d)
      BY <1>4, <2>2, <3>1 DEF Received
    <3> HIDE DEF d
    <3>3. DoneOK(q.done) /\ NonePast(q.done, i + 1)
      BY <3>2, DoneGrows DEF Abreast, d
    <3>4. Finished(rx.done, i - 1) => Finished(q.done, i)
      BY <1>1, <3>2, FinishedGrows DEF DoneOK, d
    <3> QED
      BY <1>1, <2>1, <2>2, <3>3, <3>4 DEF Abreast
  <2>3. CASE ~ (octets # << >> /\ to = Len(e))
    <3>1. q.done = rx.done /\ q.frags = octets
      BY <1>4, <2>3 DEF Received
    <3>2. ASSUME to # Len(e) PROVE Abreast(q, i, to)
      BY <2>1, <3>1 DEF Abreast
    <3>3. ASSUME to = Len(e) PROVE Abreast(q, i + 1, 0)
      BY <1>2, <2>1, <2>3, <3>1, <3>3 DEF Abreast
    <3> QED
      BY <3>1, <3>2, <3>3
  <2> QED
    BY <2>2, <2>3
<1> HIDE DEF e
<1> QED
  BY <1>3, <1>4 DEF e, Lost

(* A packet is only appended when none was lost before it. *)
LEMMA AppendedNext ==
  ASSUME CountsRight(rx, seq_num), seq_num \in 0 .. U16 - 1
  PROVE  /\ rx.next = seq_num => rx.gap = 0
         /\ rx.next # -1 /\ rx.gap = 0 => rx.next = seq_num
<1> DEFINE s == seq_num
           k == rx.gap
           n == rx.next
<1>1. /\ s \in 0 .. U16 - 1 /\ k \in 0 .. U16 - 1 /\ n \in -1 .. U16 - 1
      /\ n # -1 => s = (n + k) % U16
      /\ U16 \in Nat \ {0}
  BY WidthAssumption DEF CountsRight
<1> HIDE DEF s, k, n
<1>2. k = 0 /\ n # -1 => n = s
  BY <1>1
<1>3. n = s => k = 0
  BY <1>1, OtherResidue
<1> QED
  BY <1>2, <1>3 DEF s, k, n

LEMMA NextChunk ==
  ASSUME NEW s, IsSeq(s), NEW a \in Nat, NEW b \in Nat, a < b, b <= Len(s),
         NEW c, c = SubSeq(s, a + 1, b)
  PROVE  /\ c # << >>
         /\ SubSeq(s, 1, a) \o c = SubSeq(s, 1, b)
         /\ SubSeq(s, 1, b) # << >>
<1>1. c # << >>
  BY ChunkIs
<1>2. SubSeq(s, 1, a) \o c = SubSeq(s, 1, b)
  BY ChunksJoin
<1>3. SubSeq(s, 1, b) # << >>
  <2> DEFINE z == 0
  <2>1. z \in Nat /\ z < b /\ z <= b /\ z + 1 = 1
    OBVIOUS
  <2> HIDE DEF z
  <2>2. SubSeq(s, z + 1, b) # << >>
    BY <2>1, ChunkIs
  <2> QED
    BY <2>1, <2>2
<1> QED
  BY <1>1, <1>2, <1>3

(* What the receiver makes of the packet of one turn. *)
LEMMA PacketReceived ==
  ASSUME SenderInv, Sending, CountsRight(rx, seq_num), Abreast(rx, call.i, call.sent),
         NEW chunk, NEW p, NEW pkt, Carrying(p, pkt, chunk)
  PROVE  \E octets : /\ Received(Receive(pkt), call.i, call.sent + chunk, octets)
                     /\ call.sent = 0 => octets # << >>
<1> DEFINE sent == call.sent
           to == call.sent + chunk
           joins == pkt.seq = rx.next /\ rx.frags # << >>
           octets == IF ~ p.z THEN p.data
                     ELSE IF joins THEN rx.frags \o p.data ELSE << >>
           d == [unit |-> p.unit, element |-> p.element, octets |-> octets]
<1>1. IsSeq(Element) /\ sent \in Nat /\ to \in Nat /\ sent < to /\ to <= Len(Element)
  <2>1. /\ Len(units) # 0 /\ call.i \in 1 .. Unit.n /\ sent \in Nat /\ UnitsOK
    BY DEF SenderInv, SenderTypeOK, CallOK
  <2>2. Len(units) \in 1 .. Len(units)
    BY <2>1 DEF UnitsOK, IsSeq
  <2>3. IsSeq(Element)
    BY <2>1, <2>2 DEF UnitsOK, UnitOK, Unit, Element
  <2>4. chunk \in Nat \ {0} /\ to <= Len(Element)
    BY DEF Carrying, Following, Element
  <2> QED
    BY <2>1, <2>3, <2>4
<1>2. /\ p.data = SubSeq(Element, sent + 1, to) /\ (p.z <=> sent # 0)
      /\ (p.y <=> to # Len(Element)) /\ pkt.payload = p /\ pkt.seq = seq_num
      /\ p.unit = Len(units) /\ p.element = call.i
  BY DEF Carrying, Following
<1>3. Receive(pkt) = [next |-> (pkt.seq + 1) % U16, gap |-> 0, hurt |-> rx.hurt,
                      frags |-> IF octets # << >> /\ ~ p.y THEN << >> ELSE octets,
                      done |-> IF octets # << >> /\ ~ p.y THEN Append(rx.done, d) ELSE rx.done]
  BY <1>2 DEF Receive
<1>4. /\ p.data # << >> /\ SubSeq(Element, 1, sent) \o p.data = SubSeq(Element, 1, to)
      /\ SubSeq(Element, 1, to) # << >>
      /\ sent = 0 => p.data = SubSeq(Element, 1, to)
  <2> DEFINE c == p.data
             el == Element
  <2>1. IsSeq(el) /\ sent \in Nat /\ to \in Nat /\ sent < to /\ to <= Len(el)
        /\ c = SubSeq(el, sent + 1, to)
    BY <1>1, <1>2
  <2>2. sent = 0 => c = SubSeq(el, 1, to)
    BY <2>1
  <2> HIDE DEF c, el, to, sent
  <2>3. /\ c # << >> /\ SubSeq(el, 1, sent) \o c = SubSeq(el, 1, to)
        /\ SubSeq(el, 1, to) # << >>
    BY <2>1, NextChunk
  <2> QED
    BY <2>2, <2>3 DEF c, el
<1>5. joins => rx.gap = 0
  BY <1>2, AppendedNext DEF SenderInv, SenderTypeOK
<1>6. /\ octets = << >> \/ octets = SubSeq(Element, 1, to)
      /\ sent = 0 => octets # << >>
  <2>1. CASE sent = 0
    BY <1>2, <1>4, <2>1
  <2>2. CASE sent # 0 /\ joins
    <3>1. rx.frags = SubSeq(Element, 1, sent)
      BY <1>5, <2>2 DEF Abreast, Element
    <3>2. octets = SubSeq(Element, 1, sent) \o p.data
      BY <1>2, <2>2, <3>1
    <3> QED
      BY <1>4, <2>2, <3>2
  <2>3. CASE sent # 0 /\ ~ joins
    BY <1>2, <2>3
  <2> QED
    BY <2>1, <2>2, <2>3
<1>7. rx.frags # << >> /\ rx.gap = 0 => octets # << >>
  <2>1. ASSUME rx.frags # << >>, rx.gap = 0 PROVE joins
    BY <1>2, <2>1, AppendedNext DEF CountsRight, SenderInv, SenderTypeOK
  <2>2. ASSUME joins, sent # 0 PROVE octets # << >>
    <3>1. rx.frags = SubSeq(Element, 1, sent) /\ octets = rx.frags \o p.data
      BY <1>2, <1>5, <2>2 DEF Abreast, Element
    <3> QED
      BY <1>4, <3>1
  <2> QED
    BY <1>6, <2>1, <2>2
<1> HIDE DEF octets, to
<1>8. octets # << >> /\ ~ p.y => d = [unit |-> Len(units), element |-> call.i, octets |-> octets]
  BY <1>2
<1>9. Received(Receive(pkt), call.i, to, octets)
  BY <1>2, <1>3, <1>6, <1>7, <1>8 DEF Received, Element
<1> QED
  BY <1>6, <1>9 DEF to

LEMMA ReceiverTurn ==
  ASSUME SenderInv, ReceiverInv, Sending, units' = units, NEW ret \in {0, -1},
         NEW chunk, NEW p, NEW pkt, Carrying(p, pkt, chunk), Moved(chunk, ret), Transmitted(pkt, ret)
  PROVE  ReceiverInv'
<1> DEFINE i == call.i
           to == call.sent + chunk
<1>1. /\ UnitsOK /\ seq_num \in 0 .. U16 - 1
      /\ Len(units) # 0 /\ i \in 1 .. Unit.n
      /\ call.sent \in Nat /\ to \in Nat /\ call.sent < to /\ to <= Len(Unit.elements[i])
  <2>1. /\ UnitsOK /\ seq_num \in 0 .. U16 - 1
        /\ Len(units) # 0 /\ i \in 1 .. Unit.n /\ call.sent \in Nat
    BY DEF SenderInv, SenderTypeOK, CallOK
  <2>2. chunk \in Nat \ {0} /\ to <= Len(Unit.elements[i])
    BY DEF Carrying, Following
  <2> QED
    BY <2>1, <2>2
<1>2. CountsRight(rx, seq_num) /\ DoneOK(rx.done) /\ Abreast(rx, i, call.sent)
  BY DEF ReceiverInv
<1>3. CASE ret = -1
  <2>1. /\ rx' = rx /\ seq_num' = seq_num /\ call'.stage = "return" /\ call'.ret = -1
    BY <1>3 DEF Moved, Transmitted
  <2>2. CountsRight(rx, seq_num)' /\ DoneOK(rx.done)'
    <3>1. DoneOK(rx.done)'
      BY <1>2, <2>1 DEF DoneOK, IsSeq, Precedes
    <3>2. CountsRight(rx, seq_num)'
      BY <1>2, <2>1 DEF CountsRight
    <3> QED
      BY <3>1, <3>2
  <2> QED
    BY <2>1, <2>2 DEF ReceiverInv, Sending, SuccessMeansDelivered
<1>4. CASE ret = 0
  <2>1. /\ seq_num' = (seq_num + 1) % U16
        /\ rx' = Receive(pkt) \/ (rx.gap < U16 - 1 /\ rx' = Lose(pkt))
    BY <1>4 DEF Transmitted
  <2>2. pkt.seq = seq_num /\ pkt.payload.unit = Len(units)
    BY DEF Carrying, Following
  <2>3. rx.gap \in 0 .. U16 - 1
    BY <1>2 DEF CountsRight
  <2>4. CountsRight(rx', seq_num')
    <3>1. \/ rx'.next = (seq_num + 1) % U16 /\ rx'.gap = 0
          \/ /\ rx'.next = rx.next /\ rx'.gap = rx.gap + 1 /\ rx.gap < U16 - 1
             /\ rx'.frags = rx.frags
      <4>1. CASE rx' = Receive(pkt)
        BY <2>2, <4>1 DEF Receive
      <4>2. CASE rx.gap < U16 - 1 /\ rx' = Lose(pkt)
        BY <4>2 DEF Lose
      <4> QED
        BY <2>1, <4>1, <4>2
    <3> DEFINE q == rx'
    <3>2. \/ q.next = (seq_num + 1) % U16 /\ q.gap = 0
          \/ q.next = rx.next /\ q.gap = rx.gap + 1 /\ rx.gap < U16 - 1 /\ q.frags = rx.frags
      BY <3>1
    <3> HIDE DEF q
    <3>3. CountsRight(q, (seq_num + 1) % U16)
      BY <1>1, <1>2, <3>2, CountsOn
    <3> QED
      BY <2>1, <3>3 DEF q
  <2>5. \/ Lost(rx')
        \/ \E octets : Received(rx', i, to, octets) /\ (call.sent = 0 => octets # << >>)
    <3>1. CASE rx' = Receive(pkt)
      BY <1>2, <3>1, PacketReceived
    <3>2. CASE rx' = Lose(pkt)
      BY <2>2, <2>3, <3>2 DEF Lose, Lost
    <3> QED
      BY <2>1, <3>1, <3>2
  <2>6. /\ DoneOK(rx'.done)
        /\ to # Len(Unit.elements[i]) => Abreast(rx', i, to)
        /\ to = Len(Unit.elements[i]) => Abreast(rx', i + 1, 0)
    <3> DEFINE sent == call.sent
               q == rx'
    <3>1. /\ UnitsOK /\ Len(units) # 0 /\ i \in 1 .. Unit.n
          /\ sent \in Nat /\ to \in Nat /\ sent < to /\ to <= Len(Unit.elements[i])
          /\ DoneOK(rx.done) /\ Abreast(rx, i, sent)
          /\ \/ Lost(q)
             \/ \E octets : Received(q, i, to, octets) /\ (sent = 0 => octets # << >>)
      BY <1>1, <1>2, <2>5
    <3> HIDE DEF i, to, sent, q
    <3>2. /\ DoneOK(q.done)
          /\ to # Len(Unit.elements[i]) => Abreast(q, i, to)
          /\ to = Len(Unit.elements[i]) => Abreast(q, i + 1, 0)
      BY <3>1, KeepsAbreast
    <3> QED
      BY <3>2 DEF q
  <2>7. CountsRight(rx, seq_num)' /\ DoneOK(rx.done)'
    <3>1. DoneOK(rx.done)'
      BY <2>6 DEF DoneOK, IsSeq, Precedes
    <3>2. CountsRight(rx, seq_num)'
      BY <2>4 DEF CountsRight
    <3> QED
      BY <3>1, <3>2
  <2>8. CASE to = Len(Unit.elements[i]) /\ i = Unit.n
    <3>1. call' = [stage |-> "return", ret |-> 0]
      BY <1>4, <2>8 DEF Moved, Element
    <3>2. Abreast(rx', i + 1, 0)
      BY <2>6, <2>8
    <3>3. Len(units) \notin rx'.hurt => Finished(rx'.done, Unit.n)
      <4>1. (i + 1) - 1 = i
        <5>1. Unit.n \in Int
          <6>1. Len(units) \in 1 .. Len(units)
            BY <1>1 DEF UnitsOK, IsSeq
          <6> QED
            BY <1>1, <6>1 DEF UnitsOK, UnitOK, Unit
        <5> QED
          BY <1>1, <5>1
      <4>2. (i + 1) - 1 = Unit.n
        BY <2>8, <4>1
      <4> HIDE DEF i
      <4> QED
        BY <3>2, <4>2 DEF Abreast
    <3>4. SuccessMeansDelivered'
      BY <3>3 DEF SuccessMeansDelivered, Finished, Unit
    <3> QED
      BY <2>7, <3>1, <3>4 DEF ReceiverInv, Sending
  <2>9. CASE ~ (to = Len(Unit.elements[i]) /\ i = Unit.n)
    <3> DEFINE j == IF to = Len(Element) THEN i + 1 ELSE i
               sent == IF to = Len(Element) THEN 0 ELSE to
    <3>1. call' = [stage |-> "send", ts |-> call.ts, i |-> j, sent |-> sent]
      BY <1>4, <2>9 DEF Moved, Element
    <3>2. Abreast(rx', j, sent)
      BY <2>6 DEF Element
    <3> HIDE DEF j, sent
    <3>3. call'.i = j /\ call'.sent = sent /\ call'.stage = "send"
      BY <3>1
    <3>4. Abreast(rx, call.i, call.sent)'
      BY <3>2, <3>3 DEF Abreast, NonePast, Finished, Unit
    <3> QED
      BY <2>7, <3>3, <3>4 DEF ReceiverInv, SuccessMeansDelivered
  <2> QED
    BY <2>8, <2>9
<1> QED
  BY <1>3, <1>4

LEMMA ReceiverCall ==
  ASSUME SenderInv, ReceiverInv, NEW ts \in Timestamps, NEW tu \in TemporalUnits, NEW cut \in Nat,
         NEW is_new_cvs \in BOOLEAN, Call(ts, tu, cut, is_new_cvs)
  PROVE  ReceiverInv'
<1>1. /\ Len(units') = Len(units) + 1 /\ Len(units) \in Nat
      /\ \A k \in 1 .. Len(units) : units'[k] = units[k]
      /\ UNCHANGED <<wire, seq_num, rx>>
      /\ LET u == units'[Len(units')]
         IN  IF u.n <= 0 THEN call' = [stage |-> "return", ret |-> u.n]
             ELSE call' = [stage |-> "send", ts |-> ts, i |-> 1, sent |-> 0]
  BY SenderCall
<1>2. CountsRight(rx, seq_num) /\ DoneOK(rx.done)
  BY DEF ReceiverInv
<1>3. CountsRight(rx, seq_num)'
  BY <1>1, <1>2 DEF CountsRight
<1>4. IsSeq(rx.done)' /\ Len(rx.done) \in Nat /\ rx' = rx
  BY <1>1, <1>2 DEF DoneOK, IsSeq
<1>5. ASSUME NEW k \in 1 .. Len(rx.done)
      PROVE  /\ rx.done[k].unit \in 1 .. Len(units)
             /\ rx.done[k].unit \in 1 .. Len(units')
             /\ units'[rx.done[k].unit] = units[rx.done[k].unit]
             /\ rx.done[k].element \in 1 .. units[rx.done[k].unit].n
             /\ rx.done[k].octets = units[rx.done[k].unit].elements[rx.done[k].element]
             /\ rx.done[k].unit < Len(units')
  <2>1. rx.done[k].unit \in 1 .. Len(units)
    BY <1>2 DEF DoneOK
  <2> QED
    BY <1>1, <1>2, <2>1 DEF DoneOK
<1>6. DoneOK(rx.done)'
  <2>1. \A k \in 1 .. Len(rx.done) - 1 : Precedes(rx.done[k], rx.done[k + 1])
    BY <1>2 DEF DoneOK
  <2>2. (\A k \in 1 .. Len(rx.done) - 1 : Precedes(rx.done[k], rx.done[k + 1]))'
    BY <1>4, <2>1 DEF Precedes
  <2> QED
    BY <1>4, <1>5, <2>2 DEF DoneOK
<1>7. (\A m \in {0} : Finished(rx.done, m))'
  BY <1>4 DEF Finished
<1> DEFINE n == units'[Len(units')].n
<1>8. CASE n <= 0
  <2>1. call' = [stage |-> "return", ret |-> n]
    BY <1>1, <1>8
  <2>2. SuccessMeansDelivered'
    <3> SUFFICES ASSUME n = 0 PROVE SuccessMeansDelivered'
      BY <2>1 DEF SuccessMeansDelivered
    <3> QED
      BY <1>4 DEF SuccessMeansDelivered
  <2> QED
    BY <1>3, <1>6, <2>1, <2>2 DEF ReceiverInv, Sending
<1>9. CASE ~ (n <= 0)
  <2>1. call' = [stage |-> "send", ts |-> ts, i |-> 1, sent |-> 0]
    BY <1>1, <1>9
  <2>2. Abreast(rx, call.i, call.sent)'
    <3>1. NonePast(rx.done, call.i)'
      BY <1>4, <1>5 DEF NonePast
    <3>2. call'.i - 1 = 0 /\ call'.sent = 0
      BY <2>1
    <3>3. Finished(rx.done, call.i - 1)'
      BY <1>4, <3>2 DEF Finished
    <3> QED
      BY <3>1, <3>2, <3>3 DEF Abreast
  <2> QED
    BY <1>3, <1>6, <2>1, <2>2 DEF ReceiverInv, SuccessMeansDelivered
<1> QED
  BY <1>8, <1>9

LEMMA ReceiverKeeps ==
  ASSUME ReceiverInv, UNCHANGED <<seq_num, units, rx>>, call' = call \/ call' = Idle
  PROVE  ReceiverInv'
<1>1. CountsRight(rx, seq_num)' /\ DoneOK(rx.done)'
  <2>1. CountsRight(rx, seq_num)'
    BY DEF ReceiverInv, CountsRight
  <2>2. DoneOK(rx.done)'
    BY DEF ReceiverInv, DoneOK, IsSeq, Precedes
  <2> QED
    BY <2>1, <2>2
<1>2. CASE call' = call
  <2>1. Sending => Abreast(rx, call.i, call.sent)'
    BY <1>2 DEF ReceiverInv, Abreast, NonePast, Finished, Unit
  <2>2. SuccessMeansDelivered'
    BY <1>2 DEF ReceiverInv, SuccessMeansDelivered
  <2>3. Sending' = Sending
    BY <1>2 DEF Sending
  <2> QED
    BY <1>1, <2>1, <2>2, <2>3 DEF ReceiverInv
<1>3. CASE call' = Idle
  BY <1>1, <1>3 DEF ReceiverInv, Sending, SuccessMeansDelivered, Idle
<1> QED
  BY <1>2, <1>3

LEMMA ReceiverInit == Av1Init => ReceiverInv
<1> SUFFICES ASSUME Av1Init PROVE ReceiverInv
  OBVIOUS
<1>1. /\ rx.next = -1 /\ rx.gap = 0 /\ rx.frags = << >> /\ rx.done = << >>
      /\ call.stage = "idle"
  BY DEF Av1Init, RxInit, Idle
<1>2. Len(rx.done) = 0 /\ IsSeq(rx.done)
  <2>1. << >> \in Seq({})
    OBVIOUS
  <2>2. IsSeq(<< >>)
    BY <2>1, IsSeqOf
  <2> QED
    BY <1>1, <2>2
<1>3. CountsRight(rx, seq_num)
  BY <1>1, WidthAssumption DEF CountsRight
<1>4. DoneOK(rx.done)
  BY <1>2 DEF DoneOK
<1> QED
  BY <1>1, <1>3, <1>4 DEF ReceiverInv, Sending, SuccessMeansDelivered

LEMMA ReceiverStep == SenderInv /\ ReceiverInv /\ [Av1Next]_av1Vars => ReceiverInv'
<1> SUFFICES ASSUME SenderInv, ReceiverInv, [Av1Next]_av1Vars PROVE ReceiverInv'
  OBVIOUS
<1>1. ASSUME NEW ts \in Timestamps, NEW tu \in TemporalUnits, NEW is_new_cvs \in BOOLEAN,
             NEW cut \in 0 .. Len(Encode(0, tu)), Call(ts, tu, cut, is_new_cvs)
      PROVE  ReceiverInv'
  <2>1. cut \in Nat
    OBVIOUS
  <2> QED
    BY <1>1, <2>1, ReceiverCall
<1>2. ASSUME NEW ret \in {0, -1}, SendChunk(ret)
      PROVE  ReceiverInv'
  <2>1. SenderTypeOK /\ Sending /\ units' = units
    BY <1>2 DEF SenderInv, SendChunk, Sending
  <2>2. PICK chunk, p, pkt : Carrying(p, pkt, chunk) /\ Moved(chunk, ret) /\ Transmitted(pkt, ret)
    BY <1>2, <2>1, TurnOfLoop
  <2> QED
    BY <1>2, <2>1, <2>2, ReceiverTurn
<1>3. CASE Return
  BY <1>3, ReceiverKeeps DEF Return, rtpVars
<1>4. CASE UNCHANGED av1Vars
  BY <1>4, ReceiverKeeps DEF av1Vars, rtpVars
<1> QED
  BY <1>1, <1>2, <1>3, <1>4 DEF Av1Next

LEMMA ReceiverInvariant == Av1Spec => []ReceiverInv
BY SenderInvariant, ReceiverInit, ReceiverStep, PTL DEF Av1Spec

(* ElementsDeliveredWhole, whatever the network loses and whichever packet *)
(* the transport refuses: what a receiver finishes are elements the caller *)
(* handed over, whole, each at most once and in order.                     *)
THEOREM ElementsAreDeliveredWhole == Av1Spec => []ElementsDeliveredWhole
<1>1. ReceiverInv => ElementsDeliveredWhole
  BY DEF ReceiverInv, DoneOK, ElementsDeliveredWhole
<1> QED
  BY <1>1, ReceiverInvariant, PTL

(* SuccessMeansDelivered: a call that answered 0 and lost no packet has    *)
(* delivered every element of its unit.                                    *)
THEOREM UnitSuccessIsDelivery == Av1Spec => []SuccessMeansDelivered
<1>1. ReceiverInv => SuccessMeansDelivered
  BY DEF ReceiverInv
<1> QED
  BY <1>1, ReceiverInvariant, PTL

-----------------------------------------------------------------------------
(* Every unit is read back. *)

UnitsRead == \A unit \in 1 .. Len(units) : FromStream(unit, units[unit])

(* A call keeps it so. *)
LEMMA UnitsReadStep ==
  SenderInv /\ UnitsRead /\ [Av1Next]_av1Vars => UnitsRead'
<1> SUFFICES ASSUME SenderInv, UnitsRead, [Av1Next]_av1Vars PROVE UnitsRead'
  OBVIOUS
<1>1. ASSUME NEW ts \in Timestamps, NEW tu \in TemporalUnits, NEW is_new_cvs \in BOOLEAN,
             NEW cut \in 0 .. Len(Encode(0, tu)), Call(ts, tu, cut, is_new_cvs)
      PROVE  UnitsRead'
  <2> DEFINE unit == Len(units) + 1
             parsed == parse_obus(Stream(unit, tu, cut))
             u == [tu |-> tu, cut |-> cut, cvs |-> is_new_cvs,
                   n |-> parsed.n, elements |-> parsed.elements]
  <2>1. units' = Append(units, u) /\ cut \in Nat
    BY <1>1 DEF Call
  <2>2. FromStream(unit, u)
    <3>1. Len(units) \in Nat
      BY DEF SenderInv, SenderTypeOK, UnitsOK, IsSeq
    <3> QED
      BY <1>1, <2>1, <3>1, CallRecords
  <2> HIDE DEF u
  <2>3. IsSeq(units)
    BY DEF SenderInv, SenderTypeOK, UnitsOK
  <2>4. /\ Len(units) \in Nat /\ Len(units') = Len(units) + 1
        /\ \A k \in 1 .. Len(units) : units'[k] = units[k]
        /\ units'[Len(units) + 1] = u
    BY <2>1, <2>3, AppendIs
  <2>5. ASSUME NEW k \in 1 .. Len(units') PROVE FromStream(k, units'[k])
    <3>1. CASE k \in 1 .. Len(units)
      BY <2>4, <3>1 DEF UnitsRead
    <3>2. CASE k = unit
      BY <2>2, <2>4, <3>2
    <3> QED
      BY <2>4, <3>1, <3>2
  <2> QED
    BY <2>5 DEF UnitsRead, FromStream
<1>2. CASE units' = units
  BY <1>2 DEF UnitsRead, FromStream
<1> QED
  BY <1>1, <1>2 DEF Av1Next, SendChunk, Return, av1Vars

(* ParsesBack, for every list of units that fit in memory (UnitsFit) and   *)
(* every cut: what the parser of av1_transport.c makes of the octets are   *)
(* the encoder's OBUs, or nothing.                                         *)
THEOREM UnitsParseBack == Av1Spec => []ParsesBack
<1>1. Av1Init => UnitsRead
  <2>1. Av1Init => units = << >>
    BY DEF Av1Init
  <2>2. Len(<< >>) = 0
    BY NoneIs
  <2> QED
    BY <2>1, <2>2 DEF UnitsRead
<1>2. UnitsRead => ParsesBack
  BY ReadBackIs, ReadBackAll DEF UnitsRead
<1>3. SenderInv /\ UnitsRead /\ [Av1Next]_av1Vars => UnitsRead'
  BY UnitsReadStep
<1> QED
  BY <1>1, <1>2, <1>3, SenderInvariant, PTL DEF Av1Spec
=============================================================================
