------------------------- MODULE RtpTransportProofs -------------------------
(***************************************************************************)
(* Facts that every proof about the RTP sender and what is built on it     *)
(* needs: division with a variable divisor, for the wrapping counters, the *)
(* clock conversion and the chunk arithmetic of the library; the types of  *)
(* what one call computes; the exactness of the conversion from a system   *)
(* clock to RTP timestamps. And the octets of WireHeaders: RTP headers and *)
(* RTCP packets fill exactly the room that is made for them.               *)
(***************************************************************************)
EXTENDS RtpTransport, WireHeaders, SequenceTheorems, WellFoundedInduction, TLAPS

(* Numbers. *)

(* Division with remainder of a natural number. *)
LEMMA DivMod ==
  ASSUME NEW a \in Nat, NEW b \in Nat \ {0}
  PROVE  /\ a \div b \in Nat
         /\ a % b \in 0 .. b - 1
         /\ a = b * (a \div b) + (a % b)
BY SMT

(* Quotient and remainder are unique. *)
LEMMA DivModUnique ==
  ASSUME NEW b \in Nat \ {0}, NEW q \in Nat, NEW r \in 0 .. b - 1
  PROVE  /\ (b * q + r) \div b = q
         /\ (b * q + r) % b = r
BY SMT

(* Multiplication distributes; associates. *)
LEMMA Distribute ==
  ASSUME NEW a \in Int, NEW b \in Int, NEW c \in Int
  PROVE  /\ a * (b + c) = a * b + a * c
         /\ (a + b) * c = a * c + b * c
         /\ (a * b) * c = a * (b * c)
         /\ a * b \in Int
BY SMT

(* A counter may be wrapped at every step or once at the end. *)
LEMMA WrapIncrement ==
  ASSUME NEW n \in Nat, NEW M \in Nat \ {0}
  PROVE  ((n % M) + 1) % M = (n + 1) % M
<1> DEFINE q == n \div M
           r == n % M
<1>1. q \in Nat /\ r \in 0 .. M - 1 /\ n = M * q + r
  BY DivMod
<1> HIDE DEF q, r
<1>2. CASE r + 1 < M
  <2>1. r + 1 \in 0 .. M - 1 /\ n + 1 = M * q + (r + 1)
    BY <1>1, <1>2
  <2>2. (n + 1) % M = r + 1
    BY <2>1, <1>1, DivModUnique
  <2>3. (r + 1) % M = r + 1
    BY <2>1, <1>1
  <2> QED
    BY <2>2, <2>3 DEF r
<1>3. CASE r + 1 = M
  <2>1. n + 1 = M * (q + 1) + 0 /\ q + 1 \in Nat /\ 0 \in 0 .. M - 1
    BY <1>1, <1>3
  <2>2. (n + 1) % M = 0
    BY <2>1, DivModUnique
  <2>3. M % M = 0
    BY DivModUnique, 1 \in Nat, 0 \in 0 .. M - 1, M = M * 1 + 0
  <2> QED
    BY <2>2, <2>3, <1>3 DEF r
<1> QED
  BY <1>1, <1>2, <1>3

(* Scaling seconds and remainder apart loses nothing: the two truncations  *)
(* are the one floor of the whole product.                                 *)
LEMMA SplitScaling ==
  ASSUME NEW t \in Nat, NEW rate \in Nat, NEW U \in Nat \ {0}
  PROVE  (t \div U) * rate + (((t % U) * rate) \div U) = (t * rate) \div U
<1> DEFINE q == t \div U
           r == t % U
           a == r * rate
           d == a \div U
           m == a % U
<1>1. q \in Nat /\ r \in 0 .. U - 1 /\ t = U * q + r
  BY DivMod
<1> HIDE DEF q, r
<1>2. a \in Nat /\ q * rate \in Nat
  BY <1>1
<1>3. t * rate = U * (q * rate) + a
  BY <1>1, Distribute
<1> HIDE DEF a
<1>4. d \in Nat /\ m \in 0 .. U - 1 /\ a = U * d + m
  BY <1>2, DivMod
<1> HIDE DEF d, m
<1>5. t * rate = U * (q * rate + d) + m
  <2> DEFINE p == q * rate
  <2>1. p \in Int /\ d \in Int /\ U \in Int
    BY <1>2, <1>4
  <2>2. U * (p + d) = U * p + U * d
    BY <2>1, Distribute
  <2> HIDE DEF p
  <2>3. t * rate = U * p + a
    BY <1>3 DEF p
  <2>4. t * rate = (U * p + U * d) + m
    <3>1. U * p \in Int /\ U * d \in Int /\ m \in Int
      BY <2>1, <1>4
    <3> QED
      BY <2>3, <1>4, <3>1
  <2> QED
    BY <2>2, <2>4 DEF p
<1>6. q * rate + d \in Nat
  BY <1>2, <1>4
<1>7. (t * rate) \div U = q * rate + d
  BY <1>4, <1>5, <1>6, DivModUnique
<1> QED
  BY <1>7 DEF q, r, a, d

(* The same for integers: quotient and remainder are unique. *)
LEMMA IntDivModUnique ==
  ASSUME NEW b \in Nat \ {0}, NEW q \in Int, NEW r \in 0 .. b - 1
  PROVE  (b * q + r) % b = r
BY SMT

LEMMA IntDivMod ==
  ASSUME NEW a \in Int, NEW b \in Nat \ {0}
  PROVE  /\ a \div b \in Int
         /\ a % b \in 0 .. b - 1
         /\ a = b * (a \div b) + (a % b)
BY SMT

(* Adding a multiple of the modulus changes nothing. *)
LEMMA ModShift ==
  ASSUME NEW a \in Int, NEW k \in Int, NEW M \in Nat \ {0}
  PROVE  (a + M * k) % M = a % M
<1> DEFINE q == a \div M
           r == a % M
<1>1. q \in Int /\ r \in 0 .. M - 1 /\ a = M * q + r
  BY IntDivMod
<1> HIDE DEF q, r
<1>2. M * (q + k) = M * q + M * k /\ M * q \in Int /\ M * k \in Int
  BY <1>1, Distribute, M \in Int
<1>3. a + M * k = M * (q + k) + r /\ q + k \in Int
  BY <1>1, <1>2
<1>4. (a + M * k) % M = r
  BY <1>1, <1>3, IntDivModUnique
<1> QED
  BY <1>4 DEF r

(* A sum may be wrapped at every term or once at the end. *)
LEMMA WrapAdd ==
  ASSUME NEW a \in Nat, NEW k \in Nat, NEW M \in Nat \ {0}
  PROVE  ((a % M) + k) % M = (a + k) % M
<1> DEFINE q == a \div M
           r == a % M
<1>1. q \in Nat /\ r \in 0 .. M - 1 /\ a = M * q + r
  BY DivMod
<1> HIDE DEF q, r
<1>2. M * q \in Int /\ r + k \in Int /\ q \in Int
  BY <1>1
<1>3. a + k = (r + k) + M * q
  BY <1>1, <1>2
<1>4. ((r + k) + M * q) % M = (r + k) % M
  BY <1>2, ModShift
<1> QED
  BY <1>3, <1>4 DEF r

(* Wrapping by a multiple of the modulus first changes nothing. *)
LEMMA NestedWrap ==
  ASSUME NEW x \in Nat, NEW W \in Nat \ {0}, NEW M \in Nat \ {0}, W % M = 0
  PROVE  (x % W) % M = x % M
<1> DEFINE q == x \div W
           r == x % W
           k == W \div M
<1>1. q \in Nat /\ r \in 0 .. W - 1 /\ x = W * q + r
  BY DivMod
<1>2. k \in Nat /\ W = M * k
  BY DivMod
<1> HIDE DEF q, r, k
<1>3. W * q = M * (k * q) /\ k * q \in Int
  BY <1>1, <1>2, Distribute
<1>4. x = r + M * (k * q)
  BY <1>1, <1>3
<1>5. (r + M * (k * q)) % M = r % M
  <2> DEFINE j == k * q
  <2>1. j \in Int /\ r \in Int
    BY <1>1, <1>3
  <2> HIDE DEF j
  <2>2. (r + M * j) % M = r % M
    BY <2>1, ModShift
  <2> QED
    BY <2>2 DEF j
<1> QED
  BY <1>4, <1>5 DEF r

(* The distance of two wrapped values is the wrapped distance. *)
LEMMA WrapDistance ==
  ASSUME NEW x \in Int, NEW y \in Int, NEW M \in Nat \ {0}
  PROVE  ((y % M) - (x % M)) % M = (y - x) % M
<1> DEFINE p == x \div M
           q == y \div M
           r == x % M
           s == y % M
<1>1. p \in Int /\ r \in 0 .. M - 1 /\ x = M * p + r
  BY IntDivMod
<1>2. q \in Int /\ s \in 0 .. M - 1 /\ y = M * q + s
  BY IntDivMod
<1> HIDE DEF p, q, r, s
<1>3. M * (q - p) = M * q - M * p
  BY <1>1, <1>2
<1>4. y - x = (s - r) + M * (q - p) /\ q - p \in Int /\ s - r \in Int
  BY <1>1, <1>2, <1>3
<1>5. ((s - r) + M * (q - p)) % M = (s - r) % M
  BY <1>4, ModShift
<1> QED
  BY <1>4, <1>5 DEF r, s

(* Rounding two values down moves their distance by less than one. *)
LEMMA FloorDistance ==
  ASSUME NEW x \in Nat, NEW y \in Nat, NEW U \in Nat \ {0}, x <= y
  PROVE  \/ (y \div U) - (x \div U) = ((y - x) \div U)
         \/ (y \div U) - (x \div U) = ((y - x) \div U) + 1
<1> DEFINE p == x \div U
           q == y \div U
           d == (y - x) \div U
           r == x % U
           s == y % U
           e == (y - x) % U
<1>1. p \in Nat /\ r \in 0 .. U - 1 /\ x = U * p + r
  BY DivMod
<1>2. q \in Nat /\ s \in 0 .. U - 1 /\ y = U * q + s
  BY DivMod
<1>3. d \in Nat /\ e \in 0 .. U - 1 /\ y - x = U * d + e
  <2> DEFINE z == y - x
  <2>1. z \in Nat
    OBVIOUS
  <2> HIDE DEF z
  <2>2. /\ z \div U \in Nat
        /\ z % U \in 0 .. U - 1
        /\ z = U * (z \div U) + (z % U)
    BY <2>1, DivMod
  <2> QED
    BY <2>2 DEF z
<1> HIDE DEF p, q, d, r, s, e
<1> DEFINE g == q - p - d
<1>4. g \in Int
  BY <1>1, <1>2, <1>3
<1>5. U * g = U * q - U * p - U * d
  BY <1>1, <1>2, <1>3
<1>6. U * g = e + r - s
  <2> DEFINE a == U * p
             b == U * q
             c == U * d
             h == U * g
  <2>1. a \in Int /\ b \in Int /\ c \in Int /\ h \in Int
    BY <1>1, <1>2, <1>3, <1>4
  <2>2. x = a + r /\ y = b + s /\ y - x = c + e /\ h = b - a - c
    BY <1>1, <1>2, <1>3, <1>5
  <2> HIDE DEF a, b, c, h
  <2>3. h = e + r - s
    BY <1>1, <1>2, <1>3, <2>1, <2>2
  <2> QED
    BY <2>3 DEF h
<1> HIDE DEF g
<1>7. U * g > - U /\ U * g < 2 * U
  BY <1>1, <1>2, <1>3, <1>6
<1>8. g > -1 /\ g < 2
  BY <1>4, <1>7
<1>9. q - p = d + g /\ g \in {0, 1}
  BY <1>1, <1>2, <1>3, <1>4, <1>8 DEF g
<1> QED
  BY <1>9 DEF p, q, d

(* A non-zero offset below the modulus leads to another residue. *)
LEMMA OtherResidue ==
  ASSUME NEW M \in Nat \ {0}, NEW s \in 0 .. M - 1, NEW k \in 0 .. M - 1, (s + k) % M = s
  PROVE  k = 0
<1> DEFINE n == s + k
           q == n \div M
<1>1. n \in Nat
  OBVIOUS
<1> HIDE DEF n
<1>2. q \in Nat /\ n = M * q + s
  BY <1>1, DivMod DEF n
<1> HIDE DEF q
<1> DEFINE m == M * q
<1>3. m \in Nat /\ m = k
  <2>1. m \in Nat
    BY <1>2
  <2> HIDE DEF m
  <2>2. n = m + s
    BY <1>2 DEF m
  <2> QED
    BY <2>1, <2>2 DEF n
<1> HIDE DEF m
<1>4. CASE q = 0
  BY <1>3, <1>4 DEF m
<1>5. CASE q >= 1
  <2>1. M * (q - 1) \in Nat
    BY <1>2, <1>5
  <2>2. M * (q - 1) = M * q - M
    BY <1>2
  <2>3. m >= M
    BY <2>1, <2>2, <1>3 DEF m
  <2> QED
    BY <2>3, <1>3
<1> QED
  BY <1>2, <1>4, <1>5

(* Induction for a set: with 0 and with every successor, all of Nat. *)
LEMMA SetInduction ==
  ASSUME NEW S, 0 \in S, \A n \in Nat : n \in S => n + 1 \in S
  PROVE  Nat \subseteq S
<1> DEFINE T == Nat \ S
           R == OpToRel(<, Nat)
<1>1. SUFFICES ASSUME T # {} PROVE FALSE
  OBVIOUS
<1>2. PICK x \in T : \A y \in T : ~ (<<y, x>> \in R)
  <2>1. IsWellFoundedOn(R, Nat)
    BY NatLessThanWellFounded, Zenon
  <2>2. T \subseteq Nat
    OBVIOUS
  <2> HIDE DEF R, T
  <2> QED
    BY <1>1, <2>1, <2>2, WFMin
<1>3. x \in Nat /\ x \notin S /\ x # 0
  OBVIOUS
<1>4. x - 1 \in Nat /\ x - 1 < x
  BY <1>3
<1>5. <<x - 1, x>> \in R
  BY <1>3, <1>4, Zenon DEF OpToRel
<1>6. x - 1 \in S
  BY <1>2, <1>4, <1>5
<1> QED
  BY <1>3, <1>4, <1>6

-----------------------------------------------------------------------------
(* One call of the sender. *)

(* The conversion and the packet of a call stay within their types. *)
LEMMA TimestampType ==
  ASSUME NEW ts \in Timestamps, clock_rate \in ClockRates, ts_base_us \in TsBases
  PROVE  compute_timestamp(ts) \in 0 .. U32 - 1
<1>1. CASE ts.kind = "Raw"
  BY <1>1, InputAssumption DEF compute_timestamp
<1>2. CASE ts.kind # "Raw"
  <2>1. ts.val \in Nat /\ clock_rate \in Nat /\ ts_base_us \in Nat
    BY <1>2, InputAssumption, WidthAssumption
  <2> DEFINE t == (ts.val + ts_base_us) % U64
             sec == t \div UsPerSec
             us_rem == t % UsPerSec
             part == (us_rem * clock_rate) \div UsPerSec
             ticks == (sec * clock_rate + part) % U64
  <2>2. t \in Nat
    BY <2>1, WidthAssumption, DivMod
  <2> HIDE DEF t
  <2>3. sec \in Nat /\ us_rem \in Nat
    BY <2>2, WidthAssumption, DivMod
  <2> HIDE DEF sec, us_rem
  <2>4. us_rem * clock_rate \in Nat /\ sec * clock_rate \in Nat
    BY <2>1, <2>3
  <2>5. part \in Nat
    BY <2>4, WidthAssumption, DivMod
  <2> HIDE DEF part
  <2>6. ticks \in Nat
    BY <2>4, <2>5, WidthAssumption, DivMod
  <2> HIDE DEF ticks
  <2>7. ticks % U32 \in 0 .. U32 - 1
    BY <2>6, WidthAssumption, DivMod
  <2> QED
    BY <1>2, <2>7 DEF compute_timestamp, ts_from_sys_clock_us, ticks, part, sec, us_rem, t
<1> QED
  BY <1>1, <1>2

LEMMA PacketType ==
  ASSUME TypeOK,
         NEW ts \in Timestamps, NEW marker \in BOOLEAN, NEW payload \in Payloads
  PROVE  PacketOf(ts, marker, payload) \in Packets
BY TimestampType DEF TypeOK, PacketOf, Packets

(* Accounting keeps the struct within its types. *)
LEMMA AccountType ==
  ASSUME TypeOK, NEW pkt \in Packets, NEW ret \in {0, -1}, Account(pkt, ret)
  PROVE  /\ seq_num' \in 0 .. U16 - 1
         /\ pkt_count' \in 0 .. U32 - 1
         /\ octet_count' \in 0 .. U32 - 1
         /\ last_rtp_ts' \in 0 .. U32 - 1
<1>1. CASE ret = -1
  BY <1>1 DEF Account, counters, TypeOK
<1>2. CASE ret = 0
  <2>1. Octets(pkt.payload) \in Nat
    BY InputAssumption DEF Packets, Octets
  <2>2. seq_num + 1 \in Nat /\ pkt_count + 1 \in Nat
        /\ octet_count + Octets(pkt.payload) \in Nat
    BY <2>1 DEF TypeOK
  <2>3. /\ (seq_num + 1) % U16 \in 0 .. U16 - 1
        /\ (pkt_count + 1) % U32 \in 0 .. U32 - 1
        /\ (octet_count + Octets(pkt.payload)) % U32 \in 0 .. U32 - 1
    BY <2>2, WidthAssumption, DivMod
  <2>4. pkt.ts \in 0 .. U32 - 1
    BY DEF Packets
  <2> QED
    BY <1>2, <2>3, <2>4 DEF Account
<1> QED
  BY <1>1, <1>2

-----------------------------------------------------------------------------

(* Without the widths, the conversion is one floor of the exact product.   *)
LEMMA ExactTicks ==
  ASSUME NEW time_us \in Nat, NEW rate \in Nat, NEW base \in Nat
  PROVE  ts_from_sys_clock_us(time_us, rate, base)
           = Ticks((time_us + base) % U64, rate) % U32
<1> DEFINE t == (time_us + base) % U64
           whole == (t \div UsPerSec) * rate + (((t % UsPerSec) * rate) \div UsPerSec)
<1>1. t \in Nat
  BY WidthAssumption, DivMod
<1> HIDE DEF t
<1>2. whole = (t * rate) \div UsPerSec
  BY ZenonT(30), <1>1, WidthAssumption, SplitScaling
<1>3. t * rate \in Nat
  BY <1>1
<1>4. whole \in Nat
  BY <1>2, <1>3, WidthAssumption, DivMod
<1>5. ts_from_sys_clock_us(time_us, rate, base) = (whole % U64) % U32
  BY DEF ts_from_sys_clock_us, t
<1> HIDE DEF whole
<1>6. (whole % U64) % U32 = whole % U32
  BY ZenonT(30), <1>4, WidthAssumption, NestedWrap
<1> QED
  BY <1>2, <1>5, <1>6 DEF Ticks, t

(* Two instants between which the 64-bit sum does not wrap are converted   *)
(* to timestamps whose distance is the elapsed time, to within one tick.   *)
LEMMA TickDistance ==
  ASSUME NEW a \in Nat, NEW b \in Nat, NEW rate \in Nat, NEW base \in Nat,
         a <= b, (a + base) \div U64 = (b + base) \div U64
  PROVE  \/ (ts_from_sys_clock_us(b, rate, base) - ts_from_sys_clock_us(a, rate, base)) % U32
              = Ticks(b - a, rate) % U32
         \/ (ts_from_sys_clock_us(b, rate, base) - ts_from_sys_clock_us(a, rate, base)) % U32
              = (Ticks(b - a, rate) + 1) % U32
<1> DEFINE s == a + base
           t == b + base
           u == s % U64
           v == t % U64
           n == s \div U64
<1>0. s \in Nat /\ t \in Nat /\ n = t \div U64
  OBVIOUS
<1>1. u \in Nat /\ n \in Nat /\ s = U64 * n + u
  <2> HIDE DEF s
  <2> QED
    BY <1>0, WidthAssumption, DivMod
<1>2. v \in Nat /\ t = U64 * n + v
  <2> HIDE DEF t, n
  <2>1. t \div U64 = n
    BY <1>0 DEF t, n
  <2> QED
    BY <1>0, <2>1, WidthAssumption, DivMod
<1> HIDE DEF u, v, n
<1>3. v - u = b - a /\ u <= v
  <2> DEFINE m == U64 * n
  <2>1. m \in Int /\ a + base = m + u /\ b + base = m + v
    BY <1>1, <1>2, WidthAssumption
  <2> HIDE DEF m
  <2> QED
    BY <2>1, <1>1, <1>2
<1> DEFINE x == u * rate
           y == v * rate
           z == (b - a) * rate
<1>4. x \in Nat /\ y \in Nat /\ y - x = z /\ x <= y
  <2>1. x \in Nat /\ y \in Nat
    BY <1>1, <1>2
  <2>2. z = (v - u) * rate
    BY <1>3
  <2>3. (v - u) * rate = v * rate - u * rate
    BY <1>1, <1>2
  <2>4. z \in Nat
    BY <1>3
  <2> QED
    BY <2>1, <2>2, <2>3, <2>4
<1>5. Ticks(u, rate) = x \div UsPerSec /\ Ticks(v, rate) = y \div UsPerSec
      /\ Ticks(b - a, rate) = z \div UsPerSec
  BY DEF Ticks
<1> HIDE DEF x, y, z
<1>6. \/ (y \div UsPerSec) - (x \div UsPerSec) = ((y - x) \div UsPerSec)
      \/ (y \div UsPerSec) - (x \div UsPerSec) = ((y - x) \div UsPerSec) + 1
  <2>1. UsPerSec \in Nat \ {0} /\ x \in Nat /\ y \in Nat /\ x <= y
    BY <1>4, WidthAssumption
  <2> QED
    BY <2>1, FloorDistance, Zenon
<1>7. \/ Ticks(v, rate) - Ticks(u, rate) = Ticks(b - a, rate)
      \/ Ticks(v, rate) - Ticks(u, rate) = Ticks(b - a, rate) + 1
  BY <1>4, <1>5, <1>6
<1>8. Ticks(u, rate) \in Int /\ Ticks(v, rate) \in Int
  BY <1>4, <1>5, WidthAssumption, DivMod
<1>9. ((Ticks(v, rate) % U32) - (Ticks(u, rate) % U32)) % U32
        = (Ticks(v, rate) - Ticks(u, rate)) % U32
  BY <1>8, WidthAssumption, WrapDistance
<1>10. /\ ts_from_sys_clock_us(a, rate, base) = Ticks(u, rate) % U32
       /\ ts_from_sys_clock_us(b, rate, base) = Ticks(v, rate) % U32
  BY ExactTicks DEF u, v, s, t
<1> QED
  BY <1>7, <1>9, <1>10

-----------------------------------------------------------------------------

(* Taking the last packet off and putting it back. *)
LEMMA FrontAppend ==
  ASSUME NEW S, NEW s \in Seq(S), NEW e \in S
  PROVE  /\ SubSeq(Append(s, e), 1, Len(Append(s, e)) - 1) = s
         /\ s # << >> => Append(SubSeq(s, 1, Len(s) - 1), s[Len(s)]) = s
         /\ s # << >> => Len(SubSeq(s, 1, Len(s) - 1)) = Len(s) - 1
<1>1. /\ Len(Append(s, e)) - 1 = Len(s)
      /\ SubSeq(Append(s, e), 1, Len(s)) \in Seq(S)
      /\ Len(SubSeq(Append(s, e), 1, Len(s))) = Len(s)
      /\ \A i \in 1 .. Len(s) : SubSeq(Append(s, e), 1, Len(s))[i] = s[i]
  BY SMT
<1>2. SubSeq(Append(s, e), 1, Len(s)) = s
  BY <1>1, SeqEqual
<1>3. ASSUME s # << >>
      PROVE  /\ Len(SubSeq(s, 1, Len(s) - 1)) = Len(s) - 1
             /\ Append(SubSeq(s, 1, Len(s) - 1), s[Len(s)]) = s
  <2> DEFINE f == SubSeq(s, 1, Len(s) - 1)
             a == Append(f, s[Len(s)])
  <2>1. /\ Len(s) \in Nat \ {0}
        /\ s[Len(s)] \in S
        /\ f \in Seq(S)
        /\ Len(f) = Len(s) - 1
        /\ \A i \in 1 .. Len(s) - 1 : f[i] = s[i]
    <3>1. Len(s) \in Nat \ {0} /\ \A i \in 1 .. Len(s) : s[i] \in S
      BY <1>3, EmptySeq, ElementOfSeq
    <3>2. 1 \in Int /\ Len(s) - 1 \in Int /\ \A i \in 1 .. Len(s) - 1 : s[i] \in S
      BY <3>1
    <3>3. /\ f \in Seq(S)
          /\ Len(f) = IF 1 <= Len(s) - 1 THEN (Len(s) - 1) - 1 + 1 ELSE 0
          /\ \A i \in 1 .. (Len(s) - 1) - 1 + 1 : f[i] = s[1 + i - 1]
      BY <3>2, SubSeqProperties
    <3> HIDE DEF f
    <3>4. Len(f) = Len(s) - 1
      <4> DEFINE n == Len(s)
      <4>1. n \in Nat \ {0} /\ Len(f) = IF 1 <= n - 1 THEN (n - 1) - 1 + 1 ELSE 0
        BY <3>1, <3>3
      <4> HIDE DEF n
      <4>2. Len(f) = n - 1
        BY <4>1
      <4> QED
        BY <4>2 DEF n
    <3>5. \A i \in 1 .. Len(s) - 1 : f[i] = s[i]
      BY <3>1, <3>3
    <3> QED
      BY <3>1, <3>3, <3>4, <3>5
  <2> HIDE DEF f
  <2>2. /\ a \in Seq(S)
        /\ Len(a) = Len(s)
        /\ \A i \in 1 .. Len(s) : a[i] = s[i]
    BY <2>1
  <2>3. a = s
    BY <2>2, SeqEqual
  <2> QED
    BY <2>1, <2>3 DEF f
<1> QED
  BY <1>1, <1>2, <1>3

-----------------------------------------------------------------------------
(* The octets of RTP headers and RTCP packets: each fills exactly the room *)
(* that is made for it, for every header and every text.                   *)

(* A flag is one bit.                                                      *)
LEMMA BitRange == ASSUME NEW b \in BOOLEAN PROVE Bit(b) \in 0 .. 1
BY DEF Bit

(* Octets behind octets: nothing moves, lengths add up.                    *)
LEMMA Joined ==
  ASSUME NEW s \in Seq(Octet), NEW t \in Seq(Octet)
  PROVE  /\ s \o t \in Seq(Octet)
         /\ Len(s \o t) = Len(s) + Len(t)
         /\ \A i \in 1 .. Len(s) : (s \o t)[i] = s[i]
         /\ \A i \in 1 .. Len(t) : (s \o t)[Len(s) + i] = t[i]
OBVIOUS

(* Fields of bits are read back from the octet they share.                 *)
LEMMA FirstOctet ==
  ASSUME NEW v \in 0 .. 3, NEW p \in 0 .. 1, NEW x \in 0 .. 1, NEW cc \in 0 .. 15
  PROVE  /\ v * 64 + p * 32 + x * 16 + cc \in Octet
         /\ (v * 64 + p * 32 + x * 16 + cc) \div 64 = v
         /\ ((v * 64 + p * 32 + x * 16 + cc) \div 32) % 2 = p
         /\ ((v * 64 + p * 32 + x * 16 + cc) \div 16) % 2 = x
         /\ (v * 64 + p * 32 + x * 16 + cc) % 16 = cc
BY DEF Octet

(* The other one, of the marker and the payload type.                      *)
LEMMA SecondOctet ==
  ASSUME NEW m \in 0 .. 1, NEW pt \in 0 .. 127
  PROVE  /\ m * 128 + pt \in Octet
         /\ (m * 128 + pt) \div 128 = m /\ (m * 128 + pt) % 128 = pt
BY DEF Octet

(* The extensions the size is proved for have less than 2^14 words: the    *)
(* index that copies them has 16 bits (rtp.c:90).                          *)
ExtensionLens == 0 .. 16383

(* Such a length in the two octets of its field.                           *)
LEMMA TwoOctets ==
  ASSUME NEW k \in ExtensionLens
  PROVE  k \in Nat /\ k % 256 \in Octet /\ k \div 256 \in Octet
<1>1. k \in Nat /\ k <= 16383
  BY DEF ExtensionLens
<1>2. k \div 256 \in Nat /\ k % 256 \in 0 .. 255 /\ k = 256 * (k \div 256) + (k % 256)
  BY <1>1, DivMod
<1> QED BY <1>1, <1>2, SMTT(30) DEF Octet

(* A header whose fields have their widths, and as many octets of sources  *)
(* and of extension as it says: SmolRTSP_RtpHeader's fields (rtp.h:20).     *)
RtpHeaderOK(h) ==
  /\ h.version \in 0 .. 3 /\ h.csrc_count \in 0 .. 15 /\ h.payload_ty \in 0 .. 127
  /\ h.extension_payload_len \in ExtensionLens
  /\ h.padding \in BOOLEAN /\ h.extension \in BOOLEAN /\ h.marker \in BOOLEAN
  /\ h.sequence_number \in HalfWords /\ h.timestamp \in Words(1) /\ h.ssrc \in Words(1)
  /\ h.csrc \in Words(h.csrc_count) /\ h.extension_profile \in HalfWords
  /\ h.extension_payload \in Words(h.extension_payload_len)

(* The octets of an RTP header are as many as SmolRTSP_RtpHeader_size says *)
(* for the room its caller makes (rtp_transport.c:136), and the two first  *)
(* let a receiver find the rest.                                           *)
THEOREM RtpHeadersFit == \A h : RtpHeaderOK(h) => RtpHeaderFits(h)
<1> SUFFICES ASSUME NEW h, RtpHeaderOK(h)
             PROVE  RtpHeaderFits(h)
  OBVIOUS
<1> DEFINE v == h.version
           padding == h.padding
           extension == h.extension
           cc == h.csrc_count
           marker == h.marker
           pt == h.payload_ty
           sn == h.sequence_number
           ts == h.timestamp
           ssrc == h.ssrc
           csrc == h.csrc
           profile == h.extension_profile
           n == h.extension_payload_len
           payload == h.extension_payload
<1>a. v \in 0 .. 3 /\ cc \in 0 .. 15 /\ pt \in 0 .. 127 /\ n \in ExtensionLens
  BY Zenon DEF RtpHeaderOK
<1>c. padding \in BOOLEAN /\ extension \in BOOLEAN /\ marker \in BOOLEAN
  BY Zenon DEF RtpHeaderOK
<1>b. /\ sn \in HalfWords /\ ts \in Words(1) /\ ssrc \in Words(1) /\ csrc \in Words(cc)
      /\ profile \in HalfWords /\ payload \in Words(n)
  BY Zenon DEF RtpHeaderOK
<1>0. /\ h.version = v /\ h.padding = padding /\ h.extension = extension
      /\ h.csrc_count = cc /\ h.marker = marker /\ h.payload_ty = pt
      /\ h.sequence_number = sn /\ h.timestamp = ts /\ h.ssrc = ssrc /\ h.csrc = csrc
      /\ h.extension_profile = profile /\ h.extension_payload_len = n
      /\ h.extension_payload = payload
  OBVIOUS
<1>d. n \in Nat
  BY <1>a, TwoOctets
<1> HIDE DEF v, padding, extension, cc, marker, pt, sn, ts, ssrc, csrc, profile, n, payload
<1>1. PICK p \in 0 .. 1, x \in 0 .. 1, m \in 0 .. 1 :
        p = Bit(padding) /\ x = Bit(extension) /\ m = Bit(marker)
  BY <1>c, BitRange
<1> DEFINE first == v * 64 + p * 32 + x * 16 + cc
           second == m * 128 + pt
           start == <<first, second>>
           len == <<n % 256, n \div 256>>
           extended == profile \o len \o payload
           ext == IF extension THEN extended ELSE << >>
           w == start \o sn \o ts \o ssrc \o csrc \o ext
<1>2. /\ first \in Octet /\ first \div 64 = v /\ (first \div 32) % 2 = p
      /\ (first \div 16) % 2 = x /\ first % 16 = cc
      /\ second \in Octet /\ second \div 128 = m /\ second % 128 = pt
  <2>1. /\ first \in Octet /\ first \div 64 = v /\ (first \div 32) % 2 = p
        /\ (first \div 16) % 2 = x /\ first % 16 = cc
    BY <1>a, FirstOctet, SMTT(30)
  <2>2. second \in Octet /\ second \div 128 = m /\ second % 128 = pt
    BY <1>a, SecondOctet, SMTT(30)
  <2> QED BY <2>1, <2>2
<1>3. /\ sn \in Seq(Octet) /\ ts \in Seq(Octet) /\ ssrc \in Seq(Octet) /\ csrc \in Seq(Octet)
      /\ profile \in Seq(Octet) /\ payload \in Seq(Octet)
  BY <1>b, SMTT(30) DEF Words, HalfWords
<1>4. /\ Len(sn) = 2 /\ Len(ts) = 4 /\ Len(ssrc) = 4 /\ Len(csrc) = 4 * cc
      /\ Len(profile) = 2 /\ Len(payload) = 4 * n
  <2>1. Len(sn) = 2 /\ Len(profile) = 2
    BY <1>b, SMTT(60) DEF HalfWords
  <2>2. Len(ts) = 4 /\ Len(ssrc) = 4
    BY <1>b, SMTT(60) DEF Words
  <2>3. Len(csrc) = 4 * cc /\ Len(payload) = 4 * n
    BY <1>b, SMTT(60) DEF Words
  <2> QED BY <2>1, <2>2, <2>3
<1>5. RtpHeader_serialize(h) = w
  <2>1. /\ first = v * 64 + Bit(padding) * 32 + Bit(extension) * 16 + cc
        /\ second = Bit(marker) * 128 + pt
    BY <1>1
  <2> HIDE DEF first, second
  <2> QED BY <1>0, <2>1, SMTT(30) DEF RtpHeader_serialize
<1>6. /\ RtpHeader_size(h) = 12 + 4 * cc + (IF extension THEN 4 + 4 * n ELSE 0)
      /\ h.version = v /\ h.padding = padding /\ h.extension = extension
      /\ h.csrc_count = cc /\ h.marker = marker /\ h.payload_ty = pt
  BY <1>0 DEF RtpHeader_size
<1> HIDE DEF first, second
<1>7. start \in Seq(Octet) /\ Len(start) = 2 /\ start[1] = first /\ start[2] = second
  BY <1>2
<1>8. len \in Seq(Octet) /\ Len(len) = 2
  <2>1. n % 256 \in Octet /\ n \div 256 \in Octet
    BY <1>a, TwoOctets
  <2> QED BY <2>1
<1> HIDE DEF start, len
<1>9. extended \in Seq(Octet) /\ Len(extended) = 4 + 4 * n
  <2>1. extended \in Seq(Octet) /\ Len(extended) = Len(profile) + Len(len) + Len(payload)
    <3>1. len \in Seq(Octet)
      BY <1>8
    <3> QED BY <1>3, <3>1, SMTT(30)
  <2> HIDE DEF extended
  <2> QED BY SMTT(30), <1>d, <1>4, <1>8, <2>1
<1> HIDE DEF extended
<1>10. ext \in Seq(Octet) /\ Len(ext) = IF extension THEN 4 + 4 * n ELSE 0
  BY <1>9
<1> HIDE DEF ext
<1>11. start \in Seq(Octet) /\ ext \in Seq(Octet)
  BY <1>7, <1>10
<1>12. Len(w) = Len(start) + Len(sn) + Len(ts) + Len(ssrc) + Len(csrc) + Len(ext)
  BY <1>3, <1>11
<1>13. \A i \in 1 .. Len(start) : w[i] = start[i]
  BY <1>3, <1>11
<1> HIDE DEF w
<1>14. w[1] = first /\ w[2] = second
  <2>1. 1 \in 1 .. Len(start) /\ 2 \in 1 .. Len(start)
    BY <1>7
  <2> QED BY <1>7, <1>13, <2>1, SMTT(30)
<1>15. Len(w) = RtpHeader_size(h)
  <2>1. Len(w) = 12 + 4 * cc + Len(ext)
    BY <1>a, <1>4, <1>7, <1>12, SMTT(60)
  <2> QED BY <1>a, <1>d, <1>6, <1>10, <2>1, SMTT(60)
<1> QED BY SMTT(30), <1>1, <1>2, <1>5, <1>6, <1>14, <1>15 DEF RtpHeaderFits

-----------------------------------------------------------------------------

(* The beginning of a packet of so many octets, whose length field is n.   *)
Begins(pkt, len, n) ==
  pkt \in Seq(Octet) /\ len \in Nat \ {0, 1, 2, 3} /\ Len(pkt) = len /\ pkt[3] = 0 /\ pkt[4] = n

(* The header all RTCP packets have: the length is read back from it.      *)
LEMMA HeaderBegins ==
  \A padding \in BOOLEAN, sc \in 0 .. 31, pt \in Octet, n \in 0 .. 255 :
    Begins(rtcp_common_header(padding, sc, pt, n), 4, n)
<1> SUFFICES ASSUME NEW padding \in BOOLEAN, NEW sc \in 0 .. 31, NEW pt \in Octet, NEW n \in 0 .. 255
             PROVE  Begins(rtcp_common_header(padding, sc, pt, n), 4, n)
  OBVIOUS
<1>1. PICK p \in 0 .. 1 : p = Bit(padding)
  BY BitRange
<1> DEFINE first == 128 + p * 32 + sc
<1>2. first \in Octet /\ n \in Octet /\ 0 \in Octet
  BY DEF Octet
<1>3. rtcp_common_header(padding, sc, pt, n) = <<first, pt, 0, n>>
  BY <1>1 DEF rtcp_common_header
<1> HIDE DEF first
<1>4. /\ <<first, pt, 0, n>> \in Seq(Octet) /\ Len(<<first, pt, 0, n>>) = 4
      /\ <<first, pt, 0, n>>[3] = 0 /\ <<first, pt, 0, n>>[4] = n
  BY <1>2
<1> QED BY <1>3, <1>4 DEF Begins

(* Padding of zeros is as long as it should be.                            *)
LEMMA ZerosAreOctets ==
  ASSUME NEW n \in Nat
  PROVE  Zeros(n) \in Seq(Octet) /\ Len(Zeros(n)) = n
BY DEF Zeros, Octet

(* It stays what it is whatever follows.                                   *)
LEMMA MoreBehind ==
  \A s, len, n, t : Begins(s, len, n) /\ t \in Seq(Octet) => Begins(s \o t, len + Len(t), n)
<1> SUFFICES ASSUME NEW s, NEW len, NEW n, NEW t, Begins(s, len, n), t \in Seq(Octet)
             PROVE  Begins(s \o t, len + Len(t), n)
  OBVIOUS
<1>1. /\ s \in Seq(Octet) /\ len \in Nat /\ len >= 4 /\ Len(s) = len /\ s[3] = 0 /\ s[4] = n
  BY DEF Begins
<1>2. s \o t \in Seq(Octet) /\ Len(s \o t) = Len(s) + Len(t) /\ Len(t) \in Nat
  BY <1>1, Joined
<1>3. \A i \in 1 .. Len(s) : (s \o t)[i] = s[i]
  BY <1>1, Joined
<1>4. 3 \in 1 .. Len(s) /\ 4 \in 1 .. Len(s)
  BY <1>1
<1>5. (s \o t)[3] = 0 /\ (s \o t)[4] = n
  BY <1>1, <1>3, <1>4
<1>6. len + Len(t) \in Nat /\ len + Len(t) >= 4
  BY <1>1, <1>2
<1> QED BY <1>1, <1>2, <1>5, <1>6 DEF Begins

(* A field of four octets does follow.                                    *)
LEMMA FourMore ==
  \A s, len, n, t : Begins(s, len, n) /\ t \in Words(1) => Begins(s \o t, len + 4, n)
<1> SUFFICES ASSUME NEW s, NEW len, NEW n, NEW t, Begins(s, len, n), t \in Words(1)
             PROVE  Begins(s \o t, len + 4, n)
  OBVIOUS
<1>1. t \in Seq(Octet) /\ Len(t) = 4
  BY DEF Words
<1>2. Begins(s \o t, len + Len(t), n)
  BY <1>1, MoreBehind
<1> QED BY <1>1, <1>2

(* Nor does the length matter but for its value.                           *)
LEMMA MoreOctets ==
  \A s, len, n, t, k : Begins(s, len, n) /\ t \in Seq(Octet) /\ Len(t) = k => Begins(s \o t, len + k, n)
BY MoreBehind

(* What was at a place stays there; what is added starts behind it.        *)
LEMMA Behind ==
  ASSUME NEW s \in Seq(Octet), NEW t \in Seq(Octet)
  PROVE  /\ \A i \in 1 .. Len(s) : (s \o t)[i] = s[i]
         /\ \A i \in 1 .. Len(t) : (s \o t)[Len(s) + i] = t[i]
OBVIOUS

(* A sender report is as long as it says, and as its caller made room for  *)
(* (rtcp.c:38).                                                            *)
THEOREM SenderReportsFit ==
  ASSUME NEW padding \in BOOLEAN, NEW ssrc \in Words(1), NEW ntp_sec \in Words(1),
         NEW ntp_frac \in Words(1), NEW rtp_ts \in Words(1), NEW packets \in Words(1),
         NEW octets \in Words(1)
  PROVE  Fills(RtcpSr_serialize(padding, ssrc, ntp_sec, ntp_frac, rtp_ts, packets, octets),
               RtcpSr_size)
<1> DEFINE p0 == rtcp_common_header(padding, 0, 200, 6)
           p1 == p0 \o ssrc
           p2 == p1 \o ntp_sec
           p3 == p2 \o ntp_frac
           p4 == p3 \o rtp_ts
           p5 == p4 \o packets
           p6 == p5 \o octets
<1>1. RtcpSr_serialize(padding, ssrc, ntp_sec, ntp_frac, rtp_ts, packets, octets) = p6
  <2>1. (RtcpSr_size \div 4) - 1 = 6
    BY DEF RtcpSr_size
  <2> QED BY <2>1 DEF RtcpSr_serialize
<1>2. Begins(p0, 4, 6)
  <2>1. 0 \in 0 .. 31 /\ 200 \in Octet /\ 6 \in 0 .. 255
    BY DEF Octet
  <2> QED BY SMTT(30), <2>1, HeaderBegins
<1> HIDE DEF p0
<1>3. Begins(p1, 8, 6)
  BY <1>2, FourMore
<1> HIDE DEF p1
<1>4. Begins(p2, 12, 6)
  BY <1>3, FourMore
<1> HIDE DEF p2
<1>5. Begins(p3, 16, 6)
  BY <1>4, FourMore
<1> HIDE DEF p3
<1>6. Begins(p4, 20, 6)
  BY <1>5, FourMore
<1> HIDE DEF p4
<1>7. Begins(p5, 24, 6)
  BY <1>6, FourMore
<1> HIDE DEF p5
<1>8. Begins(p6, 28, 6)
  BY <1>7, FourMore
<1> HIDE DEF p6
<1> QED BY <1>1, <1>8 DEF Begins, Fills, RtcpSr_size

(* So is a receiver report (rtcp.c:66).                                    *)
THEOREM ReceiverReportsFit ==
  ASSUME NEW padding \in BOOLEAN, NEW ssrc \in Words(1)
  PROVE  Fills(RtcpRr_serialize(padding, ssrc), RtcpRr_size)
<1> DEFINE p0 == rtcp_common_header(padding, 0, 201, 1)
           p1 == p0 \o ssrc
<1>1. RtcpRr_serialize(padding, ssrc) = p1
  <2>1. (RtcpRr_size \div 4) - 1 = 1
    BY DEF RtcpRr_size
  <2> QED BY <2>1 DEF RtcpRr_serialize
<1>2. Begins(p0, 4, 1)
  <2>1. 0 \in 0 .. 31 /\ 201 \in Octet /\ 1 \in 0 .. 255
    BY DEF Octet
  <2> QED BY SMTT(30), <2>1, HeaderBegins
<1> HIDE DEF p0
<1>3. Begins(p1, 8, 1)
  BY <1>2, FourMore
<1> HIDE DEF p1
<1> QED BY <1>1, <1>3 DEF Begins, Fills, RtcpRr_size

(* A source description is as long as it says, and its only item ends      *)
(* within it, for every name of up to 255 octets (rtcp.c:94).              *)
THEOREM SourceDescriptionsFit ==
  ASSUME NEW padding \in BOOLEAN, NEW ssrc \in Words(1), NEW cname \in Seq(Octet), Len(cname) <= 255
  PROVE  LET pkt == RtcpSdesCname_serialize(padding, ssrc, cname)
         IN  Fills(pkt, RtcpSdesCname_size(cname)) /\ CnameEnds(pkt)
<1> DEFINE L == Len(cname)
           body == 11 + L
           total == RoundUp4(body)
           words == (total \div 4) - 1
           pad == total - body
           item == <<1, L>>
           p0 == rtcp_common_header(padding, 1, 202, words)
           p1 == p0 \o ssrc
           p2 == p1 \o item
           p3 == p2 \o cname
           p4 == p3 \o <<0>>
           p5 == p4 \o Zeros(pad)
<1>1. L \in 0 .. 255 /\ body = 11 + L /\ body \in 4 .. 512
  <2>1. L \in Nat
    OBVIOUS
  <2>2. L <= 255
    OBVIOUS
  <2> HIDE DEF L
  <2> QED BY <2>1, <2>2
<1>2. RtcpSdesCname_serialize(padding, ssrc, cname) = p5 /\ RtcpSdesCname_size(cname) = total
  <2>1. 4 + 4 + 2 + Len(cname) + 1 = 11 + L
    BY <1>1
  <2>2. RtcpSdesCname_size(cname) = total
    BY <2>1 DEF RtcpSdesCname_size
  <2> QED BY <2>2 DEF RtcpSdesCname_serialize
<1>3. cname \in Seq(Octet) /\ Len(cname) = L
  OBVIOUS
<1> HIDE DEF L, body
<1>4. total \in body .. body + 3 /\ total = 4 * (words + 1) /\ words \in 0 .. 255
  <2>1. total = RoundUp4(body) /\ words = (total \div 4) - 1
    OBVIOUS
  <2> HIDE DEF total, words
  <2> QED BY <1>1, <2>1 DEF RoundUp4
<1> HIDE DEF total, words
<1>5. pad \in Nat /\ total = 11 + L + pad
  BY <1>1, <1>4
<1> HIDE DEF pad
<1>6. item \in Seq(Octet) /\ Len(item) = 2 /\ item[2] = L
  <2>1. L \in Octet /\ 1 \in Octet
    BY <1>1 DEF Octet
  <2> QED BY <2>1, SMTT(30)
<1> HIDE DEF item
<1>7. Begins(p0, 4, words)
  <2>1. 1 \in 0 .. 31 /\ 202 \in Octet
    BY DEF Octet
  <2> QED BY <1>4, <2>1, HeaderBegins, ZenonT(30)
<1> HIDE DEF p0
<1>8. Begins(p1, 8, words)
  <2>1. Begins(p1, 4 + 4, words)
    BY <1>7, FourMore, Zenon
  <2> QED BY <2>1
<1> HIDE DEF p1
<1>9. Begins(p2, 10, words)
  <2>1. Begins(p2, 8 + 2, words)
    BY <1>6, <1>8, MoreOctets
  <2> QED BY <2>1
<1>10. p2[10] = L
  <2>1. p1 \in Seq(Octet) /\ Len(p1) = 8
    BY <1>8 DEF Begins
  <2>2. 2 \in 1 .. Len(item)
    BY <1>6
  <2>3. p2[Len(p1) + 2] = item[2]
    BY <1>6, <2>1, <2>2, Behind
  <2>4. Len(p1) + 2 = 10
    BY <2>1
  <2> QED BY <1>6, <2>3, <2>4, Zenon
<1> HIDE DEF p2
<1>11. Begins(p3, 10 + L, words)
  BY <1>3, <1>9, MoreOctets
<1>12. p3[10] = L
  <2>1. p2 \in Seq(Octet) /\ Len(p2) = 10
    BY <1>9 DEF Begins
  <2>2. 10 \in 1 .. Len(p2)
    BY <2>1
  <2>3. p3[10] = p2[10]
    BY <1>3, <2>1, <2>2, Behind
  <2> QED BY <1>10, <2>3
<1> HIDE DEF p3
<1>13. <<0>> \in Seq(Octet) /\ Len(<<0>>) = 1
  <2>1. 0 \in Octet
    BY DEF Octet
  <2> QED BY <2>1
<1>14. Begins(p4, 11 + L, words)
  <2>1. Begins(p4, 10 + L + 1, words)
    BY <1>11, <1>13, MoreOctets
  <2>2. 10 + L + 1 = 11 + L
    BY <1>1
  <2> QED BY <2>1, <2>2
<1>15. p4[10] = L /\ p4[11 + L] = 0
  <2>1. p3 \in Seq(Octet) /\ Len(p3) = 10 + L
    BY <1>11 DEF Begins
  <2>2. 10 \in 1 .. Len(p3)
    BY <1>1, <2>1
  <2>3. p4[10] = p3[10]
    BY <1>13, <2>1, <2>2, Behind
  <2>4. 1 \in 1 .. Len(<<0>>) /\ <<0>>[1] = 0
    BY <1>13
  <2>5. p4[Len(p3) + 1] = <<0>>[1]
    BY <1>13, <2>1, <2>4, Behind
  <2>6. Len(p3) + 1 = 11 + L
    BY <1>1, <2>1
  <2> QED BY <1>12, <2>3, <2>4, <2>5, <2>6
<1> HIDE DEF p4
<1>16. Zeros(pad) \in Seq(Octet) /\ Len(Zeros(pad)) = pad
  BY <1>5, ZerosAreOctets
<1>17. Begins(p5, 11 + L + pad, words)
  BY <1>14, <1>16, MoreOctets
<1>18. p5[10] = L /\ p5[11 + L] = 0
  <2>1. p4 \in Seq(Octet) /\ Len(p4) = 11 + L
    BY <1>14 DEF Begins
  <2>2. 10 \in 1 .. Len(p4) /\ 11 + L \in 1 .. Len(p4)
    BY <1>1, <2>1
  <2>3. p5[10] = p4[10] /\ p5[11 + L] = p4[11 + L]
    BY <1>16, <2>1, <2>2, Behind
  <2> QED BY <1>15, <2>3
<1> HIDE DEF p5
<1>19. Len(p5) = total /\ p5[3] = 0 /\ p5[4] = words
  BY <1>5, <1>17 DEF Begins
<1>20. Fills(p5, total)
  BY <1>4, <1>19 DEF Fills
<1>21. CnameEnds(p5)
  BY <1>1, <1>5, <1>18, <1>19 DEF CnameEnds
<1> QED BY <1>2, <1>20, <1>21

(* A BYE packet is as long as it says, and its reason, if it has one, ends *)
(* within it, for every reason of up to 255 octets (rtcp.c:138).           *)
THEOREM GoodbyesFit ==
  ASSUME NEW padding \in BOOLEAN, NEW ssrc \in Words(1), NEW reason \in Seq(Octet), Len(reason) <= 255
  PROVE  LET pkt == RtcpBye_serialize(padding, ssrc, reason)
         IN  Fills(pkt, RtcpBye_size(reason)) /\ ReasonEnds(pkt)
<1> DEFINE L == Len(reason)
           body == 9 + L
           total == IF reason = << >> THEN 8 ELSE RoundUp4(body)
           words == (total \div 4) - 1
           pad == total - body
           item == <<L>>
           p0 == rtcp_common_header(padding, 1, 203, words)
           p1 == p0 \o ssrc
           p2 == p1 \o item
           p3 == p2 \o reason
           p4 == p3 \o Zeros(pad)
<1>1. L \in 0 .. 255 /\ body = 9 + L /\ body \in 4 .. 512
  <2>1. L \in Nat
    OBVIOUS
  <2>2. L <= 255
    OBVIOUS
  <2> HIDE DEF L
  <2> QED BY <2>1, <2>2
<1>2. RtcpBye_size(reason) = total
  <2>1. 4 + 4 + 1 + Len(reason) = body
    BY <1>1
  <2> QED BY <2>1 DEF RtcpBye_size
<1>3. reason \in Seq(Octet) /\ Len(reason) = L
  OBVIOUS
<1> HIDE DEF L, body
<1>4. /\ reason = << >> => total = 8
      /\ reason # << >> => total \in body .. body + 3
      /\ total = 4 * (words + 1) /\ words \in 0 .. 255
  <2>1. words = (total \div 4) - 1
    OBVIOUS
  <2>2. CASE reason = << >>
    <3>1. total = 8
      BY <2>2
    <3> HIDE DEF total, words
    <3> QED BY <2>1, <2>2, <3>1
  <2>3. CASE reason # << >>
    <3>1. total = RoundUp4(body)
      BY <2>3
    <3> HIDE DEF total, words
    <3> QED BY <1>1, <2>1, <2>3, <3>1 DEF RoundUp4
  <2> QED BY <2>2, <2>3
<1>5. RtcpBye_serialize(padding, ssrc, reason) = p1 \o (IF reason = << >> THEN << >> ELSE item \o reason \o Zeros(pad))
  BY <1>1, <1>2, <1>3 DEF RtcpBye_serialize
<1> HIDE DEF total, words
<1>6. Begins(p0, 4, words)
  <2>1. 1 \in 0 .. 31 /\ 203 \in Octet
    BY DEF Octet
  <2> QED BY <1>4, <2>1, HeaderBegins, ZenonT(30)
<1> HIDE DEF p0
<1>7. Begins(p1, 8, words)
  <2>1. Begins(p1, 4 + 4, words)
    BY <1>6, FourMore, Zenon
  <2> QED BY <2>1
<1> HIDE DEF p1
<1>8. p1 \in Seq(Octet) /\ Len(p1) = 8
  BY <1>7 DEF Begins
<1>9. CASE reason = << >>
  <2>1. RtcpBye_serialize(padding, ssrc, reason) = p1
    BY <1>5, <1>8, <1>9
  <2>2. Len(p1) = total /\ p1[3] = 0 /\ p1[4] = words
    BY <1>4, <1>7, <1>9 DEF Begins
  <2>3. Fills(p1, total)
    BY <1>4, <2>2 DEF Fills
  <2>4. ReasonEnds(p1)
    BY <1>8 DEF ReasonEnds
  <2> QED BY <1>2, <2>1, <2>3, <2>4
<1>10. CASE reason # << >>
  <2>1. pad \in Nat /\ total = body + pad
    BY <1>1, <1>4, <1>10
  <2> HIDE DEF pad
  <2>2. item \in Seq(Octet) /\ Len(item) = 1 /\ item[1] = L
    <3>1. L \in Octet
      BY <1>1 DEF Octet
    <3> QED BY <3>1
  <2> HIDE DEF item
  <2>3. Zeros(pad) \in Seq(Octet) /\ Len(Zeros(pad)) = pad
    BY <2>1, ZerosAreOctets
  <2>4. RtcpBye_serialize(padding, ssrc, reason) = p4
    <3> DEFINE zeros == Zeros(pad)
    <3>1. zeros \in Seq(Octet)
      BY <2>3
    <3>2. RtcpBye_serialize(padding, ssrc, reason) = p1 \o (item \o reason \o zeros)
      BY <1>5, <1>10
    <3> HIDE DEF zeros
    <3>3. p1 \o (item \o reason \o zeros) = p1 \o item \o reason \o zeros
      <4>1. item \o reason \in Seq(Octet)
        BY <1>3, <2>2
      <4>2. p1 \o ((item \o reason) \o zeros) = (p1 \o (item \o reason)) \o zeros
        <5> DEFINE r == item \o reason
        <5>1. p1 \in Seq(Octet)
          BY <1>8
        <5>2. r \in Seq(Octet)
          BY <4>1
        <5>3. \A s, t, u \in Seq(Octet) : s \o (t \o u) = (s \o t) \o u
          BY SMTT(30)
        <5> HIDE DEF r
        <5>4. p1 \o (r \o zeros) = (p1 \o r) \o zeros
          BY <3>1, <5>1, <5>2, <5>3, ZenonT(30)
        <5> QED BY <5>4 DEF r
      <4>3. p1 \o (item \o reason) = (p1 \o item) \o reason
        <5>1. p1 \in Seq(Octet)
          BY <1>8
        <5>2. item \in Seq(Octet)
          BY <2>2
        <5>3. \A s, t, u \in Seq(Octet) : s \o (t \o u) = (s \o t) \o u
          BY SMTT(30)
        <5>4. reason \in Seq(Octet)
          OBVIOUS
        <5> QED BY <5>1, <5>2, <5>3, <5>4, Zenon
      <4> QED BY <4>2, <4>3
    <3> QED BY <3>2, <3>3 DEF zeros
  <2>5. Begins(p2, 9, words)
    <3>1. Begins(p2, 8 + 1, words)
      BY <1>7, <2>2, MoreOctets
    <3> QED BY <3>1
  <2>6. p2[9] = L
    <3>1. 1 \in 1 .. Len(item)
      BY <2>2
    <3>2. p2[Len(p1) + 1] = item[1]
      BY <1>8, <2>2, <3>1, Behind
    <3>3. Len(p1) + 1 = 9
      BY <1>8
    <3> QED BY <2>2, <3>2, <3>3, Zenon
  <2> HIDE DEF p2
  <2>7. Begins(p3, 9 + L, words)
    BY <1>3, <2>5, MoreOctets
  <2>8. p3[9] = L
    <3>1. p2 \in Seq(Octet) /\ Len(p2) = 9
      BY <2>5 DEF Begins
    <3>2. 9 \in 1 .. Len(p2)
      BY <3>1
    <3>3. p3[9] = p2[9]
      BY <1>3, <3>1, <3>2, Behind
    <3> QED BY <2>6, <3>3
  <2> HIDE DEF p3
  <2>9. Begins(p4, 9 + L + pad, words)
    BY <2>3, <2>7, MoreOctets
  <2>10. p4[9] = L
    <3>1. p3 \in Seq(Octet) /\ Len(p3) = 9 + L
      BY <2>7 DEF Begins
    <3>2. 9 \in 1 .. Len(p3)
      BY <1>1, <3>1
    <3>3. p4[9] = p3[9]
      BY <2>3, <3>1, <3>2, Behind
    <3> QED BY <2>8, <3>3
  <2> HIDE DEF p4
  <2>11. Len(p4) = total /\ p4[3] = 0 /\ p4[4] = words
    BY <1>1, <2>1, <2>9 DEF Begins
  <2>12. Fills(p4, total)
    BY <1>4, <2>11 DEF Fills
  <2>13. ReasonEnds(p4)
    BY <1>1, <2>1, <2>10, <2>11 DEF ReasonEnds
  <2> QED BY <1>2, <2>4, <2>12, <2>13
<1> QED BY <1>9, <1>10
=============================================================================
