---------------------------- MODULE ServerProofs ----------------------------
(***************************************************************************)
(* The example server. First its sessions: what is alive and what is       *)
(* freed, for any number of streams, session ids, `Transport' headers and  *)
(* requests, in whatever order requests, timers and the end of the         *)
(* connection come. Then what a stream sends, for any media files.         *)
(***************************************************************************)
EXTENDS Session, ExampleMedia, FiniteSetTheorems, SequenceTheorems, TLAPS

Records == [session_id : SessionIds \cup {0}, transport : Nat, ev : Nat, ctx : Nat]
Transports == [lower : {"TCP", "UDP"}, live : BOOLEAN]
ContextRecords == [transport : Nat, timer : {"armed", "deleted", "ended", "freed"}, i : Nat]

(* The variables stay in their types. *)
SessionTypeOK ==
  /\ stream \in [Streams -> Records]
  /\ transports \in Seq(Transports)
  /\ contexts \in [Streams -> Seq(ContextRecords)]
  /\ requests \in 0 .. MaxRequests
  /\ streams_playing \in Int

(* The record of a stream knows its latest context, and every request made *)
(* at most one. A stream of a session has a transport.                     *)
StreamOK(s) ==
  /\ stream[s].ev = Len(contexts[s]) /\ stream[s].ctx = Len(contexts[s])
  /\ Len(contexts[s]) <= requests
  /\ stream[s].transport <= Len(transports)
  /\ stream[s].session_id # 0 => stream[s].transport # NULL

(* A context has a transport unless its stream was played without one, and *)
(* ends by itself only when it is over.                                    *)
ContextOK(s, k) ==
  /\ contexts[s][k].transport \in 0 .. Len(transports)
  /\ contexts[s][k].transport = NULL => <<s, 0>> \in strays
  /\ contexts[s][k].timer = "ended" => Over(s, k)

RecordsOK ==
  \A s \in Streams : StreamOK(s) /\ \A k \in 1 .. Len(contexts[s]) : ContextOK(s, k)

(* Nothing is freed before the connection ends; then the latest context of *)
(* every stream is.                                                        *)
Alive ==
  IF connection = "open"
  THEN /\ \A t \in 1 .. Len(transports) : transports[t].live
       /\ \A s \in Streams : \A k \in 1 .. Len(contexts[s]) : contexts[s][k].timer # "freed"
  ELSE \A s \in Streams : contexts[s] # << >> => contexts[s][Len(contexts[s])].timer = "freed"

(* Undefined behaviour needs a replaced context, a stream never played, or *)
(* a request that reached a stream never set up.                           *)
UndefinedOnly ==
  loop = "undefined" =>
    \/ connection # "open" /\ \E c \in Contexts : Timer_(c) = "armed" /\ Replaced(c)
    \/ \E s \in Streams : stream[s].transport # NULL /\ contexts[s] = << >>
    \/ strays # {}

(* Streams that were never set up are reached by the session id 0 only. *)
StraysOK == strays \subseteq Streams \X {0}

SessionIInv ==
  /\ SessionTypeOK
  /\ StraysOK
  /\ RecordsOK
  /\ Alive
  /\ FreedExactly
  /\ ClosesWhenPlayedOut
  /\ UndefinedOnly

-----------------------------------------------------------------------------
(* Contexts.                                                               *)

Timers == {"armed", "deleted", "ended", "freed"}

LEMMA SetTimer ==
  ASSUME NEW q \in Seq(ContextRecords), NEW k \in 1 .. Len(q), NEW v \in Timers
  PROVE  LET r == [q EXCEPT ![k].timer = v]
         IN  /\ r \in Seq(ContextRecords)
             /\ Len(r) = Len(q)
             /\ r[k].timer = v /\ r[k].transport = q[k].transport /\ r[k].i = q[k].i
             /\ \A j \in 1 .. Len(q) : j # k => r[j] = q[j]
<1> DEFINE x == [q[k] EXCEPT !.timer = v]
           r == [q EXCEPT ![k] = x]
<1>1. q[k] \in ContextRecords
  BY ElementOfSeq
<1>2. x \in ContextRecords /\ x.timer = v /\ x.transport = q[k].transport /\ x.i = q[k].i
  BY <1>1 DEF ContextRecords, Timers
<1> HIDE DEF x
<1>3. r \in Seq(ContextRecords) /\ Len(r) = Len(q) /\ \A j \in 1 .. Len(q) : r[j] = IF j = k THEN x ELSE q[j]
  BY <1>2, ExceptSeq
<1>4. r = [q EXCEPT ![k].timer = v]
  BY DEF x
<1> QED
  BY <1>2, <1>3, <1>4

LEMMA StreamsFinite ==
  /\ IsFiniteSet(Streams)
  /\ IsFiniteSet(1 .. MaxRequests) /\ MaxRequests \in Nat
  /\ IsFiniteSet(Streams \X (1 .. MaxRequests))
<1>1. IsFiniteSet(Streams)
  BY SessionAssumption, FS_Union DEF Streams
<1>2. IsFiniteSet(1 .. MaxRequests) /\ MaxRequests \in Nat
  BY SessionAssumption, FS_Interval, 1 \in Int
<1> QED
  BY <1>1, <1>2, FS_Product

(* The contexts a table of contexts holds, and those that did not end by   *)
(* themselves.                                                             *)
ContextsIn(cs) == {c \in Streams \X (1 .. MaxRequests) : c[2] \in DOMAIN cs[c[1]]}
RunningIn(cs) == {c \in ContextsIn(cs) : cs[c[1]][c[2]].timer # "ended"}

LEMMA RunningIs ==
  /\ Contexts = ContextsIn(contexts)
  /\ {c \in Contexts : Timer_(c) # "ended"} = RunningIn(contexts)
BY DEF Contexts, ContextsIn, RunningIn, Timer_

LEMMA RunningFinite ==
  ASSUME NEW cs
  PROVE  IsFiniteSet(RunningIn(cs)) /\ Cardinality(RunningIn(cs)) \in Nat
<1>1. RunningIn(cs) \in SUBSET (Streams \X (1 .. MaxRequests))
  BY DEF RunningIn, ContextsIn
<1>2. IsFiniteSet(RunningIn(cs))
  BY <1>1, StreamsFinite, FS_Subset
<1> QED
  BY <1>2, FS_CardinalityType

(* Membership, for a table whose rows are no longer than MaxRequests. *)
LEMMA InContexts ==
  ASSUME NEW cs \in [Streams -> Seq(ContextRecords)],
         \A s \in Streams : Len(cs[s]) <= MaxRequests
  PROVE  /\ \A s \in Streams : \A k \in 1 .. Len(cs[s]) : <<s, k>> \in ContextsIn(cs)
         /\ \A c \in ContextsIn(cs) : /\ c = <<c[1], c[2]>>
                                      /\ c[1] \in Streams /\ c[2] \in 1 .. Len(cs[c[1]])
<1>1. \A s \in Streams : cs[s] \in Seq(ContextRecords) /\ DOMAIN cs[s] = 1 .. Len(cs[s]) /\ Len(cs[s]) \in Nat
  BY LenProperties
<1>2. ASSUME NEW s \in Streams, NEW k \in 1 .. Len(cs[s])
      PROVE  <<s, k>> \in ContextsIn(cs)
  <2>1. k \in 1 .. MaxRequests
    BY <1>1, StreamsFinite
  <2> QED
    BY <1>1, <2>1 DEF ContextsIn
<1>3. ASSUME NEW c \in ContextsIn(cs)
      PROVE  c = <<c[1], c[2]>> /\ c[1] \in Streams /\ c[2] \in 1 .. Len(cs[c[1]])
  BY <1>1 DEF ContextsIn
<1> QED
  BY <1>2, <1>3

(* Rows as long as before hold the same contexts. *)
LEMMA SameContexts ==
  ASSUME NEW cs, NEW ds, \A s \in Streams : DOMAIN cs[s] = DOMAIN ds[s]
  PROVE  ContextsIn(cs) = ContextsIn(ds)
BY DEF ContextsIn

(* The types and what is read off them. *)
LEMMA Rows ==
  ASSUME SessionTypeOK, RecordsOK
  PROVE  /\ \A s \in Streams : /\ contexts[s] \in Seq(ContextRecords)
                               /\ DOMAIN contexts[s] = 1 .. Len(contexts[s])
                               /\ Len(contexts[s]) \in Nat
                               /\ Len(contexts[s]) <= MaxRequests
                               /\ stream[s] \in Records
         /\ Len(transports) \in Nat /\ DOMAIN transports = 1 .. Len(transports)
         /\ requests \in Nat
<1>1. requests \in 0 .. MaxRequests /\ MaxRequests \in Nat
  BY StreamsFinite DEF SessionTypeOK
<1>2. ASSUME NEW s \in Streams
      PROVE  /\ contexts[s] \in Seq(ContextRecords)
             /\ DOMAIN contexts[s] = 1 .. Len(contexts[s])
             /\ Len(contexts[s]) \in Nat
             /\ Len(contexts[s]) <= MaxRequests
             /\ stream[s] \in Records
  <2>1. contexts[s] \in Seq(ContextRecords) /\ stream[s] \in Records
    BY DEF SessionTypeOK
  <2>2. Len(contexts[s]) <= requests
    BY DEF RecordsOK, StreamOK
  <2> QED
    BY <1>1, <2>1, <2>2, LenProperties
<1>3. Len(transports) \in Nat /\ DOMAIN transports = 1 .. Len(transports)
  BY LenProperties DEF SessionTypeOK
<1> QED
  BY <1>1, <1>2, <1>3

(* A step that replaces no context: rows keep their length and transports. *)
LEMMA ShapeKeeps ==
  ASSUME SessionTypeOK, RecordsOK,
         contexts' \in [Streams -> Seq(ContextRecords)],
         \A s \in Streams :
           /\ Len(contexts'[s]) = Len(contexts[s])
           /\ \A k \in 1 .. Len(contexts[s]) :
                /\ contexts'[s][k].transport = contexts[s][k].transport
                /\ contexts'[s][k].timer = "ended" => s \in Finite /\ contexts'[s][k].i = Length,
         stream' = stream,
         transports' \in Seq(Transports), Len(transports') = Len(transports),
         requests' \in requests .. MaxRequests,
         streams_playing' \in Int,
         strays \subseteq strays'
  PROVE  SessionTypeOK' /\ RecordsOK' /\ Contexts' = Contexts
<1>1. requests \in 0 .. MaxRequests /\ requests' \in 0 .. MaxRequests /\ requests <= requests'
      /\ MaxRequests \in Nat
  BY StreamsFinite DEF SessionTypeOK
<1>2. SessionTypeOK'
  BY <1>1 DEF SessionTypeOK
<1>3. ASSUME NEW s \in Streams PROVE StreamOK(s)'
  <2>1. StreamOK(s)
    BY DEF RecordsOK
  <2>2. Len(contexts[s]) \in Nat
    BY Rows
  <2> QED
    BY <1>1, <2>1, <2>2 DEF StreamOK
<1>4. ASSUME NEW s \in Streams, NEW k \in 1 .. Len(contexts'[s]) PROVE ContextOK(s, k)'
  <2>1. k \in 1 .. Len(contexts[s]) /\ ContextOK(s, k)
    BY DEF RecordsOK
  <2> QED
    BY <2>1 DEF ContextOK, Over
<1>5. RecordsOK'
  BY <1>3, <1>4 DEF RecordsOK
<1>6. Contexts' = Contexts
  <2>1. \A s \in Streams : DOMAIN contexts'[s] = DOMAIN contexts[s]
    BY LenProperties DEF SessionTypeOK
  <2> QED
    BY <2>1 DEF Contexts
<1> QED
  BY <1>2, <1>5, <1>6

(* Every stream's last context is where its record says. *)
LEMMA Latest ==
  ASSUME SessionTypeOK, RecordsOK, NEW s \in Streams
  PROVE  /\ stream[s].ctx = Len(contexts[s]) /\ stream[s].ev = Len(contexts[s])
         /\ contexts[s] # << >> <=> stream[s].ctx # NULL
         /\ contexts[s] # << >> <=> stream[s].ev # NULL
         /\ contexts[s] # << >> => Len(contexts[s]) \in 1 .. Len(contexts[s])
<1>1. StreamOK(s) /\ contexts[s] \in Seq(ContextRecords) /\ Len(contexts[s]) \in Nat
  BY Rows DEF RecordsOK
<1>2. contexts[s] = << >> <=> Len(contexts[s]) = 0
  BY <1>1, EmptySeq
<1> QED
  BY <1>1, <1>2 DEF StreamOK, NULL

(* A step that leaves the tables and the connection alone. *)
LEMMA Unmoved ==
  ASSUME SessionIInv,
         UNCHANGED <<stream, transports, contexts, connection, streams_playing>>,
         requests' \in requests .. MaxRequests,
         strays \subseteq strays', StraysOK',
         loop' # "undefined" \/ loop' = loop \/ UndefinedOnly'
  PROVE  SessionIInv'
<1>1. SessionTypeOK /\ RecordsOK
  BY DEF SessionIInv
<1>2. contexts \in [Streams -> Seq(ContextRecords)] /\ transports \in Seq(Transports)
      /\ streams_playing \in Int
  BY <1>1 DEF SessionTypeOK
<1>3. \A s \in Streams : \A k \in 1 .. Len(contexts[s]) :
        contexts[s][k].timer = "ended" => s \in Finite /\ contexts[s][k].i = Length
  BY <1>1 DEF RecordsOK, ContextOK, Over
<1>4. \A s, k : Over(s, k)' = Over(s, k)
  BY DEF Over
<1>5. SessionTypeOK' /\ RecordsOK' /\ Contexts' = Contexts
  BY <1>1, <1>2, <1>3, <1>4, ShapeKeeps
<1>6. Alive'
  BY DEF SessionIInv, Alive
<1>7. FreedExactly'
  BY DEF SessionIInv, FreedExactly
<1>8. ClosesWhenPlayedOut'
  <2>1. ClosesWhenPlayedOut
    BY DEF SessionIInv
  <2> QED
    BY <1>4, <1>5, <2>1 DEF ClosesWhenPlayedOut, Timer_
<1>9. UndefinedOnly'
  <2>1. UndefinedOnly
    BY DEF SessionIInv
  <2> QED
    BY <1>5, <2>1 DEF UndefinedOnly, Timer_, Replaced
<1> QED
  BY <1>5, <1>6, <1>7, <1>8, <1>9 DEF SessionIInv

-----------------------------------------------------------------------------
(* The end of a connection: exactly the latest contexts are freed, with    *)
(* exactly their transports.                                               *)
LEMMA DropFrees ==
  ASSUME SessionIInv, connection = "open", connection' # "open", stream' = stream,
         NEW cs \in [Streams -> Seq(ContextRecords)],
         \A s \in Streams : /\ Len(cs[s]) = Len(contexts[s])
                            /\ \A k \in 1 .. Len(contexts[s]) :
                                 cs[s][k].transport = contexts[s][k].transport,
         Client_drop(cs)
  PROVE  /\ contexts' \in [Streams -> Seq(ContextRecords)]
         /\ \A s \in Streams :
              /\ Len(contexts'[s]) = Len(contexts[s])
              /\ \A k \in 1 .. Len(contexts[s]) :
                   /\ contexts'[s][k].transport = contexts[s][k].transport
                   /\ contexts'[s][k].i = cs[s][k].i
                   /\ contexts'[s][k].timer = IF k = Len(contexts[s]) THEN "freed" ELSE cs[s][k].timer
         /\ transports' \in Seq(Transports) /\ Len(transports') = Len(transports)
         /\ Alive'
         /\ FreedExactly'
<1> DEFINE dropped == {s \in Streams : stream[s].ctx # NULL}
           freed(s) == [cs[s] EXCEPT ![stream[s].ctx].timer = "freed"]
           Dropped(t) == \E s \in dropped : cs[s][stream[s].ctx].transport = t
<1>1. SessionTypeOK /\ RecordsOK /\ Alive
  BY DEF SessionIInv
<1>2. /\ contexts' = [s \in Streams |-> IF s \in dropped THEN freed(s) ELSE cs[s]]
      /\ transports' = [t \in DOMAIN transports |->
           IF Dropped(t) THEN [transports[t] EXCEPT !.live = FALSE] ELSE transports[t]]
  BY DEF Client_drop
<1>3. ASSUME NEW s \in Streams
      PROVE  /\ s \in dropped <=> contexts[s] # << >>
             /\ stream[s].ctx = Len(contexts[s])
             /\ s \in dropped => Len(contexts[s]) \in 1 .. Len(contexts[s])
             /\ cs[s] \in Seq(ContextRecords) /\ Len(contexts[s]) \in Nat
             /\ s \notin dropped => Len(contexts[s]) = 0
  BY <1>1, Latest, Rows DEF NULL
<1>4. ASSUME NEW s \in Streams
      PROVE  /\ contexts'[s] \in Seq(ContextRecords)
             /\ Len(contexts'[s]) = Len(contexts[s])
             /\ \A k \in 1 .. Len(contexts[s]) :
                  /\ contexts'[s][k].transport = contexts[s][k].transport
                  /\ contexts'[s][k].i = cs[s][k].i
                  /\ contexts'[s][k].timer = IF k = Len(contexts[s]) THEN "freed" ELSE cs[s][k].timer
  <2>1. CASE s \in dropped
    <3>1. contexts'[s] = [cs[s] EXCEPT ![Len(cs[s])].timer = "freed"]
      BY <1>2, <1>3, <2>1
    <3>2. Len(cs[s]) \in 1 .. Len(cs[s]) /\ cs[s] \in Seq(ContextRecords) /\ "freed" \in Timers
      BY <1>3, <2>1 DEF Timers
    <3>3. /\ contexts'[s] \in Seq(ContextRecords)
          /\ Len(contexts'[s]) = Len(cs[s])
          /\ LET k == Len(cs[s])
             IN  /\ contexts'[s][k].timer = "freed" /\ contexts'[s][k].transport = cs[s][k].transport
                 /\ contexts'[s][k].i = cs[s][k].i
          /\ \A j \in 1 .. Len(cs[s]) : j # Len(cs[s]) => contexts'[s][j] = cs[s][j]
      BY <3>1, <3>2, SetTimer
    <3> QED
      BY <3>3
  <2>2. CASE s \notin dropped
    <3>1. contexts'[s] = cs[s] /\ Len(contexts[s]) = 0
      BY <1>2, <1>3, <2>2
    <3> QED
      BY <1>3, <3>1
  <2> QED
    BY <2>1, <2>2
<1>5. contexts' \in [Streams -> Seq(ContextRecords)]
  BY <1>2, <1>4
<1>6. transports \in Seq(Transports) /\ Len(transports) \in Nat /\ DOMAIN transports = 1 .. Len(transports)
  BY <1>1, Rows DEF SessionTypeOK
<1>7. /\ transports' \in Seq(Transports) /\ Len(transports') = Len(transports)
      /\ \A t \in 1 .. Len(transports) : ~ transports'[t].live <=> Dropped(t)
  <2>1. ASSUME NEW t \in 1 .. Len(transports)
        PROVE  /\ transports'[t] \in Transports
               /\ ~ transports'[t].live <=> Dropped(t)
    <3>1. transports[t] \in Transports
      BY <1>6, ElementOfSeq
    <3>2. transports[t].live
      BY <1>1 DEF Alive
    <3>3. transports'[t] = IF Dropped(t) THEN [transports[t] EXCEPT !.live = FALSE] ELSE transports[t]
      BY <1>2, <1>6
    <3> QED
      BY <3>1, <3>2, <3>3 DEF Transports
  <2> HIDE DEF Dropped
  <2>2. transports' \in [1 .. Len(transports) -> Transports]
    BY <1>2, <1>6, <2>1
  <2> QED
    BY <1>6, <2>1, <2>2, LenProperties
<1>8. Alive'
  <2>1. ASSUME NEW s \in Streams, contexts'[s] # << >>
        PROVE  contexts'[s][Len(contexts'[s])].timer = "freed"
    <3>1. Len(contexts'[s]) # 0
      BY <1>4, <2>1, EmptySeq
    <3> QED
      BY <1>3, <1>4, <3>1
  <2> QED
    BY <2>1 DEF Alive
<1>9. FreedExactly'
  <2>1. ASSUME NEW t \in 1 .. Len(transports)
        PROVE  Dropped(t) <=> \E s \in Streams : /\ contexts'[s] # << >>
                                                 /\ contexts'[s][Len(contexts'[s])].transport = t
    <3>1. ASSUME NEW s \in Streams
          PROVE  /\ contexts'[s] # << >> <=> s \in dropped
                 /\ s \in dropped => contexts'[s][Len(contexts'[s])].transport = cs[s][stream[s].ctx].transport
      <4>1. contexts'[s] # << >> <=> Len(contexts[s]) # 0
        BY <1>4, EmptySeq
      <4>2. s \in dropped => contexts'[s][Len(contexts[s])].transport = contexts[s][Len(contexts[s])].transport
        BY <1>3, <1>4
      <4> QED
        BY <1>3, <1>4, <4>1, <4>2
    <3> QED
      BY <3>1
  <2>2. DOMAIN transports' = 1 .. Len(transports)
    BY <1>2, <1>6
  <2> HIDE DEF Dropped
  <2>3. ASSUME NEW t \in DOMAIN transports'
        PROVE  ~ transports'[t].live <=> \E s \in Streams : /\ contexts'[s] # << >>
                                                           /\ contexts'[s][Len(contexts'[s])].transport = t
    <3>1. t \in 1 .. Len(transports)
      BY <2>2, <2>3
    <3>2. ~ transports'[t].live <=> Dropped(t)
      BY <1>7, <3>1
    <3> QED
      BY <2>1, <3>1, <3>2, Zenon
  <2> QED
    BY <2>3, Zenon DEF FreedExactly
<1> QED
  BY <1>4, <1>5, <1>7, <1>8, <1>9

(* A drop only stops at an assertion if a stream was played that was never *)
(* set up.                                                                 *)
LEMMA DropAsserts ==
  ASSUME SessionTypeOK, RecordsOK, loop = "running",
         NEW cs,
         \A s \in Streams : \A k \in 1 .. Len(contexts[s]) :
            cs[s][k].transport = contexts[s][k].transport,
         Client_drop(cs), loop' = "undefined"
  PROVE  strays # {}
<1>1. DropsNull(cs)
  BY DEF Client_drop, AfterDrop
<1>2. PICK s \in Streams : stream[s].ctx # NULL /\ cs[s][stream[s].ctx].transport = NULL
  BY <1>1 DEF DropsNull
<1>3. stream[s].ctx = Len(contexts[s]) /\ Len(contexts[s]) \in 1 .. Len(contexts[s])
  BY <1>2, Latest
<1>4. contexts[s][Len(contexts[s])].transport = NULL
  BY <1>2, <1>3
<1> QED
  BY <1>3, <1>4 DEF RecordsOK, ContextOK

LEMMA PeerClosesKeeps ==
  ASSUME SessionIInv, PeerCloses
  PROVE  SessionIInv'
<1>1. /\ connection = "open" /\ connection' = "closed by peer" /\ Client_drop(contexts)
      /\ UNCHANGED <<stream, streams_playing, answers, requests, strays>> /\ loop = "running"
  BY DEF PeerCloses, on_event_cb
<1>2. SessionTypeOK /\ RecordsOK
  BY DEF SessionIInv
<1>3. contexts \in [Streams -> Seq(ContextRecords)] /\ streams_playing \in Int
      /\ requests \in requests .. MaxRequests
  BY <1>2 DEF SessionTypeOK
<1>4. /\ contexts' \in [Streams -> Seq(ContextRecords)]
      /\ \A s \in Streams :
           /\ Len(contexts'[s]) = Len(contexts[s])
           /\ \A k \in 1 .. Len(contexts[s]) :
                /\ contexts'[s][k].transport = contexts[s][k].transport
                /\ contexts'[s][k].i = contexts[s][k].i
                /\ contexts'[s][k].timer = IF k = Len(contexts[s]) THEN "freed" ELSE contexts[s][k].timer
      /\ transports' \in Seq(Transports) /\ Len(transports') = Len(transports)
      /\ Alive'
      /\ FreedExactly'
  BY <1>1, <1>3, DropFrees
<1>5. ASSUME NEW s \in Streams, NEW k \in 1 .. Len(contexts[s]), contexts'[s][k].timer = "ended"
      PROVE  s \in Finite /\ contexts'[s][k].i = Length
  <2>1. ContextOK(s, k)
    BY <1>2 DEF RecordsOK
  <2>2. contexts[s][k].timer = "ended" /\ contexts'[s][k].i = contexts[s][k].i
    BY <1>4, <1>5
  <2> QED
    BY <2>1, <2>2 DEF ContextOK, Over
<1>6. SessionTypeOK' /\ RecordsOK'
  <2>1. requests' \in requests .. MaxRequests /\ streams_playing' \in Int /\ stream' = stream
        /\ strays \subseteq strays'
    BY <1>1, <1>3
  <2> QED
    BY <1>2, <1>4, <1>5, <2>1, ShapeKeeps
<1>7. ClosesWhenPlayedOut'
  BY <1>1 DEF ClosesWhenPlayedOut
<1>8. UndefinedOnly'
  <2>1. loop' = "undefined" => strays # {}
    BY <1>1, <1>2, DropAsserts
  <2> QED
    BY <1>1, <2>1 DEF UndefinedOnly
<1>9. StraysOK'
  BY <1>1 DEF SessionIInv, StraysOK
<1> QED
  BY <1>4, <1>6, <1>7, <1>8, <1>9 DEF SessionIInv

(* One entry of the table of contexts changes. *)
LEMMA SetContextTimer ==
  ASSUME SessionTypeOK, RecordsOK, NEW s \in Streams, NEW k \in 1 .. Len(contexts[s]),
         NEW v \in Timers
  PROVE  LET cs == [contexts EXCEPT ![s][k].timer = v]
         IN  /\ cs \in [Streams -> Seq(ContextRecords)]
             /\ \A r \in Streams :
                  /\ Len(cs[r]) = Len(contexts[r])
                  /\ \A j \in 1 .. Len(contexts[r]) :
                       /\ cs[r][j].transport = contexts[r][j].transport
                       /\ cs[r][j].i = contexts[r][j].i
                       /\ cs[r][j].timer = IF r = s /\ j = k THEN v ELSE contexts[r][j].timer
<1> DEFINE q == [contexts[s] EXCEPT ![k].timer = v]
           cs == [contexts EXCEPT ![s] = q]
<1>1. contexts \in [Streams -> Seq(ContextRecords)] /\ contexts[s] \in Seq(ContextRecords)
  BY DEF SessionTypeOK
<1>2. /\ q \in Seq(ContextRecords) /\ Len(q) = Len(contexts[s])
      /\ q[k].timer = v /\ q[k].transport = contexts[s][k].transport /\ q[k].i = contexts[s][k].i
      /\ \A j \in 1 .. Len(contexts[s]) : j # k => q[j] = contexts[s][j]
  BY <1>1, SetTimer
<1>3. cs = [contexts EXCEPT ![s][k].timer = v]
  BY <1>1
<1> HIDE DEF q
<1>4. cs \in [Streams -> Seq(ContextRecords)]
  BY <1>1, <1>2
<1>5. ASSUME NEW r \in Streams
      PROVE  /\ Len(cs[r]) = Len(contexts[r])
             /\ \A j \in 1 .. Len(contexts[r]) :
                  /\ cs[r][j].transport = contexts[r][j].transport
                  /\ cs[r][j].i = contexts[r][j].i
                  /\ cs[r][j].timer = IF r = s /\ j = k THEN v ELSE contexts[r][j].timer
  <2>1. cs[r] = IF r = s THEN q ELSE contexts[r]
    BY <1>1
  <2> QED
    BY <1>2, <2>1
<1> HIDE DEF cs
<1> QED
  BY <1>3, <1>4, <1>5

(* The last stream to end leaves nothing running, any other one less. *)
LEMMA StreamEndsKeeps ==
  ASSUME SessionIInv, NEW s \in Streams, NEW k \in DOMAIN contexts[s], StreamEnds(s, k)
  PROVE  SessionIInv'
<1> DEFINE cs == [contexts EXCEPT ![s][k].timer = "ended"]
<1>1. /\ contexts[s][k].timer = "armed" /\ loop = "running" /\ Over(s, k) /\ connection = "open"
      /\ streams_playing' = streams_playing - 1
      /\ IF streams_playing' = 0
         THEN connection' = "closed by server" /\ Client_drop(cs)
         ELSE contexts' = cs /\ UNCHANGED <<connection, transports, loop>>
      /\ UNCHANGED <<stream, answers, requests, strays>>
  BY DEF StreamEnds, Fires, Dangling, on_event_cb
<1>2. SessionTypeOK /\ RecordsOK /\ Alive /\ ClosesWhenPlayedOut
  BY DEF SessionIInv
<1>3. contexts \in [Streams -> Seq(ContextRecords)] /\ streams_playing \in Int
      /\ requests \in requests .. MaxRequests /\ k \in 1 .. Len(contexts[s])
      /\ transports \in Seq(Transports)
  BY <1>2, Rows DEF SessionTypeOK
<1>4. /\ cs \in [Streams -> Seq(ContextRecords)]
      /\ \A r \in Streams :
           /\ Len(cs[r]) = Len(contexts[r])
           /\ \A j \in 1 .. Len(contexts[r]) :
                /\ cs[r][j].transport = contexts[r][j].transport
                /\ cs[r][j].i = contexts[r][j].i
                /\ cs[r][j].timer = IF r = s /\ j = k THEN "ended" ELSE contexts[r][j].timer
  BY <1>2, <1>3, SetContextTimer DEF Timers
<1> HIDE DEF cs
<1>5. ASSUME NEW r \in Streams, NEW j \in 1 .. Len(contexts[r]), cs[r][j].timer = "ended"
      PROVE  r \in Finite /\ cs[r][j].i = Length
  <2>1. ContextOK(r, j)
    BY <1>2 DEF RecordsOK
  <2>2. cs[r][j].i = contexts[r][j].i
        /\ ((r = s /\ j = k) \/ contexts[r][j].timer = "ended")
    BY <1>4, <1>5
  <2> QED
    BY <1>1, <2>1, <2>2 DEF ContextOK, Over
<1>5a. /\ stream' = stream /\ requests' \in requests .. MaxRequests /\ streams_playing' \in Int
       /\ strays \subseteq strays' /\ StraysOK'
  <2>1. stream' = stream /\ requests' = requests /\ streams_playing' = streams_playing - 1
        /\ strays' = strays
    BY <1>1
  <2> QED
    BY <1>3, <2>1 DEF SessionIInv, StraysOK
<1>6. /\ RunningIn(cs) = RunningIn(contexts) \ {<<s, k>>}
      /\ <<s, k>> \in RunningIn(contexts)
      /\ ContextsIn(cs) = Contexts
  <2>1. \A r \in Streams : Len(contexts[r]) <= MaxRequests /\ Len(cs[r]) <= MaxRequests
    BY <1>2, <1>4, Rows
  <2>2. /\ \A c \in ContextsIn(contexts) : /\ c = <<c[1], c[2]>> /\ c[1] \in Streams
                                           /\ c[2] \in 1 .. Len(contexts[c[1]])
        /\ <<s, k>> \in ContextsIn(contexts)
    BY <1>3, <2>1, InContexts
  <2>3. ContextsIn(cs) = ContextsIn(contexts)
    <3>1. \A r \in Streams : DOMAIN cs[r] = DOMAIN contexts[r]
      <4>1. ASSUME NEW r \in Streams PROVE DOMAIN cs[r] = DOMAIN contexts[r]
        <5>1. cs[r] \in Seq(ContextRecords) /\ contexts[r] \in Seq(ContextRecords)
          BY <1>3, <1>4
        <5> QED
          BY <1>4, <5>1, LenProperties
      <4> QED
        BY <4>1
    <3> QED
      BY <3>1, SameContexts
  <2>4. \A c \in ContextsIn(contexts) : cs[c[1]][c[2]].timer # "ended"
          <=> contexts[c[1]][c[2]].timer # "ended" /\ c # <<s, k>>
    BY <1>4, <2>2
  <2>5. <<s, k>> \in RunningIn(contexts)
    BY <1>1, <2>2 DEF RunningIn
  <2> QED
    BY <2>3, <2>4, <2>5, RunningIs DEF RunningIn
<1>7. Cardinality(RunningIn(cs)) = streams_playing - 1 /\ Cardinality(RunningIn(cs)) \in Nat
      /\ IsFiniteSet(RunningIn(cs))
  <2>1. streams_playing = Cardinality(RunningIn(contexts))
    BY <1>1, <1>2, RunningIs DEF ClosesWhenPlayedOut
  <2>2. IsFiniteSet(RunningIn(contexts))
    BY RunningFinite
  <2> QED
    BY <1>6, <2>1, <2>2, FS_RemoveElement, RunningFinite
<1>8. CASE streams_playing' = 0
  <2>1. connection' = "closed by server" /\ Client_drop(cs)
    BY <1>1, <1>8
  <2>2. /\ contexts' \in [Streams -> Seq(ContextRecords)]
        /\ \A r \in Streams :
             /\ Len(contexts'[r]) = Len(contexts[r])
             /\ \A j \in 1 .. Len(contexts[r]) :
                  /\ contexts'[r][j].transport = contexts[r][j].transport
                  /\ contexts'[r][j].i = cs[r][j].i
                  /\ contexts'[r][j].timer = IF j = Len(contexts[r]) THEN "freed" ELSE cs[r][j].timer
        /\ transports' \in Seq(Transports) /\ Len(transports') = Len(transports)
        /\ Alive'
        /\ FreedExactly'
    BY <1>1, <1>4, <2>1, DropFrees
  <2>3. ASSUME NEW r \in Streams, NEW j \in 1 .. Len(contexts[r]), contexts'[r][j].timer = "ended"
        PROVE  r \in Finite /\ contexts'[r][j].i = Length
    <3>1. cs[r][j].timer = "ended" /\ contexts'[r][j].i = cs[r][j].i
      BY <2>2, <2>3
    <3> QED
      BY <1>5, <3>1
  <2>4. SessionTypeOK' /\ RecordsOK' /\ Contexts' = Contexts
    BY <1>2, <1>4, <1>5a, <2>2, <2>3, ShapeKeeps
  <2>5. \A c \in Contexts : cs[c[1]][c[2]].timer = "ended"
    <3>1. RunningIn(cs) = {}
      BY <1>1, <1>7, <1>8, FS_EmptySet
    <3> QED
      BY <1>6, <3>1 DEF RunningIn
  <2>6. ASSUME NEW c \in Contexts'
        PROVE  Timer_(c)' = "ended" \/ (Timer_(c)' = "freed" /\ Over(c[1], c[2])')
    <3>1. c \in Contexts /\ c[1] \in Streams /\ c[2] \in 1 .. Len(contexts[c[1]])
      <4>1. \A r \in Streams : Len(contexts[r]) <= MaxRequests
        BY <1>2, Rows
      <4> QED
        BY <1>3, <2>4, <4>1, InContexts, RunningIs
    <3>2. cs[c[1]][c[2]].timer = "ended"
      BY <2>5, <3>1
    <3>3. c[1] \in Finite /\ cs[c[1]][c[2]].i = Length
      BY <1>5, <3>1, <3>2
    <3>4. contexts'[c[1]][c[2]].i = Length
      BY <2>2, <3>1, <3>3
    <3>5. contexts'[c[1]][c[2]].timer = "ended" \/ contexts'[c[1]][c[2]].timer = "freed"
      BY <2>2, <3>1, <3>2
    <3> QED
      BY <3>3, <3>4, <3>5 DEF Timer_, Over
  <2>7. ClosesWhenPlayedOut'
    BY <2>1, <2>6 DEF ClosesWhenPlayedOut
  <2>8. UndefinedOnly'
    <3>1. loop' = "undefined" => strays # {}
      BY <1>1, <1>2, <1>4, <2>1, DropAsserts
    <3> QED
      BY <1>1, <3>1 DEF UndefinedOnly
  <2> QED
    BY <1>5a, <2>2, <2>4, <2>7, <2>8 DEF SessionIInv
<1>9. CASE streams_playing' # 0
  <2>1. contexts' = cs /\ UNCHANGED <<connection, transports, loop>>
    BY <1>1, <1>9
  <2>3. SessionTypeOK' /\ RecordsOK' /\ Contexts' = Contexts
    <3>1. transports' \in Seq(Transports) /\ Len(transports') = Len(transports)
      BY <1>3, <2>1
    <3> QED
      BY <1>2, <1>4, <1>5, <1>5a, <2>1, <3>1, ShapeKeeps
  <2>4. Alive'
    BY <1>1, <1>2, <1>4, <2>1 DEF Alive
  <2>5. FreedExactly'
    BY <1>1, <2>1 DEF FreedExactly
  <2>6. ClosesWhenPlayedOut'
    <3>1. {c \in Contexts' : Timer_(c)' # "ended"} = RunningIn(cs)
      BY <1>6, <2>1, <2>3 DEF RunningIn, Timer_
    <3>2. streams_playing' = Cardinality(RunningIn(cs)) /\ streams_playing' > 0
      BY <1>1, <1>3, <1>7, <1>9
    <3> QED
      BY <1>1, <2>1, <3>1, <3>2 DEF ClosesWhenPlayedOut
  <2>7. UndefinedOnly'
    BY <1>1, <2>1 DEF UndefinedOnly
  <2> QED
    BY <1>5a, <2>3, <2>4, <2>5, <2>6, <2>7 DEF SessionIInv
<1> QED
  BY <1>8, <1>9

-----------------------------------------------------------------------------
(* Steps of an open or closed connection that end and free nothing.        *)

LEMMA QuietKeeps ==
  ASSUME SessionIInv,
         contexts' \in [Streams -> Seq(ContextRecords)],
         \A r \in Streams :
           /\ Len(contexts'[r]) = Len(contexts[r])
           /\ \A j \in 1 .. Len(contexts[r]) :
                /\ contexts'[r][j].transport = contexts[r][j].transport
                /\ contexts'[r][j].timer = "ended" <=> contexts[r][j].timer = "ended"
                /\ contexts'[r][j].timer = "freed" <=> contexts[r][j].timer = "freed"
                /\ contexts[r][j].timer # "armed" => contexts'[r][j].i = contexts[r][j].i,
         UNCHANGED <<stream, transports, connection, streams_playing>>,
         requests' \in requests .. MaxRequests,
         strays \subseteq strays', StraysOK',
         loop' # "undefined"
  PROVE  SessionIInv'
<1>1. SessionTypeOK /\ RecordsOK /\ Alive /\ FreedExactly /\ ClosesWhenPlayedOut
  BY DEF SessionIInv
<1>2. ASSUME NEW s \in Streams, NEW k \in 1 .. Len(contexts[s]), contexts'[s][k].timer = "ended"
      PROVE  s \in Finite /\ contexts'[s][k].i = Length
  <2>1. ContextOK(s, k)
    BY <1>1 DEF RecordsOK
  <2>2. contexts[s][k].timer = "ended" /\ contexts'[s][k].i = contexts[s][k].i
    BY <1>2
  <2> QED
    BY <2>1, <2>2 DEF ContextOK, Over
<1>3. SessionTypeOK' /\ RecordsOK' /\ Contexts' = Contexts
  <2>1. transports' \in Seq(Transports) /\ Len(transports') = Len(transports) /\ streams_playing' \in Int
    BY <1>1 DEF SessionTypeOK
  <2> QED
    BY <1>1, <1>2, <2>1, ShapeKeeps
<1>4. ASSUME NEW s \in Streams
      PROVE  /\ contexts'[s] # << >> <=> contexts[s] # << >>
             /\ contexts[s] # << >> => Len(contexts[s]) \in 1 .. Len(contexts[s])
  <2>1. contexts[s] \in Seq(ContextRecords) /\ contexts'[s] \in Seq(ContextRecords)
    BY <1>1 DEF SessionTypeOK
  <2> QED
    BY <1>1, <2>1, EmptySeq, Latest
<1>5. Alive'
  <2>1. CASE connection = "open"
    BY <1>1, <2>1 DEF Alive
  <2>2. CASE connection # "open"
    <3>1. ASSUME NEW s \in Streams, contexts'[s] # << >>
          PROVE  contexts'[s][Len(contexts'[s])].timer = "freed"
      <4>1. contexts[s][Len(contexts[s])].timer = "freed" /\ Len(contexts[s]) \in 1 .. Len(contexts[s])
        BY <1>1, <1>4, <2>2, <3>1 DEF Alive
      <4> QED
        BY <4>1
    <3> QED
      BY <2>2, <3>1 DEF Alive
  <2> QED
    BY <2>1, <2>2
<1>6. FreedExactly'
  <2>1. ASSUME NEW s \in Streams
        PROVE  /\ contexts'[s] # << >> <=> contexts[s] # << >>
               /\ contexts[s] # << >> =>
                    contexts'[s][Len(contexts'[s])].transport = contexts[s][Len(contexts[s])].transport
    BY <1>4
  <2> QED
    BY <1>1, <2>1 DEF FreedExactly
<1>7. ASSUME NEW c \in Contexts
      PROVE  /\ c[1] \in Streams /\ c[2] \in 1 .. Len(contexts[c[1]])
             /\ Timer_(c)' = "ended" <=> Timer_(c) = "ended"
             /\ Timer_(c)' = "freed" <=> Timer_(c) = "freed"
             /\ Timer_(c) # "armed" => (Over(c[1], c[2])' <=> Over(c[1], c[2]))
  <2>1. \A r \in Streams : Len(contexts[r]) <= MaxRequests
    BY <1>1, Rows
  <2>2. c[1] \in Streams /\ c[2] \in 1 .. Len(contexts[c[1]])
    BY <1>1, <2>1, InContexts, RunningIs DEF SessionTypeOK
  <2> QED
    BY <2>2 DEF Timer_, Over
<1>8. ClosesWhenPlayedOut'
  <2>1. {c \in Contexts' : Timer_(c)' # "ended"} = {c \in Contexts : Timer_(c) # "ended"}
    BY <1>3, <1>7
  <2>2. connection = "closed by server" =>
          \A c \in Contexts' : Timer_(c)' = "ended" \/ (Timer_(c)' = "freed" /\ Over(c[1], c[2])')
    <3>1. ASSUME connection = "closed by server", NEW c \in Contexts
          PROVE  Timer_(c)' = "ended" \/ (Timer_(c)' = "freed" /\ Over(c[1], c[2])')
      <4>1. Timer_(c) = "ended" \/ (Timer_(c) = "freed" /\ Over(c[1], c[2]))
        BY <1>1, <3>1 DEF ClosesWhenPlayedOut
      <4> QED
        BY <1>7, <4>1
    <3> QED
      BY <1>3, <3>1
  <2>3. connection = "open" => streams_playing = Cardinality({c \in Contexts : Timer_(c) # "ended"})
                               /\ (Contexts # {} => streams_playing > 0)
    BY <1>1 DEF ClosesWhenPlayedOut
  <2> QED
    BY <1>3, <2>1, <2>2, <2>3 DEF ClosesWhenPlayedOut
<1>9. UndefinedOnly'
  BY DEF UndefinedOnly
<1> QED
  BY <1>3, <1>5, <1>6, <1>8, <1>9 DEF SessionIInv

(* A packet only counts up its own context, whose timer is armed. *)
LEMMA SendPacketKeeps ==
  ASSUME SessionIInv, NEW s \in Streams, NEW k \in DOMAIN contexts[s], SendPacket(s, k)
  PROVE  SessionIInv'
<1>1. /\ contexts[s][k].timer = "armed" /\ loop = "running"
      /\ contexts' = IF s \in Finite THEN [contexts EXCEPT ![s][k].i = @ + 1] ELSE contexts
      /\ UNCHANGED <<stream, streams_playing, connection, transports, loop, answers, requests, strays>>
  BY DEF SendPacket, Fires
<1>2. SessionTypeOK /\ RecordsOK
  BY DEF SessionIInv
<1>3. contexts \in [Streams -> Seq(ContextRecords)] /\ contexts[s] \in Seq(ContextRecords)
      /\ k \in 1 .. Len(contexts[s])
  BY <1>2, Rows DEF SessionTypeOK
<1>4. requests' \in requests .. MaxRequests /\ strays \subseteq strays' /\ StraysOK'
  BY <1>1, <1>2 DEF SessionTypeOK, SessionIInv, StraysOK
<1>5. CASE s \notin Finite
  BY <1>1, <1>4, <1>5, Unmoved
<1>6. CASE s \in Finite
  <2> DEFINE x == [contexts[s][k] EXCEPT !.i = @ + 1]
             q == [contexts[s] EXCEPT ![k] = x]
  <2>1. contexts' = [contexts EXCEPT ![s] = q]
    BY <1>1, <1>3, <1>6
  <2>2. contexts[s][k] \in ContextRecords
    BY <1>3, ElementOfSeq
  <2>3. x \in ContextRecords /\ x.timer = contexts[s][k].timer /\ x.transport = contexts[s][k].transport
    BY <2>2 DEF ContextRecords
  <2> HIDE DEF x
  <2>4. q \in Seq(ContextRecords) /\ Len(q) = Len(contexts[s])
        /\ \A j \in 1 .. Len(contexts[s]) : q[j] = IF j = k THEN x ELSE contexts[s][j]
    BY <1>3, <2>3, ExceptSeq
  <2> HIDE DEF q
  <2>5. contexts' \in [Streams -> Seq(ContextRecords)]
    BY <1>3, <2>1, <2>4
  <2>6. ASSUME NEW r \in Streams
        PROVE  /\ Len(contexts'[r]) = Len(contexts[r])
               /\ \A j \in 1 .. Len(contexts[r]) :
                    /\ contexts'[r][j].transport = contexts[r][j].transport
                    /\ contexts'[r][j].timer = "ended" <=> contexts[r][j].timer = "ended"
                    /\ contexts'[r][j].timer = "freed" <=> contexts[r][j].timer = "freed"
                    /\ contexts[r][j].timer # "armed" => contexts'[r][j].i = contexts[r][j].i
    <3>1. contexts'[r] = IF r = s THEN q ELSE contexts[r]
      BY <1>3, <2>1
    <3>2. CASE r = s
      BY <1>1, <2>3, <2>4, <3>1, <3>2
    <3>3. CASE r # s
      BY <3>1, <3>3
    <3> QED
      BY <3>2, <3>3
  <2> QED
    BY <1>1, <1>4, <2>5, <2>6, QuietKeeps
<1> QED
  BY <1>5, <1>6

(* A stream without transport has the session id 0, so the history only    *)
(* grows by streams reached with that id.                                  *)
LEMMA ReachKeeps ==
  ASSUME StraysOK, RecordsOK, NEW id, Reach(id)
  PROVE  /\ strays \subseteq strays' /\ StraysOK'
         /\ \A s \in Of(id) : stream[s].transport = NULL => <<s, 0>> \in strays'
<1>1. ASSUME NEW s \in Of(id), stream[s].transport = NULL
      PROVE  s \in Streams /\ s \in Stray(id) /\ id = 0
  <2>1. s \in Streams /\ stream[s].session_id = id
    BY DEF Of
  <2> QED
    BY <1>1, <2>1 DEF Stray, RecordsOK, StreamOK
<1>2. strays' = strays \cup (Stray(id) \X {id})
  BY DEF Reach
<1>3. Stray(id) \X {id} \subseteq Streams \X {0}
  BY <1>1 DEF Stray
<1> QED
  BY <1>1, <1>2, <1>3 DEF StraysOK

(* TEARDOWN disarms the latest timer of each stream of the session. *)
LEMMA TeardownKeeps ==
  ASSUME SessionIInv, NEW id \in SessionIds \cup {Malformed}, Client_teardown(id)
  PROVE  SessionIInv'
<1> DEFINE stopped(s) == [contexts[s] EXCEPT ![stream[s].ev].timer = IF @ = "armed" THEN "deleted" ELSE @]
<1>1. /\ loop = "running" /\ requests' = requests + 1 /\ requests < MaxRequests
      /\ UNCHANGED <<stream, streams_playing, transports, connection>>
      /\ \/ UNCHANGED <<contexts, loop>>
         \/ UNCHANGED contexts /\ \E s \in Of(id) : stream[s].ev = NULL
         \/ /\ \A s \in Of(id) : stream[s].ev # NULL
            /\ contexts' = [s \in Streams |-> IF s \in Of(id) THEN stopped(s) ELSE contexts[s]]
            /\ UNCHANGED loop
      /\ Reach(id)
  BY DEF Client_teardown, Request
<1>2. SessionTypeOK /\ RecordsOK
  BY DEF SessionIInv
<1>3. requests' \in requests .. MaxRequests
  BY <1>1, <1>2, StreamsFinite DEF SessionTypeOK
<1>3a. /\ strays \subseteq strays' /\ StraysOK'
       /\ \A s \in Of(id) : stream[s].transport = NULL => <<s, 0>> \in strays'
  BY <1>1, <1>2, ReachKeeps DEF SessionIInv
<1>4. CASE UNCHANGED <<contexts, loop>>
  BY <1>1, <1>3, <1>3a, <1>4, Unmoved
<1>5. CASE UNCHANGED contexts /\ \E s \in Of(id) : stream[s].ev = NULL
  <2>1. PICK s \in Of(id) : s \in Streams /\ stream[s].ev = NULL
    BY <1>5 DEF Of
  <2>2. contexts[s] = << >>
    BY <1>2, <2>1, Latest
  <2>3. stream[s].transport # NULL \/ strays' # {}
    BY <1>3a, <2>1
  <2>4. UndefinedOnly'
    BY <1>1, <1>5, <2>1, <2>2, <2>3 DEF UndefinedOnly
  <2> QED
    BY <1>1, <1>3, <1>3a, <1>5, <2>4, Unmoved
<1>6. CASE /\ \A s \in Of(id) : stream[s].ev # NULL
           /\ contexts' = [s \in Streams |-> IF s \in Of(id) THEN stopped(s) ELSE contexts[s]]
           /\ UNCHANGED loop
  <2>1. ASSUME NEW s \in Streams
        PROVE  /\ contexts'[s] \in Seq(ContextRecords)
               /\ Len(contexts'[s]) = Len(contexts[s])
               /\ \A j \in 1 .. Len(contexts[s]) :
                    /\ contexts'[s][j].transport = contexts[s][j].transport
                    /\ contexts'[s][j].timer = "ended" <=> contexts[s][j].timer = "ended"
                    /\ contexts'[s][j].timer = "freed" <=> contexts[s][j].timer = "freed"
                    /\ contexts[s][j].timer # "armed" => contexts'[s][j].i = contexts[s][j].i
    <3>1. contexts[s] \in Seq(ContextRecords)
      BY <1>2 DEF SessionTypeOK
    <3>2. CASE s \notin Of(id)
      BY <1>6, <3>1, <3>2
    <3>3. CASE s \in Of(id)
      <4> DEFINE k == Len(contexts[s])
                 v == IF contexts[s][k].timer = "armed" THEN "deleted" ELSE contexts[s][k].timer
      <4>1. stream[s].ev = k /\ k \in 1 .. Len(contexts[s])
        BY <1>2, <1>6, <3>3, Latest
      <4>2. contexts[s][k] \in ContextRecords
        BY <3>1, <4>1, ElementOfSeq
      <4>3. v \in Timers /\ (v = "ended" <=> contexts[s][k].timer = "ended")
            /\ (v = "freed" <=> contexts[s][k].timer = "freed")
        BY <4>2 DEF ContextRecords, Timers
      <4>4. contexts'[s] = [contexts[s] EXCEPT ![k].timer = v]
        <5>1. contexts'[s] = stopped(s)
          BY <1>6, <3>3
        <5> QED
          BY <4>1, <5>1
      <4> HIDE DEF v, k
      <4>5. /\ contexts'[s] \in Seq(ContextRecords)
            /\ Len(contexts'[s]) = Len(contexts[s])
            /\ contexts'[s][k].timer = v /\ contexts'[s][k].transport = contexts[s][k].transport
            /\ contexts'[s][k].i = contexts[s][k].i
            /\ \A j \in 1 .. Len(contexts[s]) : j # k => contexts'[s][j] = contexts[s][j]
        BY <3>1, <4>1, <4>3, <4>4, SetTimer
      <4> QED
        BY <4>3, <4>5
    <3> QED
      BY <3>2, <3>3
  <2>2. contexts' \in [Streams -> Seq(ContextRecords)]
    BY <1>6, <2>1
  <2> QED
    BY <1>1, <1>3, <1>3a, <1>6, <2>1, <2>2, QuietKeeps
<1> QED
  BY <1>1, <1>4, <1>5, <1>6

(* A timer that cannot send belongs to a context played without transport, *)
(* or to one that a later PLAY replaced: the latest one of a stream is     *)
(* freed with the connection.                                              *)
LEMMA UsesFreedKeeps ==
  ASSUME SessionIInv, NEW s \in Streams, NEW k \in DOMAIN contexts[s], UsesFreed(s, k)
  PROVE  SessionIInv'
<1>1. /\ contexts[s][k].timer = "armed" /\ Dangling(s, k)
      /\ UNCHANGED <<stream, streams_playing, connection, transports, contexts, answers, requests, strays>>
  BY DEF UsesFreed, Fires
<1>2. SessionTypeOK /\ RecordsOK /\ Alive /\ StraysOK
  BY DEF SessionIInv
<1>3. k \in 1 .. Len(contexts[s]) /\ Len(contexts[s]) \in Nat /\ <<s, k>> \in Contexts
  BY <1>2, Rows, InContexts, RunningIs DEF SessionTypeOK
<1>4. ContextOK(s, k)
  BY <1>2, <1>3 DEF RecordsOK
<1>5. ASSUME connection = "open" PROVE UndefinedOnly'
  <2>1. contexts[s][k].transport \notin Usable
    BY <1>1, <1>5 DEF Dangling
  <2>2. \A t \in 1 .. Len(transports) : t \in DOMAIN transports /\ transports[t].live
    BY <1>2, <1>5, Rows DEF Alive
  <2>3. \A t \in 1 .. Len(transports) : t \in Usable
    BY <1>5, <2>2 DEF Usable
  <2>4. Len(transports) \in Nat
    BY <1>2, Rows
  <2>5. contexts[s][k].transport = NULL
    BY <1>4, <2>1, <2>3, <2>4 DEF ContextOK, NULL
  <2> QED
    BY <1>1, <1>4, <2>5 DEF ContextOK, UndefinedOnly
<1>6. ASSUME connection # "open" PROVE UndefinedOnly'
  <2>1. contexts[s] # << >>
    BY <1>2, <1>3, Latest, EmptySeq
  <2>2. contexts[s][Len(contexts[s])].timer = "freed"
    BY <1>2, <1>6, <2>1 DEF Alive
  <2>3. k < Len(contexts[s])
    BY <1>1, <1>3, <2>2
  <2>4. Contexts' = Contexts /\ connection' # "open"
    BY <1>1, <1>6 DEF Contexts
  <2>5. Timer_(<<s, k>>)' = "armed" /\ Replaced(<<s, k>>)'
    BY <1>1, <2>3 DEF Timer_, Replaced
  <2> QED
    BY <1>3, <2>4, <2>5 DEF UndefinedOnly
<1>7. UndefinedOnly'
  BY <1>5, <1>6
<1>8. requests' \in requests .. MaxRequests /\ strays \subseteq strays' /\ StraysOK'
  BY <1>1, <1>2 DEF SessionTypeOK, StraysOK
<1> QED
  BY <1>1, <1>7, <1>8, Unmoved

-----------------------------------------------------------------------------
(* SETUP and PLAY, which only happen on an open connection.                *)

(* A transport is of one of the two kinds and alive when it is created. *)
LEMMA NewTransport ==
  ASSUME NEW header, NEW socket,
         setup_transport(parse_transport(header), socket) = << >>
  PROVE  [lower |-> parse_transport(header).lower, live |-> TRUE] \in Transports
<1> DEFINE config == parse_transport(header)
<1>1. config.lower \in {"malformed", "TCP", "UDP"}
  BY DEF parse_transport, parse_lower_transport
<1>2. config.lower # "malformed"
  BY DEF setup_transport
<1> QED
  BY <1>1, <1>2 DEF Transports

LEMMA SetupKeeps ==
  ASSUME SessionIInv, NEW s \in Streams, NEW header, NEW socket,
         NEW session \in SessionIds \cup {Malformed, Absent},
         Client_setup(s, header, session, socket)
  PROVE  SessionIInv'
<1> DEFINE t == Len(transports) + 1
           new == [lower |-> parse_transport(header).lower, live |-> TRUE]
<1>1. /\ loop = "running" /\ connection = "open" /\ requests < MaxRequests /\ requests' = requests + 1
      /\ UNCHANGED <<streams_playing, contexts, loop, connection, strays>>
      /\ \/ UNCHANGED <<stream, transports>>
         \/ /\ transports' = Append(transports, new)
            /\ setup_transport(parse_transport(header), socket) = << >>
            /\ \/ UNCHANGED stream
               \/ \E id \in SessionIds \cup {Absent, Malformed} :
                    /\ session # Malformed
                    /\ id \in IF session = Absent THEN SessionIds ELSE {session}
                    /\ stream' = [stream EXCEPT ![s].session_id = id, ![s].transport = t]
  BY ZenonT(30) DEF Client_setup, Request
<1>2. SessionTypeOK /\ RecordsOK /\ Alive /\ ClosesWhenPlayedOut
  BY DEF SessionIInv
<1>3. requests' \in requests .. MaxRequests /\ requests' \in 0 .. MaxRequests /\ requests \in Nat
  BY <1>1, <1>2, StreamsFinite DEF SessionTypeOK
<1>3a. strays \subseteq strays' /\ StraysOK'
  BY <1>1 DEF SessionIInv, StraysOK
<1>4. CASE UNCHANGED <<stream, transports>>
  BY <1>1, <1>3, <1>3a, <1>4, Unmoved
<1>5. CASE /\ transports' = Append(transports, new)
           /\ new \in Transports
           /\ \/ stream' = stream
              \/ \E id \in SessionIds : stream' = [stream EXCEPT ![s].session_id = id, ![s].transport = t]
  <2>1. Len(transports) \in Nat /\ transports \in Seq(Transports) /\ t \in Nat /\ t # NULL
    BY <1>2, Rows DEF SessionTypeOK, NULL
  <2>2. /\ transports' \in Seq(Transports) /\ Len(transports') = Len(transports) + 1
        /\ transports'[t] = new
        /\ \A u \in 1 .. Len(transports) : transports'[u] = transports[u]
    BY <1>5, <2>1
  <2>3. ASSUME NEW r \in Streams
        PROVE  /\ stream'[r] \in Records
               /\ stream'[r].ev = stream[r].ev /\ stream'[r].ctx = stream[r].ctx
               /\ \/ stream'[r] = stream[r]
                  \/ stream'[r].transport = t
    <3>1. stream[r] \in Records /\ stream \in [Streams -> Records]
      BY <1>2 DEF SessionTypeOK
    <3>2. CASE stream' = stream
      BY <3>1, <3>2
    <3>3. ASSUME NEW id \in SessionIds, stream' = [stream EXCEPT ![s].session_id = id, ![s].transport = t]
          PROVE  stream'[r] = IF r = s THEN [stream[s] EXCEPT !.session_id = id, !.transport = t] ELSE stream[r]
      BY <3>1, <3>3
    <3>4. ASSUME NEW id \in SessionIds, stream' = [stream EXCEPT ![s].session_id = id, ![s].transport = t]
          PROVE  /\ stream'[r] \in Records
                 /\ stream'[r].ev = stream[r].ev /\ stream'[r].ctx = stream[r].ctx
                 /\ \/ stream'[r] = stream[r]
                    \/ stream'[r].transport = t
      BY <2>1, <3>1, <3>3, <3>4 DEF Records
    <3> QED
      BY <1>5, <3>2, <3>4
  <2>4. stream' \in [Streams -> Records]
    <3>1. stream \in [Streams -> Records]
      BY <1>2 DEF SessionTypeOK
    <3>2. DOMAIN stream' = Streams /\ stream' = [r \in Streams |-> stream'[r]]
      BY <1>5, <3>1
    <3> QED
      BY <2>3, <3>2
  <2>5. SessionTypeOK'
    BY <1>1, <1>2, <1>3, <2>2, <2>4 DEF SessionTypeOK
  <2>6. RecordsOK'
    <3>1. ASSUME NEW r \in Streams PROVE StreamOK(r)'
      <4>1. StreamOK(r) /\ Len(contexts[r]) \in Nat /\ stream[r] \in Records
        BY <1>2, Rows DEF RecordsOK
      <4>2. stream'[r].ev = Len(contexts[r]) /\ stream'[r].ctx = Len(contexts[r])
        BY <2>3, <4>1 DEF StreamOK
      <4>3. Len(contexts[r]) <= requests'
        BY <1>1, <1>3, <4>1 DEF StreamOK
      <4>4. stream[r].transport \in Nat /\ stream[r].transport <= Len(transports)
        BY <4>1 DEF StreamOK, Records
      <4>5. stream'[r].transport <= Len(transports')
        BY <2>1, <2>2, <2>3, <4>4
      <4>6. stream'[r].session_id # 0 => stream'[r].transport # NULL
        BY <2>1, <2>3, <4>1 DEF StreamOK
      <4> QED
        BY <1>1, <4>2, <4>3, <4>5, <4>6 DEF StreamOK
    <3>2. ASSUME NEW r \in Streams, NEW k \in 1 .. Len(contexts'[r]) PROVE ContextOK(r, k)'
      <4>1. contexts' = contexts /\ ContextOK(r, k)
        BY <1>1, <1>2, <3>2 DEF RecordsOK
      <4>2. 0 .. Len(transports) \subseteq 0 .. Len(transports')
        BY <2>1, <2>2
      <4> QED
        BY <1>1, <4>1, <4>2 DEF ContextOK, Over
    <3> QED
      BY <3>1, <3>2 DEF RecordsOK
  <2>7. Alive'
    <3>1. ASSUME NEW u \in 1 .. Len(transports') PROVE transports'[u].live
      <4>1. CASE u = t
        BY <2>2, <4>1
      <4>2. CASE u # t
        <5>1. u \in 1 .. Len(transports)
          BY <2>1, <2>2, <4>2
        <5> QED
          BY <1>1, <1>2, <2>2, <5>1 DEF Alive
      <4> QED
        BY <4>1, <4>2
    <3> QED
      BY <1>1, <1>2, <3>1 DEF Alive
  <2>8. FreedExactly'
    BY <1>1 DEF FreedExactly
  <2>9. ClosesWhenPlayedOut'
    <3>1. Contexts' = Contexts /\ \A c : Timer_(c)' = Timer_(c)
      BY <1>1 DEF Contexts, Timer_
    <3> QED
      BY <1>1, <1>2, <3>1 DEF ClosesWhenPlayedOut
  <2>10. UndefinedOnly'
    BY <1>1 DEF UndefinedOnly
  <2> QED
    BY <1>3a, <2>5, <2>6, <2>7, <2>8, <2>9, <2>10 DEF SessionIInv
<1>6. ASSUME setup_transport(parse_transport(header), socket) = << >>
      PROVE  new \in Transports
  BY <1>6, NewTransport
<1>7. ASSUME NEW id, session # Malformed, id \in IF session = Absent THEN SessionIds ELSE {session}
      PROVE  id \in SessionIds
  BY <1>7
<1> QED
  BY <1>1, <1>4, <1>5, <1>6, <1>7

(* A table to which every stream of P gets one running context more has    *)
(* as many more running.                                                   *)
LEMMA AppendCounts ==
  ASSUME NEW cs \in [Streams -> Seq(ContextRecords)], NEW ds \in [Streams -> Seq(ContextRecords)],
         NEW P \in SUBSET Streams,
         \A s \in Streams : Len(cs[s]) < MaxRequests,
         \A s \in P : /\ Len(ds[s]) = Len(cs[s]) + 1
                      /\ ds[s][Len(cs[s]) + 1].timer # "ended"
                      /\ \A k \in 1 .. Len(cs[s]) : ds[s][k] = cs[s][k],
         \A s \in Streams \ P : ds[s] = cs[s]
  PROVE  Cardinality(RunningIn(ds)) = Cardinality(RunningIn(cs)) + Cardinality(P)
<1> DEFINE new == {c \in Streams \X (1 .. MaxRequests) : c[1] \in P /\ c[2] = Len(cs[c[1]]) + 1}
           f == [s \in P |-> <<s, Len(cs[s]) + 1>>]
<1>1. \A s \in Streams : /\ Len(cs[s]) \in Nat /\ Len(ds[s]) \in Nat
                          /\ Len(cs[s]) <= MaxRequests /\ Len(ds[s]) <= MaxRequests
                          /\ Len(cs[s]) + 1 \in 1 .. MaxRequests
  <2>1. ASSUME NEW s \in Streams
        PROVE  Len(cs[s]) \in Nat /\ Len(ds[s]) \in Nat /\ (s \notin P => Len(ds[s]) = Len(cs[s]))
    BY LenProperties
  <2> QED
    BY <2>1, StreamsFinite
<1>2. /\ \A c \in ContextsIn(cs) : c = <<c[1], c[2]>> /\ c[1] \in Streams /\ c[2] \in 1 .. Len(cs[c[1]])
      /\ \A c \in ContextsIn(ds) : c = <<c[1], c[2]>> /\ c[1] \in Streams /\ c[2] \in 1 .. Len(ds[c[1]])
      /\ \A s \in Streams : \A k \in 1 .. Len(cs[s]) : <<s, k>> \in ContextsIn(cs)
      /\ \A s \in Streams : \A k \in 1 .. Len(ds[s]) : <<s, k>> \in ContextsIn(ds)
  BY <1>1, InContexts
<1>3. RunningIn(ds) = RunningIn(cs) \cup new
  <2>1. ASSUME NEW c \in RunningIn(ds) PROVE c \in RunningIn(cs) \cup new
    <3>1. c = <<c[1], c[2]>> /\ c[1] \in Streams /\ c[2] \in 1 .. Len(ds[c[1]])
          /\ ds[c[1]][c[2]].timer # "ended"
      BY <1>2, <2>1 DEF RunningIn
    <3>2. CASE c[2] \in 1 .. Len(cs[c[1]])
      <4>1. c \in ContextsIn(cs) /\ ds[c[1]][c[2]] = cs[c[1]][c[2]]
        BY <1>2, <3>1, <3>2
      <4> QED
        BY <3>1, <4>1 DEF RunningIn
    <3>3. CASE c[2] \notin 1 .. Len(cs[c[1]])
      <4>1. c[1] \in P /\ c[2] = Len(cs[c[1]]) + 1
        BY <1>1, <3>1, <3>3
      <4>2. c \in Streams \X (1 .. MaxRequests)
        BY <1>1, <3>1, <4>1
      <4> QED
        BY <4>1, <4>2
    <3> QED
      BY <3>2, <3>3
  <2>2. ASSUME NEW c \in RunningIn(cs) PROVE c \in RunningIn(ds)
    <3>1. c = <<c[1], c[2]>> /\ c[1] \in Streams /\ c[2] \in 1 .. Len(cs[c[1]])
          /\ cs[c[1]][c[2]].timer # "ended"
      BY <1>2, <2>2 DEF RunningIn
    <3>2. c[2] \in 1 .. Len(ds[c[1]]) /\ ds[c[1]][c[2]] = cs[c[1]][c[2]]
      BY <1>1, <3>1
    <3> QED
      BY <1>2, <3>1, <3>2 DEF RunningIn
  <2>3. ASSUME NEW c \in new PROVE c \in RunningIn(ds)
    <3>1. c = <<c[1], c[2]>> /\ c[1] \in P /\ c[1] \in Streams /\ c[2] = Len(cs[c[1]]) + 1
      BY <2>3
    <3>2. c[2] \in 1 .. Len(ds[c[1]]) /\ ds[c[1]][c[2]].timer # "ended"
      BY <1>1, <3>1
    <3> QED
      BY <1>2, <3>1, <3>2 DEF RunningIn
  <2> HIDE DEF new
  <2> QED
    BY <2>1, <2>2, <2>3
<1>4. RunningIn(cs) \cap new = {}
  <2>1. ASSUME NEW c \in RunningIn(cs), c \in new PROVE FALSE
    <3>1. c[1] \in Streams /\ c[2] \in 1 .. Len(cs[c[1]]) /\ c[2] = Len(cs[c[1]]) + 1
      BY <1>2, <2>1 DEF RunningIn
    <3> QED
      BY <1>1, <3>1
  <2> QED
    BY <2>1
<1>5. IsFiniteSet(P) /\ IsFiniteSet(new) /\ Cardinality(new) = Cardinality(P) /\ Cardinality(P) \in Nat
  <2>1. IsFiniteSet(P) /\ Cardinality(P) \in Nat
    BY StreamsFinite, FS_Subset, FS_CardinalityType
  <2>2. f \in Bijection(P, new)
    <3>1. f \in [P -> new]
      <4>1. ASSUME NEW s \in P PROVE <<s, Len(cs[s]) + 1>> \in new
        BY <1>1
      <4> HIDE DEF new
      <4> QED
        BY <4>1
    <3>2. \A a, b \in P : f[a] = f[b] => a = b
      OBVIOUS
    <3>3. ASSUME NEW c \in new PROVE \E s \in P : f[s] = c
      <4>1. c = <<c[1], c[2]>> /\ c[1] \in P /\ c[2] = Len(cs[c[1]]) + 1
        BY <3>3
      <4>2. f[c[1]] = c
        BY <4>1
      <4> QED
        BY <4>1, <4>2
    <3>4. f \in Injection(P, new)
      BY <3>1, <3>2 DEF Injection, IsInjective
    <3>5. f \in Surjection(P, new)
      BY <3>1, <3>3 DEF Surjection
    <3> QED
      BY <3>4, <3>5 DEF Bijection
  <2>3. ExistsBijection(P, new)
    BY <2>2 DEF ExistsBijection
  <2> QED
    BY <2>1, <2>3, FS_Bijection
<1> HIDE DEF new
<1>6. Cardinality(RunningIn(cs) \cup new)
        = Cardinality(RunningIn(cs)) + Cardinality(new) - Cardinality(RunningIn(cs) \cap new)
  BY <1>5, RunningFinite, FS_Union
<1>7. Cardinality(RunningIn(cs)) \in Nat
  BY RunningFinite
<1>8. Cardinality(RunningIn(cs) \cap new) = 0
  BY <1>4, FS_EmptySet
<1> QED
  BY <1>3, <1>5, <1>6, <1>7, <1>8

LEMMA PlayKeeps ==
  ASSUME SessionIInv, NEW id \in SessionIds \cup {Malformed}, Client_play(id)
  PROVE  SessionIInv'
<1>1. /\ loop = "running" /\ connection = "open" /\ requests < MaxRequests /\ requests' = requests + 1
      /\ transports' = transports /\ connection' = connection /\ Reach(id)
  BY DEF Client_play, AnswerPlay, Request
<1>2. SessionTypeOK /\ RecordsOK /\ Alive /\ ClosesWhenPlayedOut
  BY DEF SessionIInv
<1>3. requests' \in requests .. MaxRequests /\ requests' \in 0 .. MaxRequests /\ requests \in Nat
      /\ MaxRequests \in Nat
  <2>1. requests \in 0 .. MaxRequests /\ MaxRequests \in Nat
    BY <1>2, StreamsFinite DEF SessionTypeOK
  <2> QED
    BY <1>1, <2>1
<1>3a. /\ strays \subseteq strays' /\ StraysOK'
       /\ \A s \in Of(id) : stream[s].transport = NULL => <<s, 0>> \in strays'
  BY <1>1, <1>2, ReachKeeps DEF SessionIInv
<1>4. CASE Of(id) = {}
  <2>1. UNCHANGED <<stream, streams_playing, contexts, loop>>
    BY <1>4 DEF Client_play
  <2> QED
    BY <1>1, <1>3, <1>3a, <2>1, Unmoved
<1>5. CASE Of(id) # {}
  <2>0. /\ contexts' = [s \in Streams |-> IF s \in Of(id) THEN Append(contexts[s], Played(s))
                                         ELSE contexts[s]]
        /\ stream' = [s \in Streams |->
             IF s \in Of(id) THEN [stream[s] EXCEPT !.ev = Len(contexts[s]) + 1,
                                                    !.ctx = Len(contexts[s]) + 1]
             ELSE stream[s]]
        /\ streams_playing' = streams_playing + Cardinality(Of(id))
    BY <1>5 DEF Client_play
  <2>1. ASSUME NEW s \in Streams
        PROVE  /\ contexts[s] \in Seq(ContextRecords) /\ Len(contexts[s]) \in Nat
               /\ stream[s] \in Records /\ stream[s].transport \in Nat
               /\ StreamOK(s) /\ Len(contexts[s]) < MaxRequests
    <3>1. /\ contexts[s] \in Seq(ContextRecords) /\ Len(contexts[s]) \in Nat
          /\ stream[s] \in Records /\ StreamOK(s)
      BY <1>2, Rows DEF RecordsOK
    <3>2. stream[s].transport \in Nat
      BY <3>1 DEF Records
    <3>3. Len(contexts[s]) <= requests
      BY <3>1 DEF StreamOK
    <3> QED
      BY <1>1, <1>3, <3>1, <3>2, <3>3
  <2>2. Len(transports) \in Nat
    BY <1>2, Rows
  <2>3. ASSUME NEW s \in Of(id)
        PROVE  /\ s \in Streams /\ Played(s) \in ContextRecords
               /\ Played(s).transport \in 0 .. Len(transports)
               /\ Played(s).transport = NULL => <<s, 0>> \in strays'
               /\ Played(s).timer = "armed"
    <3>1. s \in Streams /\ (stream[s].transport = NULL => <<s, 0>> \in strays')
      BY <1>3a DEF Of
    <3>2. stream[s].transport \in 0 .. Len(transports)
      BY <2>1, <2>2, <3>1 DEF StreamOK
    <3> QED
      BY <3>1, <3>2 DEF Played, ContextRecords
  <2>4. ASSUME NEW s \in Streams
        PROVE  /\ contexts'[s] \in Seq(ContextRecords)
               /\ IF s \in Of(id)
                  THEN /\ Len(contexts'[s]) = Len(contexts[s]) + 1
                       /\ contexts'[s][Len(contexts[s]) + 1] = Played(s)
                       /\ \A k \in 1 .. Len(contexts[s]) : contexts'[s][k] = contexts[s][k]
                  ELSE contexts'[s] = contexts[s]
    <3>1. CASE s \in Of(id)
      <4>1. contexts'[s] = Append(contexts[s], Played(s))
        BY <2>0, <3>1
      <4>2. Played(s) \in ContextRecords
        BY <2>3, <3>1
      <4> QED
        BY <2>1, <3>1, <4>1, <4>2
    <3>2. CASE s \notin Of(id)
      BY <2>0, <2>1, <3>2
    <3> QED
      BY <3>1, <3>2
  <2>5. contexts' \in [Streams -> Seq(ContextRecords)]
    BY <2>0, <2>4
  <2>6. ASSUME NEW s \in Streams
        PROVE  /\ stream'[s] \in Records
               /\ stream'[s].session_id = stream[s].session_id
               /\ stream'[s].transport = stream[s].transport
               /\ stream'[s].ev = Len(contexts'[s]) /\ stream'[s].ctx = Len(contexts'[s])
    <3>1. CASE s \in Of(id)
      <4>1. stream'[s] = [stream[s] EXCEPT !.ev = Len(contexts[s]) + 1, !.ctx = Len(contexts[s]) + 1]
        BY <2>0, <3>1
      <4>2. Len(contexts[s]) + 1 \in Nat /\ Len(contexts'[s]) = Len(contexts[s]) + 1
        BY <2>1, <2>4, <3>1
      <4> QED
        BY <2>1, <4>1, <4>2 DEF Records
    <3>2. CASE s \notin Of(id)
      <4>1. stream'[s] = stream[s] /\ contexts'[s] = contexts[s]
        BY <2>0, <2>4, <3>2
      <4> QED
        BY <2>1, <4>1 DEF StreamOK
    <3> QED
      BY <3>1, <3>2
  <2>7. stream' \in [Streams -> Records]
    BY <2>0, <2>6
  <2>8. IsFiniteSet(Of(id)) /\ Cardinality(Of(id)) \in Nat /\ Cardinality(Of(id)) > 0
    <3>1. Of(id) \in SUBSET Streams
      BY DEF Of
    <3>2. IsFiniteSet(Of(id))
      BY <3>1, StreamsFinite, FS_Subset
    <3>3. Cardinality(Of(id)) \in Nat /\ Cardinality(Of(id)) # 0
      BY <1>5, <3>2, FS_CardinalityType, FS_EmptySet
    <3> QED
      BY <3>2, <3>3
  <2>8a. streams_playing' = streams_playing + Cardinality(Of(id))
    BY <1>5 DEF Client_play
  <2>9. SessionTypeOK'
    <3>1. streams_playing' \in Int
      BY <1>2, <2>8, <2>8a DEF SessionTypeOK
    <3> QED
      BY <1>1, <1>2, <1>3, <2>5, <2>7, <3>1 DEF SessionTypeOK
  <2>10. RecordsOK'
    <3>1. ASSUME NEW s \in Streams PROVE StreamOK(s)'
      <4>1. /\ Len(contexts[s]) <= requests /\ stream[s].transport <= Len(transports)
            /\ stream[s].session_id # 0 => stream[s].transport # NULL
        BY <2>1 DEF StreamOK
      <4>2. Len(contexts'[s]) <= requests'
        <5>1. Len(contexts'[s]) \in {Len(contexts[s]), Len(contexts[s]) + 1} /\ Len(contexts[s]) \in Nat
          BY <2>1, <2>4
        <5> QED
          BY <1>1, <1>3, <4>1, <5>1
      <4> QED
        BY <1>1, <2>6, <4>1, <4>2 DEF StreamOK
    <3>2. ASSUME NEW s \in Streams, NEW k \in 1 .. Len(contexts'[s]) PROVE ContextOK(s, k)'
      <4>1. CASE k \in 1 .. Len(contexts[s])
        <5>1. ContextOK(s, k) /\ contexts'[s][k] = contexts[s][k]
          BY <1>2, <2>4, <4>1 DEF RecordsOK
        <5> QED
          BY <1>1, <1>3a, <5>1 DEF ContextOK, Over
      <4>2. CASE k \notin 1 .. Len(contexts[s])
        <5>1. s \in Of(id) /\ k = Len(contexts[s]) + 1
          BY <2>1, <2>4, <3>2, <4>2
        <5>2. contexts'[s][k] = Played(s)
          BY <2>4, <5>1
        <5> QED
          BY <1>1, <2>3, <5>1, <5>2 DEF ContextOK
      <4> QED
        BY <4>1, <4>2
    <3> QED
      BY <3>1, <3>2 DEF RecordsOK
  <2>11. Alive'
    <3>1. ASSUME NEW s \in Streams, NEW k \in 1 .. Len(contexts'[s])
          PROVE  contexts'[s][k].timer # "freed"
      <4>1. CASE k \in 1 .. Len(contexts[s])
        <5>1. contexts'[s][k] = contexts[s][k]
          BY <2>4, <4>1
        <5> QED
          BY <1>1, <1>2, <4>1, <5>1 DEF Alive
      <4>2. CASE k \notin 1 .. Len(contexts[s])
        <5>1. s \in Of(id) /\ k = Len(contexts[s]) + 1
          BY <2>1, <2>4, <3>1, <4>2
        <5> QED
          BY <2>3, <2>4, <5>1
      <4> QED
        BY <4>1, <4>2
    <3> QED
      BY <1>1, <1>2, <3>1 DEF Alive
  <2>12. FreedExactly'
    BY <1>1 DEF FreedExactly
  <2>13. ClosesWhenPlayedOut'
    <3>1. Of(id) \in SUBSET Streams
      BY DEF Of
    <3>2. ASSUME NEW s \in Of(id) PROVE contexts'[s][Len(contexts[s]) + 1].timer # "ended"
      BY <2>3, <2>4
    <3>3. Cardinality(RunningIn(contexts')) = Cardinality(RunningIn(contexts)) + Cardinality(Of(id))
      <4>1. contexts \in [Streams -> Seq(ContextRecords)]
        BY <1>2 DEF SessionTypeOK
      <4>2. \A s \in Streams : Len(contexts[s]) < MaxRequests
        BY <2>1
      <4>3. \A s \in Of(id) :
              /\ Len(contexts'[s]) = Len(contexts[s]) + 1
              /\ contexts'[s][Len(contexts[s]) + 1].timer # "ended"
              /\ \A k \in 1 .. Len(contexts[s]) : contexts'[s][k] = contexts[s][k]
        BY <2>4, <3>1, <3>2
      <4>4. \A s \in Streams \ Of(id) : contexts'[s] = contexts[s]
        BY <2>4
      <4> QED
        BY <2>5, <3>1, <4>1, <4>2, <4>3, <4>4, AppendCounts
    <3>4. streams_playing = Cardinality(RunningIn(contexts)) /\ streams_playing \in Nat
      BY <1>1, <1>2, RunningIs, RunningFinite DEF ClosesWhenPlayedOut
    <3>5. {c \in Contexts' : Timer_(c)' # "ended"} = RunningIn(contexts')
      BY DEF Contexts, ContextsIn, RunningIn, Timer_
    <3>6. streams_playing' = Cardinality(RunningIn(contexts')) /\ streams_playing' > 0
      BY <2>8, <2>8a, <3>3, <3>4
    <3> QED
      BY <1>1, <3>5, <3>6 DEF ClosesWhenPlayedOut
  <2>14. UndefinedOnly'
    <3>1. loop' = loop \/ Stray(id) \ Unwrapped # {}
      BY <1>5 DEF Client_play, AnswerPlay
    <3>2. Stray(id) # {} => strays' # {}
      BY <1>3a DEF Stray
    <3> QED
      BY <1>1, <3>1, <3>2 DEF UndefinedOnly
  <2> QED
    BY <1>3a, <2>9, <2>10, <2>11, <2>12, <2>13, <2>14 DEF SessionIInv
<1> QED
  BY <1>4, <1>5

-----------------------------------------------------------------------------
(* The invariant, and what follows from it.                                *)

LEMMA SessionInit == Init => SessionIInv
<1> SUFFICES ASSUME Init PROVE SessionIInv
  OBVIOUS
<1>1. \A s \in Streams : contexts[s] = << >>
  BY DEF Init
<1>2. Len(<< >>) = 0 /\ << >> \in Seq(ContextRecords) /\ << >> \in Seq(Transports)
  BY EmptySeq
<1>3. SessionTypeOK
  <2>1. [session_id |-> 0, transport |-> NULL, ev |-> NULL, ctx |-> NULL] \in Records
    BY DEF Records, NULL
  <2> QED
    BY <1>2, <2>1, StreamsFinite DEF Init, SessionTypeOK
<1>4. RecordsOK
  BY <1>1, <1>2 DEF Init, RecordsOK, StreamOK, NULL
<1>5. Alive
  BY <1>1, <1>2 DEF Init, Alive
<1>6. FreedExactly
  BY DEF Init, FreedExactly
<1>7. ClosesWhenPlayedOut
  <2>1. Contexts = {}
    <3>1. \A c \in Contexts : c[1] \in Streams /\ c[2] \in DOMAIN contexts[c[1]]
      BY DEF Contexts
    <3> QED
      BY <1>1, <3>1
  <2> QED
    BY <2>1, FS_EmptySet DEF Init, ClosesWhenPlayedOut
<1>8. UndefinedOnly /\ StraysOK
  BY DEF Init, UndefinedOnly, StraysOK
<1> QED
  BY <1>3, <1>4, <1>5, <1>6, <1>7, <1>8 DEF SessionIInv

LEMMA SessionStep == SessionIInv /\ [Next]_vars => SessionIInv'
<1> SUFFICES ASSUME SessionIInv, [Next]_vars PROVE SessionIInv'
  OBVIOUS
<1>0. requests \in 0 .. MaxRequests /\ MaxRequests \in Nat
  BY StreamsFinite DEF SessionIInv, SessionTypeOK
<1>0a. strays' = strays => strays \subseteq strays' /\ StraysOK'
  BY DEF SessionIInv, StraysOK
<1>1. ASSUME NEW code \in {200, 400, 405}, Stateless(code) PROVE SessionIInv'
  <2>1. requests' \in requests .. MaxRequests
    BY <1>0, <1>1 DEF Stateless, Request
  <2> QED
    BY <1>0a, <1>1, <2>1, Unmoved DEF Stateless, Request
<1>2. ASSUME NEW s \in Streams, NEW header \in TransportHeaders, NEW socket \in BOOLEAN,
             NEW session \in SessionIds \cup {Malformed, Absent},
             Client_setup(s, header, session, socket)
      PROVE  SessionIInv'
  BY <1>2, SetupKeeps
<1>3. ASSUME NEW id \in SessionIds \cup {Malformed}, Client_play(id) PROVE SessionIInv'
  BY <1>3, PlayKeeps
<1>4. ASSUME NEW id \in SessionIds \cup {Malformed}, Client_teardown(id) PROVE SessionIInv'
  BY <1>4, TeardownKeeps
<1>5. ASSUME NEW s \in Streams, NEW k \in DOMAIN contexts[s], Timer(s, k) PROVE SessionIInv'
  BY <1>5, SendPacketKeeps, StreamEndsKeeps, UsesFreedKeeps DEF Timer
<1>6. ASSUME PeerCloses PROVE SessionIInv'
  BY <1>6, PeerClosesKeeps
<1>7. ASSUME LoopExits PROVE SessionIInv'
  BY <1>0, <1>0a, <1>7, Unmoved DEF LoopExits
<1>8. ASSUME UNCHANGED vars PROVE SessionIInv'
  BY <1>0, <1>0a, <1>8, Unmoved DEF vars
<1> QED
  BY <1>1, <1>2, <1>3, <1>4, <1>5, <1>6, <1>7, <1>8 DEF Next, TimerFires

LEMMA SessionInvariant == Spec => []SessionIInv
BY SessionInit, SessionStep, PTL DEF Spec

(* The types, what the record of every stream knows of its contexts, and   *)
(* that only requests naming the session id 0 reach a stream, or leave a   *)
(* context, without transport.                                             *)
THEOREM SessionTypes == Spec => [](SessionTypeOK /\ RecordsOK /\ StraysOK)
<1>1. SessionIInv => SessionTypeOK /\ RecordsOK /\ StraysOK
  BY DEF SessionIInv
<1> QED
  BY <1>1, SessionInvariant, PTL

(* The latest timer of a stream never fires on freed memory, whatever the  *)
(* order of SETUP, PLAY, TEARDOWN, the timers and the end of the           *)
(* connection. Undefined behaviour needs a stream that was played twice, a *)
(* TEARDOWN before any PLAY of a stream that was set up, or a PLAY or      *)
(* TEARDOWN naming the session id 0 while a stream is not set up.          *)
THEOREM TimersNeverDangle == Spec => []TimersAreSafe
<1>1. ASSUME SessionIInv PROVE TimersAreSafe
  <2>1. SessionTypeOK /\ RecordsOK /\ Alive /\ UndefinedOnly /\ StraysOK
    BY <1>1 DEF SessionIInv
  <2>2. ASSUME NEW c \in Contexts, Timer_(c) = "armed", ~ Replaced(c)
        PROVE  /\ connection = "open"
               /\ IF contexts[c[1]][c[2]].transport = NULL THEN <<c[1], 0>> \in strays
                  ELSE TransportOf(c[1], c[2]).live
    <3>1. /\ c[1] \in Streams /\ c[2] \in 1 .. Len(contexts[c[1]]) /\ Len(contexts[c[1]]) \in Nat
          /\ contexts[c[1]] \in Seq(ContextRecords)
      <4>1. \A r \in Streams : Len(contexts[r]) <= MaxRequests
        BY <2>1, Rows
      <4>2. c[1] \in Streams /\ c[2] \in 1 .. Len(contexts[c[1]])
        BY <2>1, <4>1, InContexts, RunningIs DEF SessionTypeOK
      <4> QED
        BY <2>1, <4>2, Rows
    <3>2. c[2] = Len(contexts[c[1]])
      BY <2>2, <3>1 DEF Replaced
    <3>3. contexts[c[1]] # << >>
      BY <3>1, EmptySeq
    <3>4. connection = "open"
      BY <2>1, <2>2, <3>1, <3>2, <3>3 DEF Alive, Timer_
    <3>5. ContextOK(c[1], c[2])
      BY <2>1, <3>1 DEF RecordsOK
    <3>6. Len(transports) \in Nat
      BY <2>1, Rows
    <3>7. contexts[c[1]][c[2]].transport # NULL => TransportOf(c[1], c[2]).live
      BY <2>1, <3>4, <3>5, <3>6 DEF Alive, ContextOK, TransportOf, NULL
    <3> QED
      BY <3>4, <3>5, <3>7 DEF ContextOK
  <2> QED
    BY <2>1, <2>2 DEF TimersAreSafe, UndefinedOnly, StraysOK
<1> QED
  BY <1>1, SessionInvariant, PTL

(* streams_playing is the number of contexts that did not end by           *)
(* themselves, so the server closes the connection when everything played  *)
(* has ended, and at no other time.                                        *)
THEOREM PlayedOutIsClosed == Spec => []ClosesWhenPlayedOut
<1>1. SessionIInv => ClosesWhenPlayedOut
  BY DEF SessionIInv
<1> QED
  BY <1>1, SessionInvariant, PTL

(* The end of a connection frees the transport of the latest context of    *)
(* every stream, and no other one.                                         *)
THEOREM FreedIsExact == Spec => []FreedExactly
<1>1. SessionIInv => FreedExactly
  BY DEF SessionIInv
<1> QED
  BY <1>1, SessionInvariant, PTL

-----------------------------------------------------------------------------
(* What a stream sends.                                                    *)

(* Induction for a set: with 0 and with every successor, all of Nat. *)
LEMMA SetInduction ==
  ASSUME NEW S, 0 \in S, \A n \in Nat : n \in S => n + 1 \in S
  PROVE  Nat \subseteq S
<1> DEFINE T == Nat \ S
           R == OpToRel(<, Nat)
<1>1. SUFFICES ASSUME T # {} PROVE FALSE
  OBVIOUS
<1>2. PICK x \in T : \A y \in T : ~ (<<y, x>> \in R)
  <2>1. IsWellFoundedOn(R, Nat)
    BY NatLessThanWellFounded, Zenon
  <2>2. T \subseteq Nat
    OBVIOUS
  <2> HIDE DEF R, T
  <2> QED
    BY <1>1, <2>1, <2>2, WFMin
<1>3. x \in Nat /\ x \notin S /\ x # 0
  OBVIOUS
<1>4. x - 1 \in Nat /\ x - 1 < x
  BY <1>3
<1>5. <<x - 1, x>> \in R
  BY <1>3, <1>4, Zenon DEF OpToRel
<1>6. x - 1 \in S
  BY <1>2, <1>4, <1>5
<1> QED
  BY <1>3, <1>4, <1>6

-----------------------------------------------------------------------------
(* Parts one behind the other.                                             *)

(* There is a table of the first k parts joined.                           *)
LEMMA JoinedExists ==
  ASSUME NEW s
  PROVE  \A N \in Nat : \E f : f = [k \in 0 .. N |-> IF k = 0 THEN << >> ELSE f[k - 1] \o s[k]]
<1> DEFINE P(N) == \E f : f = [k \in 0 .. N |-> IF k = 0 THEN << >> ELSE f[k - 1] \o s[k]]
           S == {N \in Nat : P(N)}
<1>1. 0 \in S
  <2> DEFINE f == [k \in 0 .. 0 |-> << >>]
  <2>1. f = [k \in 0 .. 0 |-> IF k = 0 THEN << >> ELSE f[k - 1] \o s[k]]
    OBVIOUS
  <2> HIDE DEF f
  <2>2. P(0)
    BY <2>1
  <2> HIDE DEF P
  <2> QED
    BY <2>2
<1>2. ASSUME NEW N \in Nat, N \in S PROVE N + 1 \in S
  <2>1. PICK f : f = [k \in 0 .. N |-> IF k = 0 THEN << >> ELSE f[k - 1] \o s[k]]
    BY <1>2
  <2> DEFINE g == [k \in 0 .. N + 1 |-> IF k = N + 1 THEN f[N] \o s[k] ELSE f[k]]
  <2>2. ASSUME NEW k \in 0 .. N + 1
        PROVE  g[k] = IF k = 0 THEN << >> ELSE g[k - 1] \o s[k]
    <3>1. CASE k = N + 1
      <4>1. k - 1 = N /\ N \in 0 .. N + 1 /\ N # N + 1 /\ k # 0
        BY <3>1
      <4>2. g[k - 1] = f[N]
        BY <4>1
      <4> QED
        BY <3>1, <4>1, <4>2
    <3>2. CASE k # N + 1
      <4>1. k \in 0 .. N
        BY <3>2
      <4>2. f[k] = IF k = 0 THEN << >> ELSE f[k - 1] \o s[k]
        BY <2>1, <4>1
      <4>3. k # 0 => k - 1 \in 0 .. N + 1 /\ k - 1 # N + 1
        BY <4>1
      <4>4. k # 0 => g[k - 1] = f[k - 1]
        BY <4>3
      <4> QED
        BY <3>2, <4>2, <4>4
    <3> QED
      BY <3>1, <3>2
  <2>3. g = [k \in 0 .. N + 1 |-> IF k = 0 THEN << >> ELSE g[k - 1] \o s[k]]
    BY <2>2
  <2> HIDE DEF g
  <2>4. P(N + 1)
    BY <2>3
  <2> HIDE DEF P
  <2> QED
    BY <2>4
<1>3. Nat \subseteq S
  <2> HIDE DEF S
  <2> QED
    BY <1>1, <1>2, SetInduction
<1> QED
  BY <1>3

LEMMA JoinedTable ==
  ASSUME NEW s, Len(s) \in Nat
  PROVE  \E f : /\ Joined(s) = f[Len(s)]
                /\ f[0] = << >>
                /\ \A k \in 1 .. Len(s) : f[k] = f[k - 1] \o s[k]
<1> DEFINE Table(f) == f = [k \in 0 .. Len(s) |-> IF k = 0 THEN << >> ELSE f[k - 1] \o s[k]]
           upto == CHOOSE f : Table(f)
<1>1. \E f : Table(f)
  BY JoinedExists
<1>2. Table(upto)
  BY <1>1
<1>3. Joined(s) = upto[Len(s)]
  BY DEF Joined
<1> HIDE DEF upto
<1>4. upto[0] = << >> /\ \A k \in 1 .. Len(s) : upto[k] = upto[k - 1] \o s[k]
  BY <1>2, SMTT(30)
<1> QED
  BY <1>3, <1>4

(* One part more comes behind the others.                                  *)
LEMMA JoinOneMore ==
  ASSUME NEW S, NEW s \in Seq(Seq(S)), NEW x \in Seq(S)
  PROVE  /\ Joined(s) \in Seq(S)
         /\ Joined(Append(s, x)) = Joined(s) \o x
<1> DEFINE t == Append(s, x)
           n == Len(s)
<1>1. /\ n \in Nat /\ Len(t) = n + 1
      /\ t[n + 1] = x /\ \A k \in 1 .. n : t[k] = s[k] /\ s[k] \in Seq(S)
  BY AppendProperties, LenProperties, ElementOfSeq
<1> HIDE DEF t
<1>2. PICK g : /\ Joined(t) = g[n + 1]
               /\ g[0] = << >> /\ \A k \in 1 .. n + 1 : g[k] = g[k - 1] \o t[k]
  <2>1. Len(t) \in Nat
    BY <1>1
  <2>2. PICK g : /\ Joined(t) = g[Len(t)]
                 /\ g[0] = << >> /\ \A k \in 1 .. Len(t) : g[k] = g[k - 1] \o t[k]
    BY <2>1, JoinedTable
  <2> QED
    BY <1>1, <2>2
<1>3. PICK f : /\ Joined(s) = f[n]
               /\ f[0] = << >> /\ \A k \in 1 .. n : f[k] = f[k - 1] \o s[k]
  <2>1. Len(s) \in Nat
    BY <1>1
  <2> QED
    BY <2>1, JoinedTable
<1> DEFINE Same(k) == f[k] = g[k] /\ f[k] \in Seq(S)
           G == {k \in Nat : k <= n => Same(k)}
<1>4. 0 \in G
  <2>1. << >> \in Seq(S)
    BY EmptySeq
  <2> QED
    BY <1>2, <1>3, <2>1
<1>5. ASSUME NEW k \in Nat, k \in G PROVE k + 1 \in G
  <2> SUFFICES ASSUME k + 1 <= n PROVE Same(k + 1)
    OBVIOUS
  <2> DEFINE j == k + 1
  <2>1. j \in 1 .. n /\ j \in 1 .. n + 1 /\ j - 1 = k /\ k <= n
    BY <1>1
  <2>2. Same(k)
    BY <1>5, <2>1
  <2> HIDE DEF j
  <2>3. f[j] = f[k] \o s[j] /\ g[j] = g[k] \o t[j] /\ t[j] = s[j] /\ s[j] \in Seq(S)
    BY <1>1, <1>2, <1>3, <2>1
  <2>4. f[j] = g[j] /\ f[j] \in Seq(S)
    BY <2>2, <2>3, ConcatProperties
  <2> QED
    BY <2>4 DEF j
<1>6. Same(n)
  <2>1. Nat \subseteq G
    <3> HIDE DEF G
    <3> QED
      BY <1>4, <1>5, SetInduction
  <2> HIDE DEF Same
  <2> QED
    BY <1>1, <2>1
<1>7. g[n + 1] = g[n] \o x
  <2>1. n + 1 \in 1 .. n + 1 /\ (n + 1) - 1 = n
    BY <1>1
  <2> QED
    BY <1>1, <1>2, <2>1
<1> QED
  BY <1>2, <1>3, <1>6, <1>7 DEF t

(* The first k parts.                                                      *)
Upto(s, k) == Joined(SubSeq(s, 1, k))

LEMMA UptoSteps ==
  ASSUME NEW S, NEW s \in Seq(Seq(S))
  PROVE  /\ Upto(s, 0) = << >>
         /\ Upto(s, Len(s)) = Joined(s)
         /\ \A k \in 0 .. Len(s) : Upto(s, k) \in Seq(S) /\ Len(Upto(s, k)) \in Nat
         /\ \A k \in 0 .. Len(s) - 1 :
              /\ s[k + 1] \in Seq(S)
              /\ Upto(s, k + 1) = Upto(s, k) \o s[k + 1]
<1> DEFINE n == Len(s)
<1>1. n \in Nat /\ \A k \in 1 .. n : s[k] \in Seq(S)
  BY LenProperties, ElementOfSeq
<1>2. Upto(s, 0) = << >>
  <2>1. SubSeq(s, 1, 0) = << >> /\ Len(<< >>) = 0
    BY SubSeqEmpty, EmptySeq
  <2>2. Joined(<< >>) = << >>
    BY <2>1, JoinedTable
  <2> QED
    BY <2>1, <2>2 DEF Upto
<1>3. Upto(s, n) = Joined(s)
  BY SubSeqFull DEF Upto
<1>4. ASSUME NEW k \in 0 .. n PROVE Upto(s, k) \in Seq(S) /\ Len(Upto(s, k)) \in Nat
  <2>1. SubSeq(s, 1, k) \in Seq(Seq(S))
    BY <1>1, SubSeqProperties
  <2>2. << >> \in Seq(S)
    BY EmptySeq
  <2>3. Upto(s, k) \in Seq(S)
    BY <2>1, <2>2, JoinOneMore DEF Upto
  <2> QED
    BY <2>3, LenProperties
<1>5. ASSUME NEW k \in 0 .. n - 1 PROVE s[k + 1] \in Seq(S) /\ Upto(s, k + 1) = Upto(s, k) \o s[k + 1]
  <2>1. k \in Nat /\ k + 1 \in 1 .. n /\ k \in 0 .. n
    BY <1>1
  <2>2. SubSeq(s, 1, k) \in Seq(Seq(S)) /\ s[k + 1] \in Seq(S)
    BY <1>1, <2>1, SubSeqProperties
  <2>3. SubSeq(s, 1, k + 1) = Append(SubSeq(s, 1, k), s[k + 1])
    <3>1. 1 \in 1 .. n /\ k + 1 \in 1 .. n /\ (k + 1) - 1 = k
      BY <1>1, <2>1
    <3>2. SubSeq(s, 1, k + 1) = SubSeq(s, 1, (k + 1) - 1) \o <<s[k + 1]>>
      BY <3>1, SubSeqRecursiveSecond
    <3>3. SubSeq(s, 1, k) \o <<s[k + 1]>> = Append(SubSeq(s, 1, k), s[k + 1])
      BY <2>2, AppendIsConcat
    <3> QED
      BY <3>1, <3>2, <3>3
  <2> QED
    BY <2>2, <2>3, JoinOneMore DEF Upto
<1> QED
  BY <1>2, <1>3, <1>4, <1>5

(* Where the elements of two sequences are in both together. *)
LEMMA ConcatAt ==
  ASSUME NEW S, NEW a \in Seq(S), NEW b \in Seq(S)
  PROVE  /\ a \o b \in Seq(S) /\ Len(a) \in Nat /\ Len(b) \in Nat
         /\ Len(a \o b) = Len(a) + Len(b)
         /\ \A i \in 1 .. Len(a) : (a \o b)[i] = a[i]
         /\ \A i \in 1 .. Len(b) : (a \o b)[Len(a) + i] = b[i]
<1> DEFINE c == a \o b
           p == Len(a)
           q == Len(b)
<1>1. /\ c \in Seq(S) /\ p \in Nat /\ q \in Nat /\ Len(c) = p + q
      /\ \A i \in 1 .. p + q : c[i] = IF i <= p THEN a[i] ELSE b[i - p]
  BY ConcatProperties, LenProperties
<1> HIDE DEF c, p, q
<1>2. ASSUME NEW i \in 1 .. p PROVE c[i] = a[i]
  <2>1. i \in 1 .. p + q /\ i <= p
    BY <1>1
  <2> QED
    BY <1>1, <2>1
<1>3. ASSUME NEW i \in 1 .. q PROVE c[p + i] = b[i]
  <2>1. p + i \in 1 .. p + q /\ ~ (p + i <= p) /\ (p + i) - p = i
    BY <1>1
  <2> QED
    BY <1>1, <2>1
<1> QED
  BY <1>1, <1>2, <1>3 DEF c, p, q

(* What is joined later does not move what is there. *)
LEMMA UptoIsPrefix ==
  ASSUME NEW S, NEW s \in Seq(Seq(S)), NEW k \in 0 .. Len(s)
  PROVE  \A d \in Nat : k + d <= Len(s) =>
           /\ Len(Upto(s, k)) <= Len(Upto(s, k + d))
           /\ \A i \in 1 .. Len(Upto(s, k)) : Upto(s, k + d)[i] = Upto(s, k)[i]
<1> DEFINE n == Len(s)
           Prefix(d) == /\ Len(Upto(s, k)) <= Len(Upto(s, k + d))
                        /\ \A i \in 1 .. Len(Upto(s, k)) : Upto(s, k + d)[i] = Upto(s, k)[i]
           G == {d \in Nat : k + d <= n => Prefix(d)}
<1>1. n \in Nat
  BY LenProperties
<1>2. 0 \in G
  <2>1. k + 0 = k /\ Len(Upto(s, k)) \in Nat
    BY UptoSteps
  <2> QED
    BY <2>1
<1>3. ASSUME NEW d \in Nat, d \in G PROVE d + 1 \in G
  <2> SUFFICES ASSUME k + (d + 1) <= n PROVE Prefix(d + 1)
    OBVIOUS
  <2> DEFINE e == k + d
  <2>1. e \in 0 .. n - 1 /\ k + (d + 1) = e + 1 /\ e \in 0 .. n /\ k \in 0 .. n /\ k + d <= n
    BY <1>1
  <2>2. Prefix(d)
    BY <1>3, <2>1
  <2> HIDE DEF e
  <2>3. /\ Upto(s, e) \in Seq(S) /\ s[e + 1] \in Seq(S) /\ Upto(s, k) \in Seq(S)
        /\ Upto(s, e + 1) = Upto(s, e) \o s[e + 1]
    BY <2>1, UptoSteps
  <2>4. /\ Len(Upto(s, e + 1)) = Len(Upto(s, e)) + Len(s[e + 1])
        /\ \A i \in 1 .. Len(Upto(s, e)) : Upto(s, e + 1)[i] = Upto(s, e)[i]
        /\ Len(Upto(s, e)) \in Nat /\ Len(s[e + 1]) \in Nat /\ Len(Upto(s, k)) \in Nat
    BY <2>3, ConcatAt, LenProperties
  <2>5. /\ Len(Upto(s, k)) <= Len(Upto(s, e))
        /\ \A i \in 1 .. Len(Upto(s, k)) : Upto(s, e)[i] = Upto(s, k)[i]
    BY <2>2 DEF e
  <2>6. /\ Len(Upto(s, k)) <= Len(Upto(s, e + 1))
        /\ \A i \in 1 .. Len(Upto(s, k)) : Upto(s, e + 1)[i] = Upto(s, k)[i]
    BY <2>4, <2>5
  <2> QED
    BY <2>1, <2>6
<1> QED
  <2>1. Nat \subseteq G
    <3> HIDE DEF G
    <3> QED
      BY <1>2, <1>3, SetInduction
  <2> HIDE DEF Prefix
  <2>2. \A d \in Nat : k + d <= n => Prefix(d)
    BY <2>1
  <2> QED
    BY <2>2 DEF Prefix

(* Where each part is in the whole. *)
LEMMA JoinedAt ==
  ASSUME NEW S, NEW s \in Seq(Seq(S)), NEW k \in 1 .. Len(s)
  PROVE  /\ Joined(s) \in Seq(S) /\ s[k] \in Seq(S)
         /\ Len(Upto(s, k - 1)) \in Nat /\ Len(s[k]) \in Nat
         /\ Len(Upto(s, k)) = Len(Upto(s, k - 1)) + Len(s[k])
         /\ Len(Upto(s, k)) <= Len(Joined(s))
         /\ \A i \in 1 .. Len(s[k]) : Joined(s)[Len(Upto(s, k - 1)) + i] = s[k][i]
<1> DEFINE n == Len(s)
           a == Upto(s, k - 1)
           b == Upto(s, k)
<1>1. /\ n \in Nat /\ k - 1 \in 0 .. n - 1 /\ k \in 0 .. n /\ (k - 1) + 1 = k /\ k - 1 \in 0 .. n
      /\ n - k \in Nat /\ k + (n - k) = n /\ n \in 0 .. n
  BY LenProperties
<1>2. a \in Seq(S) /\ b \in Seq(S) /\ s[k] \in Seq(S) /\ b = a \o s[k] /\ Upto(s, n) = Joined(s)
      /\ Upto(s, n) \in Seq(S)
  BY <1>1, UptoSteps
<1>3. /\ Len(b) <= Len(Upto(s, n))
      /\ \A i \in 1 .. Len(b) : Upto(s, n)[i] = b[i]
  <2> DEFINE d == n - k
  <2>1. d \in Nat /\ k + d = n /\ k + d <= Len(s) /\ k \in 0 .. Len(s)
    BY <1>1
  <2> HIDE DEF d
  <2>2. /\ Len(Upto(s, k)) <= Len(Upto(s, k + d))
        /\ \A i \in 1 .. Len(Upto(s, k)) : Upto(s, k + d)[i] = Upto(s, k)[i]
    BY <2>1, UptoIsPrefix
  <2> QED
    BY <2>1, <2>2
<1> HIDE DEF a, b
<1>4. /\ Len(a) \in Nat /\ Len(s[k]) \in Nat
      /\ Len(b) = Len(a) + Len(s[k])
      /\ \A i \in 1 .. Len(s[k]) : b[Len(a) + i] = s[k][i]
  BY <1>2, ConcatAt
<1>5. ASSUME NEW i \in 1 .. Len(s[k]) PROVE Joined(s)[Len(a) + i] = s[k][i]
  <2>1. Len(a) + i \in 1 .. Len(b)
    BY <1>4
  <2> QED
    BY <1>2, <1>3, <1>4, <2>1
<1> QED
  BY <1>2, <1>3, <1>4, <1>5 DEF a, b

-----------------------------------------------------------------------------
(* Annex B files.                                                          *)

(* The octets before unit k + 1 and its start code. *)
Pos(m, k) == Len(Upto(Parts(m), k))

(* Unit k and its start code are octets of d, one behind the other. *)
UnitAt(m, d, k) ==
  /\ Pos(m, k - 1) \in Nat /\ Pos(m, k) \in Nat
  /\ m.codes[k] \in {3, 4} /\ m.nals[k] \in Seq(Octet) /\ Len(m.nals[k]) \in Nat \ {0}
  /\ Pos(m, k) = Pos(m, k - 1) + m.codes[k] + Len(m.nals[k])
  /\ Pos(m, k) <= Len(d)
  /\ \A i \in 1 .. m.codes[k] - 1 : d[Pos(m, k - 1) + i] = 0
  /\ d[Pos(m, k - 1) + m.codes[k]] = 1
  /\ \A i \in 1 .. Len(m.nals[k]) : d[Pos(m, k - 1) + m.codes[k] + i] = m.nals[k][i]

NalLayout(m, d) ==
  /\ d \in Seq(Octet) /\ Len(d) \in Nat /\ Len(m.nals) \in Nat \ {0}
  /\ Pos(m, 0) = 0 /\ Pos(m, Len(m.nals)) = Len(d)
  /\ \A k \in 1 .. Len(m.nals) : UnitAt(m, d, k)

(* A start code: zeros and a one.                                          *)
LEMMA StartCodeOctets ==
  ASSUME NEW n \in {3, 4}
  PROVE  /\ start_code(n) \in Seq(Octet) /\ Len(start_code(n)) = n
         /\ \A i \in 1 .. n - 1 : start_code(n)[i] = 0
         /\ start_code(n)[n] = 1
<1>1. 0 \in Octet /\ 1 \in Octet
  BY DEF Octet
<1>2. n - 1 \in Nat
  OBVIOUS
<1>3. Zeros(n - 1) \in Seq(Octet) /\ Len(Zeros(n - 1)) = n - 1
      /\ \A i \in 1 .. n - 1 : Zeros(n - 1)[i] = 0
  <2>1. Zeros(n - 1) \in [1 .. n - 1 -> Octet]
    BY <1>1 DEF Zeros
  <2>2. Zeros(n - 1) \in Seq(Octet)
    BY <1>2, <2>1, IsASeq
  <2>3. Len(Zeros(n - 1)) = n - 1
    BY <1>2, <2>1, <2>2, LenProperties
  <2> QED
    BY <2>2, <2>3 DEF Zeros
<1>4. <<1>> \in Seq(Octet) /\ Len(<<1>>) = 1 /\ <<1>>[1] = 1
  BY <1>1
<1>5. /\ Zeros(n - 1) \o <<1>> \in Seq(Octet)
      /\ Len(Zeros(n - 1) \o <<1>>) = (n - 1) + 1
      /\ \A i \in 1 .. n - 1 : (Zeros(n - 1) \o <<1>>)[i] = 0
      /\ (Zeros(n - 1) \o <<1>>)[(n - 1) + 1] = 1
  BY <1>3, <1>4, ConcatAt
<1> QED
  BY <1>2, <1>5 DEF start_code

(* The test for a start code, octet by octet. *)
LEMMA StartCodeTest ==
  ASSUME NEW d \in Seq(Octet), NEW n \in {3, 4}, NEW pos \in Nat \ {0}, pos + n - 1 <= Len(d)
  PROVE  SubSeq(d, pos, pos + n - 1) = start_code(n) <=>
           d[pos + n - 1] = 1 /\ \A i \in 0 .. n - 2 : d[pos + i] = 0
<1> DEFINE s == SubSeq(d, pos, pos + n - 1)
           c == start_code(n)
<1>1. /\ c \in Seq(Octet) /\ Len(c) = n /\ c[n] = 1
      /\ \A i \in 1 .. n - 1 : c[i] = 0
  BY StartCodeOctets
<1>2. /\ s \in Seq(Octet) /\ Len(s) = n
      /\ \A i \in 1 .. n : s[i] = d[pos + i - 1]
  <2>1. Len(d) \in Nat
    BY LenProperties
  <2>2. pos \in 1 .. Len(d) + 1 /\ pos + n - 1 \in pos - 1 .. Len(d)
    BY <2>1
  <2>3. /\ s \in Seq(Octet)
        /\ Len(s) = (pos + n - 1) - pos + 1
        /\ \A i \in 1 .. (pos + n - 1) - pos + 1 : s[i] = d[pos + i - 1]
    BY <2>2, SubSeqProperties
  <2>4. (pos + n - 1) - pos + 1 = n
    OBVIOUS
  <2> HIDE DEF s
  <2> QED
    BY <2>3, <2>4
<1> HIDE DEF s, c
<1>3. ASSUME s = c PROVE d[pos + n - 1] = 1 /\ \A i \in 0 .. n - 2 : d[pos + i] = 0
  <2>1. n \in 1 .. n /\ s[n] = 1
    BY <1>1, <1>3
  <2>2. ASSUME NEW i \in 0 .. n - 2 PROVE d[pos + i] = 0
    <3>1. i + 1 \in 1 .. n /\ i + 1 \in 1 .. n - 1 /\ pos + (i + 1) - 1 = pos + i
      OBVIOUS
    <3> QED
      BY <1>1, <1>2, <1>3, <3>1
  <2> QED
    BY <1>2, <2>1, <2>2
<1>4. ASSUME d[pos + n - 1] = 1, \A i \in 0 .. n - 2 : d[pos + i] = 0 PROVE s = c
  <2>1. ASSUME NEW i \in 1 .. n PROVE s[i] = c[i]
    <3>1. CASE i = n
      BY <1>1, <1>2, <1>4, <3>1
    <3>2. CASE i # n
      <4>1. i - 1 \in 0 .. n - 2 /\ pos + (i - 1) = pos + i - 1 /\ i \in 1 .. n - 1
        BY <3>2
      <4> QED
        BY <1>1, <1>2, <1>4, <4>1
    <3> QED
      BY <3>1, <3>2
  <2> QED
    BY <1>1, <1>2, <2>1, SeqEqual
<1> QED
  BY <1>3, <1>4 DEF s, c

(* How an Annex B file is laid out.                                        *)
LEMMA AnnexBLayout ==
  ASSUME NEW m, NalFile(m)
  PROVE  NalLayout(m, AnnexB(m))
<1> DEFINE n == Len(m.nals)
           s == Parts(m)
           d == AnnexB(m)
<1>1. /\ m.nals \in Seq(Seq(Octet)) /\ m.nals # << >>
      /\ m.codes \in [1 .. n -> {3, 4}]
      /\ \A k \in 1 .. n : m.nals[k] # << >>
  BY DEF NalFile
<1>2. n \in Nat \ {0} /\ DOMAIN m.nals = 1 .. n /\ \A k \in 1 .. n : m.nals[k] \in Seq(Octet)
  BY <1>1, LenProperties, EmptySeq, ElementOfSeq
<1>3. \A k \in 1 .. n : start_code(m.codes[k]) \in Seq(Octet)
  BY <1>1, StartCodeOctets
<1>4. s \in Seq(Seq(Octet)) /\ Len(s) = n
      /\ \A k \in 1 .. n : s[k] = start_code(m.codes[k]) \o m.nals[k]
  <2>1. \A k \in 1 .. n : start_code(m.codes[k]) \o m.nals[k] \in Seq(Octet)
    BY <1>2, <1>3, ConcatProperties
  <2>2. s = [k \in 1 .. n |-> start_code(m.codes[k]) \o m.nals[k]]
    BY <1>2 DEF Parts
  <2>3. s \in [1 .. n -> Seq(Octet)]
    BY <2>1, <2>2
  <2>4. s \in Seq(Seq(Octet))
    BY <1>2, <2>3, IsASeq
  <2>5. Len(s) = n
    BY <1>2, <2>3, <2>4, LenProperties
  <2> QED
    BY <2>2, <2>4, <2>5
<1>5. d = Joined(s)
  BY DEF AnnexB
<1> HIDE DEF s, d
<1>6. d \in Seq(Octet) /\ Pos(m, 0) = 0 /\ Pos(m, n) = Len(d)
  <2>1. n \in 0 .. n
    BY <1>2
  <2>2. Upto(s, 0) = << >> /\ Upto(s, n) = d /\ Upto(s, n) \in Seq(Octet)
    BY <1>4, <1>5, <2>1, UptoSteps
  <2>3. Len(<< >>) = 0
    BY EmptySeq
  <2> QED
    BY <2>2, <2>3 DEF Pos, s
<1>7. ASSUME NEW k \in 1 .. n PROVE UnitAt(m, d, k)
  <2> DEFINE c == start_code(m.codes[k])
             nal == m.nals[k]
             p == Len(Upto(s, k - 1))
  <2>1. /\ s[k] = c \o nal /\ c \in Seq(Octet) /\ nal \in Seq(Octet)
        /\ Len(c) = m.codes[k] /\ m.codes[k] \in {3, 4}
        /\ \A i \in 1 .. m.codes[k] - 1 : c[i] = 0
        /\ c[m.codes[k]] = 1
    BY <1>1, <1>2, <1>3, <1>4, StartCodeOctets
  <2>2. Len(nal) \in Nat \ {0}
    BY <1>1, <2>1, LenProperties, EmptySeq
  <2>3. /\ p \in Nat /\ Len(s[k]) \in Nat
        /\ Len(Upto(s, k)) = p + Len(s[k]) /\ Len(Upto(s, k)) <= Len(d)
        /\ \A i \in 1 .. Len(s[k]) : d[p + i] = s[k][i]
    <3>1. k \in 1 .. Len(s)
      BY <1>4
    <3> QED
      BY <1>4, <1>5, <3>1, JoinedAt
  <2>4. p = Pos(m, k - 1) /\ Len(Upto(s, k)) = Pos(m, k)
    BY DEF Pos, s
  <2> HIDE DEF c, nal, p
  <2>5. /\ Len(s[k]) = m.codes[k] + Len(nal)
        /\ \A i \in 1 .. m.codes[k] : s[k][i] = c[i]
        /\ \A i \in 1 .. Len(nal) : s[k][m.codes[k] + i] = nal[i]
    <3> c \in Seq(Octet) /\ nal \in Seq(Octet)
      BY <2>1
    <3>1. /\ Len(c \o nal) = Len(c) + Len(nal)
          /\ \A i \in 1 .. Len(c) : (c \o nal)[i] = c[i]
          /\ \A i \in 1 .. Len(nal) : (c \o nal)[Len(c) + i] = nal[i]
      BY ConcatAt
    <3> QED
      BY <2>1, <3>1, Zenon
  <2>6. \A i \in 1 .. m.codes[k] - 1 : d[p + i] = 0
    <3> TAKE i \in 1 .. m.codes[k] - 1
    <3>1. i \in 1 .. m.codes[k] /\ i \in 1 .. Len(s[k])
      <4>1. Len(nal) \in Nat /\ m.codes[k] \in Nat /\ Len(s[k]) = m.codes[k] + Len(nal)
        BY <2>1, <2>2, <2>5
      <4> QED
        BY <4>1
    <3>2. d[p + i] = s[k][i] /\ s[k][i] = c[i] /\ c[i] = 0
      BY <2>1, <2>3, <2>5, <3>1, Zenon
    <3> QED
      BY <3>2
  <2>7. d[p + m.codes[k]] = 1
    <3>1. m.codes[k] \in 1 .. m.codes[k] /\ m.codes[k] \in 1 .. Len(s[k])
      <4>1. m.codes[k] \in {3, 4}
        BY <2>1
      <4>2. Len(nal) \in Nat /\ Len(s[k]) = m.codes[k] + Len(nal)
        BY <2>2, <2>5
      <4> QED
        BY <4>1, <4>2
    <3> QED
      BY <2>1, <2>3, <2>5, <3>1
  <2>8. \A i \in 1 .. Len(nal) : d[p + m.codes[k] + i] = nal[i]
    <3> TAKE i \in 1 .. Len(nal)
    <3>1. m.codes[k] + i \in 1 .. Len(s[k]) /\ p + (m.codes[k] + i) = p + m.codes[k] + i
      <4>1. m.codes[k] \in Nat /\ Len(nal) \in Nat /\ p \in Nat
        BY <2>1, <2>2, <2>3
      <4>2. Len(s[k]) = m.codes[k] + Len(nal)
        BY <2>5
      <4> QED
        BY <4>1, <4>2
    <3> QED
      BY <2>3, <2>5, <3>1
  <2>9. Len(Upto(s, k)) \in Nat /\ Len(Upto(s, k)) = p + m.codes[k] + Len(nal)
    BY <2>1, <2>2, <2>3, <2>5
  <2> QED
    BY <2>1, <2>2, <2>3, <2>4, <2>6, <2>7, <2>8, <2>9 DEF UnitAt, nal
<1>8. Len(d) \in Nat
  BY <1>6, LenProperties
<1> QED
  BY <1>2, <1>6, <1>7, <1>8 DEF NalLayout, d

(* A test finds its start code if the octets are there, and nothing else.  *)
LEMMA TestStartCode ==
  ASSUME data \in Seq(Octet), NEW n \in {3, 4}, NEW pos \in Nat \ {0}
  PROVE  /\ test_start_code(n, pos) \in {0, n}
         /\ test_start_code(n, pos) = n <=>
              /\ pos + n - 1 <= Len(data)
              /\ data[pos + n - 1] = 1 /\ \A i \in 0 .. n - 2 : data[pos + i] = 0
<1> DEFINE Code == data[pos + n - 1] = 1 /\ \A i \in 0 .. n - 2 : data[pos + i] = 0
           Found == SubSeq(data, pos, pos + n - 1) = start_code(n)
           Fits == pos + n - 1 <= Len(data)
<1>1. Fits => (Found <=> Code)
  BY StartCodeTest
<1>2. test_start_code(n, pos) = IF Fits /\ Found THEN n ELSE 0
  BY DEF test_start_code
<1> HIDE DEF Code, Found, Fits
<1>3. n # 0
  OBVIOUS
<1>4. test_start_code(n, pos) \in {0, n} /\ (test_start_code(n, pos) = n <=> Fits /\ Code)
  BY <1>1, <1>2, <1>3
<1> QED
  BY <1>4 DEF Fits, Code

(* The code before a unit is found where the unit before it ends, and is   *)
(* not taken for the longer one.                                           *)
LEMMA AtSeam ==
  ASSUME NalLayout(media, data), NEW k \in 1 .. Len(media.nals)
  PROVE  LET pos == Pos(media, k - 1) + 1
         IN  /\ pos \in Nat \ {0} /\ pos <= Len(data)
             /\ test_start_code(media.codes[k], pos) = media.codes[k]
             /\ media.codes[k] = 3 => test_start_code(4, pos) = 0
<1> DEFINE p == Pos(media, k - 1)
           c == media.codes[k]
<1>1. data \in Seq(Octet) /\ Len(data) \in Nat /\ UnitAt(media, data, k)
  BY DEF NalLayout
<1>2. /\ p \in Nat /\ c \in {3, 4} /\ p + c + 1 <= Len(data)
      /\ \A i \in 1 .. c - 1 : data[p + i] = 0
      /\ data[p + c] = 1
  <2> DEFINE e == Pos(media, k)
             len == Len(media.nals[k])
  <2>1. /\ p \in Nat /\ e \in Nat /\ c \in {3, 4} /\ len \in Nat \ {0}
        /\ e = p + c + len /\ e <= Len(data)
        /\ \A i \in 1 .. c - 1 : data[p + i] = 0
        /\ data[p + c] = 1
    BY <1>1, Zenon DEF UnitAt
  <2> HIDE DEF p, c, e, len
  <2>2. p + c + 1 <= Len(data)
    BY <1>1, <2>1
  <2> QED
    BY <2>1, <2>2
<1> HIDE DEF p, c
<1>3. p + 1 \in Nat \ {0} /\ p + 1 <= Len(data) /\ (p + 1) + c - 1 <= Len(data) /\ (p + 1) + c - 1 = p + c
  BY <1>1, <1>2
<1>4. \A i \in 0 .. c - 2 : data[(p + 1) + i] = 0
  <2> TAKE i \in 0 .. c - 2
  <2>1. i + 1 \in 1 .. c - 1 /\ (p + 1) + i = p + (i + 1)
    BY <1>2
  <2> QED
    BY <1>2, <2>1
<1>5. test_start_code(c, p + 1) = c
  BY <1>1, <1>2, <1>3, <1>4, TestStartCode
<1>6. ASSUME c = 3 PROVE test_start_code(4, p + 1) = 0
  <2>1. data[p + 3] = 1 /\ (p + 1) + 2 = p + 3 /\ 2 \in 0 .. 4 - 2
    BY <1>2, <1>6
  <2>2. test_start_code(4, p + 1) \in {0, 4}
        /\ (test_start_code(4, p + 1) = 4 => \A i \in 0 .. 4 - 2 : data[(p + 1) + i] = 0)
    BY <1>1, <1>3, TestStartCode
  <2> QED
    BY <2>1, <2>2
<1> QED
  BY <1>3, <1>5, <1>6 DEF p, c

(* Nowhere in a unit begins a start code, also none that ends behind it.   *)
LEMMA InsideUnit ==
  ASSUME NalFile(media), NalLayout(media, data),
         NEW k \in 1 .. Len(media.nals), NEW i \in 1 .. Len(media.nals[k]), NEW n \in {3, 4}
  PROVE  test_start_code(n, Pos(media, k - 1) + media.codes[k] + i) = 0
<1> DEFINE p == Pos(media, k - 1) + media.codes[k]
           nal == media.nals[k]
           len == Len(nal)
           pos == p + i
<1>1. data \in Seq(Octet) /\ Len(data) \in Nat /\ UnitAt(media, data, k)
  BY DEF NalLayout
<1>2. /\ nal[len] # 0
      /\ \A j \in 1 .. len - 2 : ~ (nal[j] = 0 /\ nal[j + 1] = 0 /\ nal[j + 2] = 1)
  BY DEF NalFile
<1>3. /\ p \in Nat /\ len \in Nat \ {0}
      /\ \A j \in 1 .. len : data[p + j] = nal[j]
  <2> DEFINE b == Pos(media, k - 1)
             c == media.codes[k]
  <2>1. /\ b \in Nat /\ c \in {3, 4} /\ len \in Nat \ {0}
        /\ \A j \in 1 .. len : data[p + j] = nal[j]
    BY <1>1, Zenon DEF UnitAt
  <2>2. p = b + c
    OBVIOUS
  <2> HIDE DEF p, b, c, len, nal
  <2>3. p \in Nat
    BY <2>1, <2>2
  <2> QED
    BY <2>1, <2>3
<1>4. i \in 1 .. len
  OBVIOUS
<1> HIDE DEF p, nal, len
<1> SUFFICES ASSUME test_start_code(n, pos) = n PROVE FALSE
  <2>1. pos \in Nat \ {0}
    BY <1>3, <1>4
  <2>2. test_start_code(n, pos) \in {0, n}
    BY <1>1, <2>1, TestStartCode
  <2> QED
    BY <2>2 DEF p
<1>5. data[pos + n - 1] = 1 /\ \A j \in 0 .. n - 2 : data[pos + j] = 0
  <2>1. pos \in Nat \ {0}
    BY <1>3, <1>4
  <2> HIDE DEF pos
  <2> QED
    BY <1>1, <2>1, TestStartCode
<1>6. CASE i + n - 1 <= len
  <2> DEFINE j == i + n - 3
  <2>1. /\ j \in 1 .. len - 2 /\ j \in 1 .. len /\ j + 1 \in 1 .. len /\ j + 2 \in 1 .. len
        /\ n - 3 \in 0 .. n - 2 /\ n - 2 \in 0 .. n - 2
        /\ pos + (n - 3) = p + j /\ pos + (n - 2) = p + (j + 1) /\ pos + n - 1 = p + (j + 2)
    BY <1>3, <1>4, <1>6
  <2> HIDE DEF j, pos
  <2>2. data[p + j] = 0 /\ data[p + (j + 1)] = 0 /\ data[p + (j + 2)] = 1
    BY <1>5, <2>1
  <2>3. nal[j] = 0 /\ nal[j + 1] = 0 /\ nal[j + 2] = 1
    BY <1>3, <2>1, <2>2
  <2> QED
    BY <1>2, <2>1, <2>3
<1>7. CASE ~ (i + n - 1 <= len)
  <2> DEFINE j == len - i
  <2>1. j \in 0 .. n - 2 /\ pos + j = p + len /\ len \in 1 .. len
    BY <1>3, <1>4, <1>7
  <2> HIDE DEF j, pos
  <2> QED
    BY <1>2, <1>3, <1>5, <2>1
<1> QED
  BY <1>6, <1>7

(* The tester of a file is that of its first start code.                   *)
LEMMA TesterFits ==
  ASSUME NEW m, NalFile(m)
  PROVE  determine_start_code(AnnexB(m)) = m.codes[1]
<1> DEFINE d == AnnexB(m)
           c == m.codes[1]
<1>1. NalLayout(m, d)
  BY AnnexBLayout
<1>2. 1 \in 1 .. Len(m.nals) /\ Pos(m, 0) = 0 /\ d \in Seq(Octet) /\ Len(d) \in Nat
  BY <1>1 DEF NalLayout
<1>3. UnitAt(m, d, 1) /\ 1 - 1 = 0
  BY <1>1, <1>2 DEF NalLayout
<1> HIDE DEF d
<1>4. /\ c \in {3, 4} /\ 4 <= Len(d) /\ (c = 4 => 5 <= Len(d))
      /\ \A i \in 1 .. c - 1 : d[0 + i] = 0
      /\ d[0 + c] = 1
  BY <1>2, <1>3, SMTT(30) DEF UnitAt
<1> HIDE DEF c
<1>5. SubSeq(d, 1, 3) = start_code(3) <=> d[3] = 1 /\ \A i \in 0 .. 1 : d[1 + i] = 0
  <2>1. 1 + 3 - 1 = 3 /\ 3 - 2 = 1 /\ 1 + 3 - 1 <= Len(d) /\ 3 \in {3, 4} /\ 1 \in Nat \ {0}
    BY <1>2, <1>4
  <2> QED
    BY <1>2, <2>1, StartCodeTest
<1>6. SubSeq(d, 1, 4) = start_code(4) <=> d[4] = 1 /\ \A i \in 0 .. 2 : d[1 + i] = 0
  <2>1. 1 + 4 - 1 = 4 /\ 4 - 2 = 2 /\ 1 + 4 - 1 <= Len(d) /\ 4 \in {3, 4} /\ 1 \in Nat \ {0}
    BY <1>2, <1>4
  <2> QED
    BY <1>2, <2>1, StartCodeTest
<1>7. CASE c = 3
  <2>1. d[3] = 1 /\ d[1] = 0 /\ d[2] = 0
    BY <1>4, <1>7
  <2>2. SubSeq(d, 1, 3) = start_code(3)
    <3>1. \A i \in 0 .. 1 : d[1 + i] = 0
      BY <2>1
    <3> QED
      BY <1>5, <2>1, <3>1
  <2>3. ~ (SubSeq(d, 1, 4) = start_code(4))
    <3>1. 2 \in 0 .. 2 /\ d[1 + 2] # 0
      BY <2>1
    <3> QED
      BY <1>6, <3>1
  <2> QED
    BY <1>7, <2>2, <2>3 DEF determine_start_code, c, d
<1>8. CASE c = 4
  <2>1. d[4] = 1 /\ d[1] = 0 /\ d[2] = 0 /\ d[3] = 0
    BY <1>4, <1>8
  <2>2. SubSeq(d, 1, 4) = start_code(4)
    <3>1. \A i \in 0 .. 2 : d[1 + i] = 0
      BY <2>1
    <3> QED
      BY <1>6, <2>1, <3>1
  <2>3. ~ (SubSeq(d, 1, 3) = start_code(3))
    BY <1>5, <2>1
  <2> QED
    BY <1>8, <2>2, <2>3 DEF determine_start_code, c, d
<1> QED
  BY <1>4, <1>7, <1>8

-----------------------------------------------------------------------------
(* What holds in every state of a stream that plays.                       *)

(* What is sent: octets of a NAL unit, a codestream, a range of audio      *)
(* samples or of an AV1 stream; when it is to be shown; in which callback. *)
Packets == [unit : Seq(Octet) \cup {"codestream"} \cup [from : Nat, count : Int]
                   \cup [range : [offset : Int, length : Int], is_new_cvs : BOOLEAN],
            ts : Nat, tick : Nat]

FileData(m) == CASE m.kind \in {"video", "vvc"} -> AnnexB(m)
                 [] m.kind = "av1" -> Joined(m.tus)
                 [] OTHER -> << >>

(* The file does not change; only some kinds have a stage.                 *)
FileOK ==
  /\ media \in Media /\ data = FileData(media)
  /\ sent \in Seq(Packets)
  /\ stage = "split" => media.kind = "av1"
  /\ stage = "scan" => IsNal(media)
  /\ stage = "ended" => media.kind \in {"audio", "video"}

(* Who shares a callback; and a callback that is not over has not sent a   *)
(* delimiter.                                                              *)
TicksOK ==
  /\ ticks \in Nat
  /\ \A k \in 1 .. Len(sent) : sent[k].tick <= ticks
  /\ \A j, k \in 1 .. Len(sent) :
       j < k /\ sent[j].tick = sent[k].tick =>
         IsNal(media) /\ ~ (IsAud(media, sent[j].unit) /\ IsAud(media, sent[k].unit))
  /\ stage = "scan" =>
       \A k \in 1 .. Len(sent) : sent[k].tick = ticks => ~ IsAud(media, sent[k].unit)

(* One element more. *)
LEMMA AppendOne ==
  ASSUME NEW S, NEW s \in Seq(S), NEW x \in S
  PROVE  /\ Append(s, x) \in Seq(S) /\ Len(s) \in Nat
         /\ Len(Append(s, x)) = Len(s) + 1
         /\ Append(s, x)[Len(s) + 1] = x
         /\ \A k \in 1 .. Len(s) : Append(s, x)[k] = s[k] /\ s[k] \in S
BY AppendProperties, LenProperties, ElementOfSeq

(* A packet of a new callback, or of one that has not sent a delimiter,    *)
(* keeps the callbacks apart; so does a callback without a packet.         *)
LEMMA TicksAfterPacket ==
  ASSUME sent \in Seq(Packets), TicksOK, media' = media,
         NEW x \in Packets, sent' = Append(sent, x), x.tick = ticks',
         \/ ticks' = ticks + 1 /\ stage' # "scan"
         \/ /\ ticks' = ticks /\ IsNal(media) /\ stage = "scan"
            /\ IsAud(media, x.unit) => stage' # "scan"
  PROVE  TicksOK'
<1> DEFINE n == Len(sent)
<1>1. /\ n \in Nat /\ Len(sent') = n + 1 /\ sent'[n + 1] = x
      /\ \A k \in 1 .. n : sent'[k] = sent[k] /\ sent[k] \in Packets
  BY AppendOne
<1> HIDE DEF n
<1>2. ticks' \in Nat /\ ticks \in Nat /\ ticks <= ticks'
  BY DEF TicksOK
<1>3. \A k \in 1 .. n : sent[k].tick \in Nat /\ sent[k].tick <= ticks
  BY <1>1 DEF TicksOK, n, Packets
<1>4. ASSUME NEW k \in 1 .. n + 1 PROVE sent'[k].tick <= ticks'
  <2>1. CASE k = n + 1
    BY <1>1, <1>2, <2>1
  <2>2. CASE k # n + 1
    <3>1. k \in 1 .. n
      BY <1>1, <2>2
    <3>2. sent[k].tick \in Nat /\ sent[k].tick <= ticks /\ sent'[k] = sent[k]
      BY <1>1, <1>3, <3>1
    <3> QED
      BY <1>2, <3>2
  <2> QED
    BY <2>1, <2>2
<1>5. ASSUME NEW j \in 1 .. n + 1, NEW k \in 1 .. n + 1, j < k, sent'[j].tick = sent'[k].tick
      PROVE  IsNal(media) /\ ~ (IsAud(media, sent'[j].unit) /\ IsAud(media, sent'[k].unit))
  <2>1. j \in 1 .. n /\ sent'[j] = sent[j] /\ sent[j].tick \in Nat /\ sent[j].tick <= ticks
    <3>1. j \in 1 .. n
      BY <1>1, <1>5
    <3> QED
      BY <1>1, <1>3, <3>1
  <2>2. CASE k = n + 1
    <3>1. sent'[k] = x /\ sent[j].tick = ticks'
      BY <1>1, <1>5, <2>1, <2>2
    <3>2. ticks' = ticks /\ IsNal(media) /\ stage = "scan"
      BY <1>2, <2>1, <3>1
    <3>3. ~ IsAud(media, sent[j].unit)
      BY <2>1, <3>1, <3>2 DEF TicksOK, n
    <3> QED
      BY <2>1, <3>2, <3>3
  <2>3. CASE k # n + 1
    <3>1. k \in 1 .. n
      BY <1>1, <2>3
    <3>2. sent'[k] = sent[k] /\ sent[j].tick = sent[k].tick
      BY <1>1, <1>5, <2>1, <3>1
    <3> QED
      BY <1>5, <2>1, <3>1, <3>2 DEF TicksOK, n
  <2> QED
    BY <2>2, <2>3
<1>6. ASSUME stage' = "scan", NEW k \in 1 .. n + 1, sent'[k].tick = ticks'
      PROVE  ~ IsAud(media, sent'[k].unit)
  <2>1. ticks' = ticks /\ stage = "scan" /\ ~ IsAud(media, x.unit)
    BY <1>6
  <2>2. CASE k = n + 1
    BY <1>1, <2>1, <2>2
  <2>3. CASE k # n + 1
    <3>1. k \in 1 .. n
      BY <1>1, <2>3
    <3>2. sent'[k] = sent[k]
      BY <1>1, <3>1
    <3> QED
      BY <1>6, <2>1, <3>1, <3>2 DEF TicksOK, n
  <2> QED
    BY <2>2, <2>3
<1> QED
  BY <1>1, <1>2, <1>4, <1>5, <1>6 DEF TicksOK

LEMMA TicksWithoutPacket ==
  ASSUME sent \in Seq(Packets), TicksOK, media' = media, sent' = sent,
         \/ ticks' = ticks + 1
         \/ ticks' = ticks /\ (stage' = "scan" => stage = "scan")
  PROVE  TicksOK'
<1>1. \A k \in 1 .. Len(sent) : sent[k].tick \in Nat
  <2>1. \A k \in 1 .. Len(sent) : sent[k] \in Packets
    BY ElementOfSeq
  <2>2. \A x \in Packets : x.tick \in Nat
    BY DEF Packets
  <2> QED
    BY <2>1, <2>2
<1>2. CASE ticks' = ticks + 1
  <2>1. \A k \in 1 .. Len(sent) : sent[k].tick <= ticks' /\ sent[k].tick # ticks'
    BY <1>1, <1>2 DEF TicksOK
  <2>2. ticks' \in Nat
    BY <1>2 DEF TicksOK
  <2> QED
    BY <2>1, <2>2 DEF TicksOK
<1>3. CASE ticks' = ticks /\ (stage' = "scan" => stage = "scan")
  BY <1>3 DEF TicksOK
<1> QED
  BY <1>2, <1>3

-----------------------------------------------------------------------------
(* Numbers, and what is repeated.                                          *)

LEMMA Remainder ==
  ASSUME NEW q \in Nat, NEW n \in Nat \ {0}
  PROVE  q \div n \in Nat /\ q % n \in 0 .. n - 1 /\ q = n * (q \div n) + (q % n)
BY SMT

LEMMA RemainderUnique ==
  ASSUME NEW n \in Nat \ {0}, NEW a \in Nat, NEW r \in 0 .. n - 1
  PROVE  (n * a + r) % n = r /\ (n * a + r) \div n = a
BY SMT

(* An index that goes round takes one step, or starts again.               *)
LEMMA GoesRound ==
  ASSUME NEW q \in Nat, NEW n \in Nat \ {0}
  PROVE  /\ q % n \in 0 .. n - 1 /\ q % n \in Nat
         /\ (q % n) + 1 < n => (q + 1) % n = (q % n) + 1
         /\ (q % n) + 1 = n => (q + 1) % n = 0
         /\ q < n => q % n = q
         /\ ((q % n) + 1) % n = (q + 1) % n
<1> DEFINE a == q \div n
           r == q % n
<1>1. a \in Nat /\ r \in 0 .. n - 1 /\ q = n * a + r
  BY Remainder
<1> HIDE DEF a, r
<1>2. ASSUME r + 1 < n PROVE (q + 1) % n = r + 1 /\ (r + 1) % n = r + 1
  <2>1. r + 1 \in 0 .. n - 1 /\ q + 1 = n * a + (r + 1)
    BY <1>1, <1>2
  <2>2. (q + 1) % n = r + 1
    BY <1>1, <2>1, RemainderUnique
  <2> QED
    BY <1>1, <2>1, <2>2
<1>3. ASSUME r + 1 = n PROVE (q + 1) % n = 0 /\ (r + 1) % n = 0
  <2>1. 0 \in 0 .. n - 1 /\ q + 1 = n * (a + 1) + 0 /\ a + 1 \in Nat
    <3>1. n * (a + 1) = n * a + n
      BY <1>1
    <3> QED
      BY <1>1, <1>3, <3>1
  <2>2. (q + 1) % n = 0
    BY <2>1, RemainderUnique
  <2>3. n = n * 1 + 0 /\ 1 \in Nat
    OBVIOUS
  <2>4. n % n = 0
    BY <2>1, <2>3, RemainderUnique
  <2> QED
    BY <1>3, <2>2, <2>4
<1>4. ASSUME q < n PROVE r = q
  <2>1. 0 \in Nat /\ q \in 0 .. n - 1 /\ n * 0 + q = q
    BY <1>4
  <2>2. q % n = q
    BY <2>1, RemainderUnique
  <2> QED
    BY <2>2 DEF r
<1>5. r \in Nat /\ (r + 1 < n \/ r + 1 = n)
  BY <1>1
<1> QED
  BY <1>1, <1>2, <1>3, <1>4, <1>5 DEF r

-----------------------------------------------------------------------------
(* H.264 and H.266.                                                        *)

(* The unit after q others, and how many of the first k are delimiters. *)
NextNal(m, q) == Cyclic(m.nals, q + 1)
Auds(m, k) == Cardinality({j \in 1 .. k : IsAud(m, Cyclic(m.nals, j))})

NalUnit(m, k, x) == x.unit = Cyclic(m.nals, k) /\ x.ts = TS_STEP * Auds(m, k)

(* The context stands at the beginning of the file, or in unit k of it.    *)
AtBeginning == ctx.nalu_start = 0 /\ ctx.video = 1
InUnit(k) ==
  /\ ctx.nalu_start = Pos(media, k - 1) + media.codes[k] + 1
  /\ ctx.video \in ctx.nalu_start .. Pos(media, k) + 1

NalFields == {"video", "nalu_start", "timestamp"}

(* Units of this round already sent. *)
Cur == Len(sent) % Len(media.nals)

NalOK ==
  /\ NalFields \subseteq DOMAIN ctx
  /\ media.kind = "video" => ctx.start_code_tester = media.codes[1]
  /\ ctx.timestamp = TS_STEP * Auds(media, Len(sent))
  /\ \A k \in 1 .. Len(sent) : NalUnit(media, k, sent[k])
  /\ stage = "ended" => media.kind = "video" /\ Len(sent) = Len(media.nals)
  /\ stage # "ended" =>
       /\ media.kind = "video" => Len(sent) < Len(media.nals)
       /\ stage = "idle" => AtBeginning \/ ctx.video = ctx.nalu_start
       /\ (AtBeginning /\ Cur = 0) \/ InUnit(Cur + 1)

(* The delimiters among one unit more.                                     *)
LEMMA AudsStep ==
  ASSUME NEW m, NEW q \in Nat
  PROVE  /\ Auds(m, q) \in Nat
         /\ Auds(m, 0) = 0
         /\ Auds(m, q + 1) = Auds(m, q) + IF IsAud(m, NextNal(m, q)) THEN 1 ELSE 0
<1> DEFINE D(k) == {j \in 1 .. k : IsAud(m, Cyclic(m.nals, j))}
<1>1. IsFiniteSet(D(q))
  <2>1. IsFiniteSet(1 .. q)
    BY FS_Interval
  <2>2. D(q) \in SUBSET (1 .. q)
    OBVIOUS
  <2> HIDE DEF D
  <2> QED
    BY <2>1, <2>2, FS_Subset
<1>2. Cardinality(D(q)) \in Nat
  <2> HIDE DEF D
  <2> QED
    BY <1>1, FS_CardinalityType
<1>3. D(0) = {} /\ Cardinality({}) = 0
  BY FS_EmptySet
<1>4. CASE IsAud(m, NextNal(m, q))
  <2>1. D(q + 1) = D(q) \cup {q + 1} /\ q + 1 \notin D(q)
    BY <1>4 DEF NextNal
  <2> HIDE DEF D
  <2>2. Cardinality(D(q + 1)) = Cardinality(D(q)) + 1
    BY <1>1, <2>1, FS_AddElement
  <2> QED
    BY <1>2, <1>3, <1>4, <2>2 DEF Auds, D
<1>5. CASE ~ IsAud(m, NextNal(m, q))
  <2>1. D(q + 1) = D(q)
    BY <1>5 DEF NextNal
  <2> QED
    BY <1>2, <1>3, <1>5, <2>1 DEF Auds
<1> QED
  BY <1>4, <1>5

(* A file of NAL units, and the tester its stream uses. *)
NalState ==
  /\ IsNal(media) /\ NalFile(media) /\ NalLayout(media, data)
  /\ media.kind = "video" => ctx.start_code_tester = media.codes[1]

(* What the search finds before a unit, and in it.                         *)
LEMMA SearchAtSeam ==
  ASSUME NalState, NEW k \in 1 .. Len(media.nals)
  PROVE  /\ Pos(media, k - 1) + 1 \in Nat \ {0} /\ Pos(media, k - 1) + 1 <= Len(data)
         /\ StartCodeLen(Pos(media, k - 1) + 1) = media.codes[k]
         /\ media.codes[k] \in {3, 4}
<1> DEFINE pos == Pos(media, k - 1) + 1
<1>1. /\ pos \in Nat \ {0} /\ pos <= Len(data)
      /\ test_start_code(media.codes[k], pos) = media.codes[k]
      /\ media.codes[k] = 3 => test_start_code(4, pos) = 0
  BY AtSeam DEF NalState
<1>2. media.codes[k] \in {3, 4}
  BY DEF NalState, NalLayout, UnitAt
<1> HIDE DEF pos
<1>3. CASE media.kind = "vvc"
  <2>1. StartCodeLen(pos) = IF test_start_code(4, pos) # 0 THEN 4 ELSE test_start_code(3, pos)
    BY <1>3 DEF StartCodeLen, vvc_test_start_code
  <2> QED
    BY <1>1, <1>2, <2>1 DEF pos
<1>4. CASE media.kind # "vvc"
  <2>1. ctx.start_code_tester = media.codes[1] /\ media.codes[k] = media.codes[1]
    BY <1>4 DEF NalState, IsNal, NalFile
  <2> QED
    BY <1>1, <1>2, <1>4, <2>1 DEF StartCodeLen, pos
<1> QED
  BY <1>3, <1>4

LEMMA SearchInside ==
  ASSUME NalState, NEW k \in 1 .. Len(media.nals), NEW i \in 1 .. Len(media.nals[k])
  PROVE  StartCodeLen(Pos(media, k - 1) + media.codes[k] + i) = 0
<1> DEFINE pos == Pos(media, k - 1) + media.codes[k] + i
<1>1. \A n \in {3, 4} : test_start_code(n, pos) = 0
  BY InsideUnit DEF NalState
<1> HIDE DEF pos
<1>2. CASE media.kind = "vvc"
  BY <1>1, <1>2 DEF StartCodeLen, vvc_test_start_code, pos
<1>3. CASE media.kind # "vvc"
  <2>1. ctx.start_code_tester = media.codes[1] /\ 1 \in 1 .. Len(media.nals)
    BY <1>3 DEF NalState, IsNal, NalLayout
  <2>2. media.codes[1] \in {3, 4}
    BY <2>1 DEF NalState, NalLayout, UnitAt
  <2> QED
    BY <1>1, <1>3, <2>1, <2>2 DEF StartCodeLen, pos
<1> QED
  BY <1>2, <1>3

(* Where a context can stand in unit k, and what it sees there.            *)
LEMMA Place ==
  ASSUME NalState, NEW k \in 1 .. Len(media.nals), InUnit(k)
  PROVE  /\ ctx.video \in Nat /\ ctx.nalu_start \in Nat \ {0}
         /\ ctx.video = ctx.nalu_start => ~ Empty
         /\ Empty => k = Len(media.nals) /\ ctx.video = Pos(media, k) + 1
         /\ ~ Empty /\ StartCodeLen(ctx.video) # 0 =>
              k < Len(media.nals) /\ ctx.video = Pos(media, k) + 1
         /\ ~ Empty /\ StartCodeLen(ctx.video) = 0 => ctx.video <= Pos(media, k)
<1> DEFINE n == Len(media.nals)
           b == Pos(media, k - 1)
           e == Pos(media, k)
           c == media.codes[k]
           len == Len(media.nals[k])
           v == ctx.video
<1>1. /\ n \in Nat \ {0} /\ Len(data) \in Nat /\ Pos(media, n) = Len(data)
      /\ b \in Nat /\ e \in Nat /\ c \in {3, 4} /\ len \in Nat \ {0}
      /\ e = b + c + len /\ e <= Len(data)
  BY DEF NalState, NalLayout, UnitAt
<1>2. ctx.nalu_start = b + c + 1 /\ v \in b + c + 1 .. e + 1
  BY DEF InUnit
<1>3. Empty <=> v > Len(data)
  BY DEF Empty
<1>4. \A i \in 1 .. len : StartCodeLen(b + c + i) = 0
  BY SearchInside
<1>5. k < n => /\ e + 1 <= Len(data)
               /\ StartCodeLen(e + 1) # 0
  <2> SUFFICES ASSUME k < n PROVE e + 1 <= Len(data) /\ StartCodeLen(e + 1) # 0
    OBVIOUS
  <2>1. k + 1 \in 1 .. n /\ (k + 1) - 1 = k
    BY <1>1
  <2> QED
    BY <2>1, SearchAtSeam
<1>6. k \in 1 .. n /\ (k = n => e = Len(data))
  BY <1>1
<1> HIDE DEF n, b, e, c, len, v
<1>7. v \in Nat /\ b + c + 1 \in Nat \ {0} /\ (v = b + c + 1 => v <= Len(data))
  BY <1>1, <1>2
<1>8. ASSUME v # e + 1 PROVE v <= e /\ ~ (v > Len(data)) /\ StartCodeLen(v) = 0
  <2> DEFINE i == v - (b + c)
  <2>1. i \in 1 .. len /\ b + c + i = v /\ v <= e /\ ~ (v > Len(data))
    BY <1>1, <1>2, <1>8
  <2> HIDE DEF i
  <2> QED
    BY <1>4, <2>1
<1>9. v > Len(data) => k = n /\ v = e + 1
  <2> SUFFICES ASSUME v > Len(data) PROVE k = n /\ v = e + 1
    OBVIOUS
  <2>1. v = e + 1
    BY <1>8
  <2>2. ~ (k < n)
    BY <1>1, <1>5, <2>1
  <2> QED
    BY <1>1, <1>6, <2>1, <2>2
<1>10. ~ (v > Len(data)) /\ StartCodeLen(v) # 0 => k < n /\ v = e + 1
  <2> SUFFICES ASSUME ~ (v > Len(data)), StartCodeLen(v) # 0 PROVE k < n /\ v = e + 1
    OBVIOUS
  <2>1. v = e + 1
    BY <1>8
  <2>2. k # n
    BY <1>1, <1>6, <2>1
  <2> QED
    BY <1>1, <1>6, <2>1, <2>2
<1>11. ~ (v > Len(data)) /\ StartCodeLen(v) = 0 => v <= e
  <2> SUFFICES ASSUME ~ (v > Len(data)), StartCodeLen(v) = 0 PROVE v <= e
    OBVIOUS
  <2>1. CASE v = e + 1
    <3>1. k = n
      BY <1>1, <1>5, <1>6, <2>1
    <3> QED
      BY <1>1, <1>6, <2>1, <3>1
  <2> QED
    BY <1>8, <2>1
<1> QED
  BY <1>1, <1>2, <1>3, <1>7, <1>9, <1>10, <1>11 DEF v, e, n

(* What is between two start codes is the unit. *)
LEMMA WholeUnit ==
  ASSUME NalState, NEW k \in 1 .. Len(media.nals),
         ctx.nalu_start = Pos(media, k - 1) + media.codes[k] + 1,
         ctx.video = Pos(media, k) + 1
  PROVE  nalu = media.nals[k] /\ nalu \in Seq(Octet)
<1> DEFINE b == Pos(media, k - 1) + media.codes[k]
           e == Pos(media, k)
           nal == media.nals[k]
           len == Len(nal)
           s == SubSeq(data, b + 1, e)
<1>1. /\ data \in Seq(Octet) /\ Len(data) \in Nat /\ nal \in Seq(Octet)
      /\ b \in Nat /\ e \in Nat /\ len \in Nat \ {0} /\ e = b + len /\ e <= Len(data)
      /\ \A i \in 1 .. len : data[b + i] = nal[i]
  <2>1. UnitAt(media, data, k) /\ data \in Seq(Octet) /\ Len(data) \in Nat
    BY DEF NalState, NalLayout
  <2> DEFINE p == Pos(media, k - 1)
             c == media.codes[k]
  <2>2. /\ p \in Nat /\ e \in Nat /\ c \in {3, 4} /\ len \in Nat \ {0} /\ nal \in Seq(Octet)
        /\ e = p + c + len /\ e <= Len(data)
        /\ \A i \in 1 .. len : data[b + i] = nal[i]
    BY <2>1, Zenon DEF UnitAt
  <2>3. b = p + c
    OBVIOUS
  <2> HIDE DEF b, e, p, c, len, nal
  <2>4. b \in Nat
    BY <2>2, <2>3
  <2> QED
    BY <2>1, <2>2, <2>3, <2>4
<1>2. nalu = SubSeq(data, b + 1, (e + 1) - 1)
  BY DEF nalu
<1> HIDE DEF b, e, nal, len
<1>3. (e + 1) - 1 = e /\ b + 1 \in 1 .. Len(data) + 1 /\ e \in (b + 1) - 1 .. Len(data)
  BY <1>1
<1>4. /\ s \in Seq(Octet) /\ Len(s) = e - (b + 1) + 1
      /\ \A i \in 1 .. e - (b + 1) + 1 : s[i] = data[(b + 1) + i - 1]
  BY <1>1, <1>3, SubSeqProperties
<1>5. e - (b + 1) + 1 = len /\ \A i \in 1 .. len : (b + 1) + i - 1 = b + i
  BY <1>1
<1> HIDE DEF s
<1>6. Len(s) = Len(nal) /\ \A i \in 1 .. Len(s) : s[i] = nal[i]
  BY <1>1, <1>4, <1>5 DEF len
<1>7. s = nal
  BY <1>1, <1>4, <1>6, SeqEqual
<1> QED
  BY <1>1, <1>2, <1>3, <1>7 DEF s, nal

(* What the stream knows of its file. *)
LEMMA NalStateHolds ==
  ASSUME FileOK, NalOK, IsNal(media)
  PROVE  /\ NalState
         /\ Len(media.nals) \in Nat \ {0} /\ Len(sent) \in Nat
         /\ Cur \in 0 .. Len(media.nals) - 1 /\ Cur + 1 \in 1 .. Len(media.nals)
         /\ Len(sent) < Len(media.nals) => Cur = Len(sent)
<1>1. NalFile(media) /\ data = AnnexB(media)
  BY MediaAssumption DEF FileOK, FileData, IsNal
<1>2. NalLayout(media, data)
  BY <1>1, AnnexBLayout
<1>3. NalState
  BY <1>1, <1>2 DEF NalState, NalOK
<1>4. Len(media.nals) \in Nat \ {0} /\ Len(sent) \in Nat
  BY <1>2, LenProperties DEF NalLayout, FileOK
<1>5. Cur \in 0 .. Len(media.nals) - 1 /\ (Len(sent) < Len(media.nals) => Cur = Len(sent))
  BY <1>4, GoesRound DEF Cur
<1>6. Cur + 1 \in 1 .. Len(media.nals)
  BY <1>4, <1>5
<1> QED
  BY <1>3, <1>4, <1>5, <1>6

(* A unit goes out when its end is found: it is the next one of the file,  *)
(* with the timestamp of its access unit.                                  *)
LEMMA NalGoesOut ==
  ASSUME FileOK, TicksOK, NalOK, IsNal(media), stage # "ended",
         InUnit(Cur + 1), ctx.video = Pos(media, Cur + 1) + 1,
         media' = media, ticks' \in {ticks, ticks + 1},
         NEW next, send_nalu(next)
  PROVE  /\ ctx' = [next EXCEPT !.timestamp = TS_STEP * Auds(media, Len(sent'))]
         /\ \E x \in Packets :
              /\ sent' = Append(sent, x) /\ x.tick = ticks'
              /\ IsAud(media, x.unit) <=> IsAud(media, nalu)
         /\ sent' \in Seq(Packets) /\ Len(sent') = Len(sent) + 1
         /\ \A k \in 1 .. Len(sent') : NalUnit(media, k, sent'[k])
<1> DEFINE n == Len(media.nals)
           q == Len(sent)
           A == IsAud(media, nalu)
           ts == ctx.timestamp + (IF A THEN TS_STEP ELSE 0)
           x == [unit |-> nalu, ts |-> ts, tick |-> ticks']
<1>1. NalState /\ n \in Nat \ {0} /\ q \in Nat /\ Cur + 1 \in 1 .. n
  BY NalStateHolds
<1>2. nalu = media.nals[Cur + 1] /\ nalu \in Seq(Octet)
  BY <1>1, WholeUnit DEF InUnit
<1>3. NextNal(media, q) = media.nals[Cur + 1]
  <2>1. (q + 1) - 1 = q
    BY <1>1
  <2> QED
    BY <2>1 DEF NextNal, Cyclic, Cur
<1>4. /\ Auds(media, q) \in Nat /\ Auds(media, q + 1) \in Nat
      /\ Auds(media, q + 1) = Auds(media, q) + IF A THEN 1 ELSE 0
  <2>1. /\ Auds(media, q) \in Nat
        /\ Auds(media, q + 1) = Auds(media, q) + IF IsAud(media, NextNal(media, q)) THEN 1 ELSE 0
    BY <1>1, AudsStep
  <2>2. IsAud(media, NextNal(media, q)) <=> A
    BY <1>2, <1>3
  <2>3. Auds(media, q + 1) = Auds(media, q) + IF A THEN 1 ELSE 0
    BY <2>1, <2>2
  <2> QED
    BY <2>1, <2>3
<1>5. sent' = Append(sent, x) /\ ctx' = [next EXCEPT !.timestamp = ts]
  BY DEF send_nalu, Sends
<1>6. ts = TS_STEP * Auds(media, q + 1) /\ ts \in Nat
  <2>1. TS_STEP \in Nat /\ ctx.timestamp = TS_STEP * Auds(media, q)
    BY MediaAssumption DEF NalOK
  <2> HIDE DEF A
  <2>2. CASE A
    <3>1. TS_STEP * (Auds(media, q) + 1) = TS_STEP * Auds(media, q) + TS_STEP
          /\ TS_STEP * (Auds(media, q) + 1) \in Nat
      BY <1>4, <2>1
    <3> QED
      BY <1>4, <2>1, <2>2, <3>1
  <2>3. CASE ~ A
    <3>1. Auds(media, q + 1) = Auds(media, q) /\ ts = ctx.timestamp + 0
      BY <1>4, <2>3
    <3>2. TS_STEP * Auds(media, q) \in Nat
      BY <1>4, <2>1
    <3> QED
      BY <2>1, <3>1, <3>2
  <2> QED
    BY <2>2, <2>3
<1>7. x \in Packets
  <2>1. ticks' \in Nat
    BY DEF TicksOK
  <2> HIDE DEF ts
  <2> QED
    BY <1>2, <1>6, <2>1 DEF Packets
<1>8. x.unit = nalu /\ x.ts = ts /\ x.tick = ticks'
  OBVIOUS
<1> HIDE DEF x, ts
<1>9. sent \in Seq(Packets)
  BY DEF FileOK
<1>10. /\ sent' \in Seq(Packets) /\ Len(sent') = q + 1 /\ sent'[q + 1] = x
       /\ \A k \in 1 .. q : sent'[k] = sent[k]
  BY <1>5, <1>7, <1>9, AppendOne
<1>11. NalUnit(media, q + 1, x)
  BY <1>2, <1>3, <1>6, <1>8 DEF NalUnit, NextNal
<1>12. ASSUME NEW k \in 1 .. q + 1 PROVE NalUnit(media, k, sent'[k])
  <2>1. CASE k = q + 1
    BY <1>10, <1>11, <2>1
  <2>2. CASE k # q + 1
    <3>1. k \in 1 .. q
      BY <1>1, <2>2
    <3> QED
      BY <1>10, <3>1 DEF NalOK
  <2> QED
    BY <2>1, <2>2
<1>13. IsAud(media, x.unit) <=> A
  BY <1>8
<1> QED
  BY <1>5, <1>6, <1>7, <1>8, <1>10, <1>12, <1>13

(* How the unit that is counted on moves with what is sent. *)
LEMMA CurMoves ==
  ASSUME FileOK, NalOK, IsNal(media), media' = media, Len(sent') = Len(sent) + 1
  PROVE  /\ Cur + 1 < Len(media.nals) => Cur' = Cur + 1
         /\ Cur + 1 = Len(media.nals) => Cur' = 0
<1>1. Len(media.nals) \in Nat \ {0} /\ Len(sent) \in Nat
  BY NalStateHolds
<1>2. Cur' = (Len(sent) + 1) % Len(media.nals)
  BY DEF Cur
<1> QED
  BY <1>1, <1>2, GoesRound DEF Cur

(* The beginning of a file is a start code. *)
LEMMA Beginning ==
  ASSUME NalState
  PROVE  /\ 1 <= Len(data) /\ Len(data) \in Nat
         /\ StartCodeLen(1) = media.codes[1] /\ media.codes[1] \in {3, 4}
         /\ Pos(media, 0) = 0 /\ Pos(media, 1) \in Nat /\ media.codes[1] < Pos(media, 1)
<1>1. 1 \in 1 .. Len(media.nals) /\ 1 - 1 = 0 /\ Pos(media, 0) = 0 /\ 0 + 1 = 1 /\ Len(data) \in Nat
  BY DEF NalState, NalLayout
<1>2. /\ Pos(media, 0) + 1 <= Len(data) /\ StartCodeLen(Pos(media, 0) + 1) = media.codes[1]
      /\ media.codes[1] \in {3, 4}
  BY <1>1, SearchAtSeam
<1>3. UnitAt(media, data, 1)
  BY <1>1 DEF NalState, NalLayout
<1> DEFINE e == Pos(media, 1)
           len == Len(media.nals[1])
           c == media.codes[1]
<1>4. e \in Nat /\ len \in Nat \ {0} /\ e = 0 + c + len
  BY <1>1, <1>3 DEF UnitAt
<1>5. c \in {3, 4}
  BY <1>2
<1> HIDE DEF e, len, c
<1>6. c < e
  BY <1>4, <1>5
<1> QED
  BY <1>1, <1>2, <1>4, <1>6 DEF e, c

(* A context that is not over stands somewhere. *)
LEMMA NotEmptyAtBeginning ==
  ASSUME NalState, AtBeginning
  PROVE  ~ Empty /\ StartCodeLen(ctx.video) # 0 /\ ctx.video = 1
         /\ StartCodeLen(ctx.video) = media.codes[1]
BY Beginning DEF AtBeginning, Empty

(* A callback begins: its context is in a unit, not behind the last. *)
LEMMA VideoCallback ==
  ASSUME FileOK, TicksOK, NalOK, IsNal(media), send_video_packet_cb
  PROVE  FileOK' /\ TicksOK' /\ NalOK'
<1>1. /\ stage = "idle" /\ ticks' = ticks + 1 /\ media' = media /\ data' = data /\ stage' = "scan"
  BY DEF send_video_packet_cb, Tick
<1>2. NalState /\ Cur + 1 \in 1 .. Len(media.nals)
  BY NalStateHolds
<1>3. ~ Empty
  <2>1. CASE AtBeginning
    BY <1>2, <2>1, NotEmptyAtBeginning
  <2>2. CASE ~ AtBeginning
    <3>1. InUnit(Cur + 1) /\ ctx.video = ctx.nalu_start
      BY <1>1, <2>2 DEF NalOK
    <3> QED
      BY <1>2, <3>1, Place
  <2> QED
    BY <2>1, <2>2
<1>4. ctx' = ctx /\ sent' = sent
  BY <1>3 DEF send_video_packet_cb
<1>5. FileOK'
  BY <1>1, <1>4 DEF FileOK
<1>6. TicksOK'
  BY <1>1, <1>4, TicksWithoutPacket DEF FileOK
<1>7. NalOK'
  <2>1. (Cur = Cur') /\ (AtBeginning <=> AtBeginning') /\ (InUnit(Cur + 1) <=> InUnit(Cur + 1)')
    BY <1>1, <1>4 DEF Cur, AtBeginning, InUnit
  <2>2. \A k \in 1 .. Len(sent') : NalUnit(media', k, sent'[k])
    BY <1>1, <1>4 DEF NalOK
  <2>3. (AtBeginning' /\ Cur' = 0) \/ InUnit(Cur + 1)'
    BY <1>1, <2>1 DEF NalOK
  <2> QED
    BY <1>1, <1>4, <2>2, <2>3 DEF NalOK
<1> QED
  BY <1>5, <1>6, <1>7

(* The search goes on within a unit. *)
LEMMA NoStartCodeStep ==
  ASSUME FileOK, TicksOK, NalOK, IsNal(media), NoStartCode
  PROVE  FileOK' /\ TicksOK' /\ NalOK'
<1>1. /\ stage = "scan" /\ ticks' = ticks /\ media' = media /\ data' = data /\ stage' = stage
      /\ sent' = sent /\ ctx' = [ctx EXCEPT !.video = ctx.video + 1]
      /\ ~ Empty /\ StartCodeLen(ctx.video) = 0
  BY DEF NoStartCode, InScan
<1>2. NalState /\ Cur + 1 \in 1 .. Len(media.nals)
  BY NalStateHolds
<1>3. InUnit(Cur + 1)
  BY <1>1, <1>2, NotEmptyAtBeginning DEF NalOK
<1>4. /\ ctx.video \in Nat /\ ctx.nalu_start \in Nat /\ ctx.video <= Pos(media, Cur + 1)
  BY <1>1, <1>2, <1>3, Place
<1>5. NalFields \subseteq DOMAIN ctx
  BY DEF NalOK
<1>6. /\ DOMAIN ctx' = DOMAIN ctx /\ ctx'.video = ctx.video + 1 /\ ctx'.nalu_start = ctx.nalu_start
      /\ ctx'.timestamp = ctx.timestamp /\ ctx'.start_code_tester = ctx.start_code_tester
  BY <1>1, <1>5 DEF NalFields
<1>7. Pos(media, Cur + 1) \in Nat
  BY <1>2 DEF NalState, NalLayout, UnitAt
<1>8. ctx'.video \in ctx'.nalu_start .. Pos(media, Cur + 1) + 1
  BY <1>3, <1>4, <1>6, <1>7 DEF InUnit
<1>9. Cur' = Cur /\ InUnit(Cur + 1)'
  BY <1>1, <1>3, <1>6, <1>8 DEF Cur, InUnit
<1>10. FileOK'
  BY <1>1 DEF FileOK
<1>11. TicksOK'
  BY <1>1, TicksWithoutPacket DEF FileOK
<1>12. NalOK'
  <2>1. \A k \in 1 .. Len(sent') : NalUnit(media', k, sent'[k])
    BY <1>1 DEF NalOK
  <2> QED
    BY <1>1, <1>5, <1>6, <1>9, <2>1 DEF NalOK
<1> QED
  BY <1>10, <1>11, <1>12

(* The file is over: so is its last unit. *)
LEMMA EndOfFileStep ==
  ASSUME FileOK, TicksOK, NalOK, IsNal(media), EndOfFile
  PROVE  FileOK' /\ TicksOK' /\ NalOK'
<1> DEFINE n == Len(media.nals)
           q == Len(sent)
<1>1. /\ stage = "scan" /\ ticks' = ticks /\ media' = media /\ data' = data /\ Empty
  BY DEF EndOfFile, InScan
<1>2. NalState /\ Cur + 1 \in 1 .. n /\ n \in Nat \ {0} /\ q \in Nat /\ (q < n => Cur = q)
  BY NalStateHolds
<1>3. InUnit(Cur + 1)
  BY <1>1, <1>2, NotEmptyAtBeginning DEF NalOK
<1>4. Cur + 1 = n /\ ctx.video = Pos(media, Cur + 1) + 1
  BY <1>1, <1>2, <1>3, Place
<1>5. NalFields \subseteq DOMAIN ctx
  BY DEF NalOK
<1>6. media.kind \in {"video", "vvc"} /\ ticks \in {ticks, ticks + 1} /\ stage # "ended"
  BY <1>1 DEF IsNal
<1>7. CASE media.kind = "vvc"
  <2>1. send_nalu(Rewound) /\ stage' = "idle"
    BY <1>7 DEF EndOfFile
  <2>2. /\ ctx' = [Rewound EXCEPT !.timestamp = TS_STEP * Auds(media, Len(sent'))]
        /\ \E x \in Packets :
             /\ sent' = Append(sent, x) /\ x.tick = ticks'
             /\ IsAud(media, x.unit) <=> IsAud(media, nalu)
        /\ sent' \in Seq(Packets) /\ Len(sent') = Len(sent) + 1
        /\ \A k \in 1 .. Len(sent') : NalUnit(media, k, sent'[k])
    BY <1>1, <1>3, <1>4, <1>6, <2>1, NalGoesOut
  <2>3. /\ NalFields \subseteq DOMAIN ctx' /\ ctx'.video = 1 /\ ctx'.nalu_start = 0
        /\ ctx'.timestamp = TS_STEP * Auds(media, Len(sent'))
    BY <1>5, <2>2 DEF Rewound, NalFields
  <2>4. Cur' = 0
    BY <1>1, <1>4, <2>2, CurMoves
  <2>5. FileOK'
    BY <1>1, <2>1, <2>2 DEF FileOK
  <2>6. TicksOK'
    BY <1>1, <2>1, <2>2, TicksAfterPacket DEF FileOK
  <2>7. NalOK'
    <3>1. AtBeginning'
      BY <2>3 DEF AtBeginning
    <3> QED
      BY <1>1, <1>7, <2>1, <2>2, <2>3, <2>4, <3>1 DEF NalOK
  <2> QED
    BY <2>5, <2>6, <2>7
<1>8. CASE media.kind = "video"
  <2>1. send_nalu(ctx) /\ stage' = "ended"
    BY <1>8 DEF EndOfFile
  <2>2. /\ ctx' = [ctx EXCEPT !.timestamp = TS_STEP * Auds(media, Len(sent'))]
        /\ \E x \in Packets :
             /\ sent' = Append(sent, x) /\ x.tick = ticks'
             /\ IsAud(media, x.unit) <=> IsAud(media, nalu)
        /\ sent' \in Seq(Packets) /\ Len(sent') = Len(sent) + 1
        /\ \A k \in 1 .. Len(sent') : NalUnit(media, k, sent'[k])
    BY <1>1, <1>3, <1>4, <1>6, <2>1, NalGoesOut
  <2>3. /\ NalFields \subseteq DOMAIN ctx' /\ ctx'.start_code_tester = ctx.start_code_tester
        /\ ctx'.timestamp = TS_STEP * Auds(media, Len(sent'))
    BY <1>5, <2>2 DEF NalFields
  <2>4. Len(sent') = n
    <3>1. q < n
      BY <1>1, <1>8 DEF NalOK
    <3> QED
      BY <1>2, <1>4, <2>2, <3>1
  <2>5. FileOK'
    BY <1>1, <1>8, <2>1, <2>2 DEF FileOK
  <2>6. TicksOK'
    BY <1>1, <2>1, <2>2, TicksAfterPacket DEF FileOK
  <2>7. NalOK'
    BY <1>1, <1>8, <2>1, <2>2, <2>3, <2>4 DEF NalOK
  <2> QED
    BY <2>5, <2>6, <2>7
<1> QED
  BY <1>6, <1>7, <1>8

(* Behind a start code a unit begins. *)
LEMMA UnitBegins ==
  ASSUME NalState, NEW k \in 1 .. Len(media.nals)
  PROVE  LET start == Pos(media, k - 1) + media.codes[k] + 1
         IN  start \in Nat /\ start \in start .. Pos(media, k) + 1
<1> DEFINE p == Pos(media, k - 1)
           e == Pos(media, k)
           c == media.codes[k]
           len == Len(media.nals[k])
<1>1. p \in Nat /\ e \in Nat /\ c \in {3, 4} /\ len \in Nat \ {0} /\ e = p + c + len
  BY DEF NalState, NalLayout, UnitAt
<1> HIDE DEF p, e, c, len
<1>2. p + c + 1 \in Nat /\ p + c + 1 \in p + c + 1 .. e + 1
  BY <1>1
<1> QED
  BY <1>2 DEF p, e, c

(* A start code: the first one, or the end of a unit. *)
LEMMA StartCodeStep ==
  ASSUME FileOK, TicksOK, NalOK, IsNal(media), StartCode
  PROVE  FileOK' /\ TicksOK' /\ NalOK'
<1> DEFINE n == Len(media.nals)
           q == Len(sent)
           code == StartCodeLen(ctx.video)
           next == [ctx EXCEPT !.video = ctx.video + code, !.nalu_start = ctx.video + code]
           au_found == ctx.nalu_start # 0 /\ IsAud(media, nalu)
<1>1. /\ stage = "scan" /\ ticks' = ticks /\ media' = media /\ data' = data /\ ~ Empty /\ code # 0
      /\ stage' = IF au_found THEN "idle" ELSE "scan"
      /\ IF ctx.nalu_start = 0 THEN ctx' = next /\ sent' = sent ELSE send_nalu(next)
  BY DEF StartCode, InScan
<1>2. NalState /\ Cur + 1 \in 1 .. n /\ n \in Nat \ {0} /\ q \in Nat /\ (q < n => Cur = q)
  BY NalStateHolds
<1>3. NalFields \subseteq DOMAIN ctx /\ stage # "ended"
  BY <1>1 DEF NalOK
<1>4. /\ DOMAIN next = DOMAIN ctx /\ next.video = ctx.video + code
      /\ next.nalu_start = ctx.video + code /\ next.timestamp = ctx.timestamp
      /\ next.start_code_tester = ctx.start_code_tester
  <2> HIDE DEF code
  <2> QED
    BY <1>3 DEF NalFields
<1>5. CASE ~ InUnit(Cur + 1)
  <2>1. AtBeginning /\ Cur = 0
    BY <1>1, <1>5 DEF NalOK
  <2>2. /\ ctx.video = 1 /\ ctx.nalu_start = 0 /\ code = media.codes[1]
        /\ Pos(media, 0) = 0 /\ media.codes[1] \in {3, 4}
    BY <1>2, <2>1, NotEmptyAtBeginning, Beginning DEF AtBeginning
  <2>3. ctx' = next /\ sent' = sent /\ stage' = "scan"
    BY <1>1, <2>2
  <2>4. FileOK'
    BY <1>1, <2>3 DEF FileOK
  <2>5. TicksOK'
    BY <1>1, <2>3, TicksWithoutPacket DEF FileOK
  <2>6. NalOK'
    <3>1. 1 \in 1 .. n /\ 1 - 1 = 0
      BY <1>2
    <3> HIDE DEF code, next
    <3>2. ctx'.nalu_start = Pos(media, 0) + media.codes[1] + 1 /\ ctx'.video = ctx'.nalu_start
      BY <1>4, <2>2, <2>3
    <3>3. ctx'.video \in ctx'.nalu_start .. Pos(media, 1) + 1
      BY <1>2, <3>1, <3>2, UnitBegins
    <3>4. Cur' = 0
      BY <1>1, <2>1, <2>3 DEF Cur
    <3>5. InUnit(1)'
      BY <1>1, <3>1, <3>2, <3>3 DEF InUnit
    <3>6. InUnit(Cur + 1)'
      BY <3>4, <3>5
    <3>7. \A k \in 1 .. Len(sent') : NalUnit(media', k, sent'[k])
      BY <1>1, <2>3 DEF NalOK
    <3> QED
      BY <1>1, <1>3, <1>4, <2>3, <3>6, <3>7 DEF NalOK
  <2> QED
    BY <2>4, <2>5, <2>6
<1>6. CASE InUnit(Cur + 1)
  <2>1. Cur + 1 < n /\ ctx.video = Pos(media, Cur + 1) + 1 /\ ctx.nalu_start # 0
    BY <1>1, <1>2, <1>6, Place
  <2> DEFINE k == Cur + 1
  <2>2. k \in 1 .. n /\ k + 1 \in 1 .. n /\ (k + 1) - 1 = k
    BY <1>2, <2>1
  <2>3. code = media.codes[k + 1] /\ code \in {3, 4} /\ Pos(media, k) \in Nat
    <3>1. UnitAt(media, data, k)
      BY <1>2, <2>2 DEF NalState, NalLayout
    <3>2. /\ StartCodeLen(Pos(media, (k + 1) - 1) + 1) = media.codes[k + 1]
          /\ media.codes[k + 1] \in {3, 4}
      BY <1>2, <2>2, SearchAtSeam
    <3>3. Pos(media, k) \in Nat
      BY <3>1 DEF UnitAt
    <3>4. Pos(media, (k + 1) - 1) + 1 = ctx.video
      BY <2>1, <2>2
    <3> QED
      BY <3>2, <3>3, <3>4
  <2>4. send_nalu(next) /\ (IsAud(media, nalu) => stage' = "idle")
    BY <1>1, <2>1
  <2>5. /\ ctx' = [next EXCEPT !.timestamp = TS_STEP * Auds(media, Len(sent'))]
        /\ \E x \in Packets :
             /\ sent' = Append(sent, x) /\ x.tick = ticks'
             /\ IsAud(media, x.unit) <=> IsAud(media, nalu)
        /\ sent' \in Seq(Packets) /\ Len(sent') = Len(sent) + 1
        /\ \A j \in 1 .. Len(sent') : NalUnit(media, j, sent'[j])
    <3>1. ticks' \in {ticks, ticks + 1}
      BY <1>1
    <3> HIDE DEF next
    <3> QED
      BY <1>1, <1>3, <1>6, <2>1, <2>4, <3>1, NalGoesOut
  <2>6. /\ DOMAIN ctx' = DOMAIN ctx /\ ctx'.video = ctx.video + code
        /\ ctx'.nalu_start = ctx.video + code /\ ctx'.start_code_tester = ctx.start_code_tester
        /\ ctx'.timestamp = TS_STEP * Auds(media, Len(sent'))
    <3> HIDE DEF code, next
    <3> QED
      BY <1>3, <1>4, <2>5 DEF NalFields
  <2>7. Cur' = k
    BY <1>1, <2>1, <2>5, CurMoves
  <2>8. stage' \in {"idle", "scan"}
    BY <1>1
  <2>9. FileOK'
    BY <1>1, <2>5, <2>8 DEF FileOK
  <2>10. TicksOK'
    <3>1. PICK x \in Packets : /\ sent' = Append(sent, x) /\ x.tick = ticks'
                               /\ IsAud(media, x.unit) <=> IsAud(media, nalu)
      BY <2>5
    <3>2. IsAud(media, x.unit) => stage' # "scan"
      BY <2>4, <3>1
    <3> QED
      BY <1>1, <3>1, <3>2, TicksAfterPacket DEF FileOK
  <2>11. NalOK'
    <3> HIDE DEF code, next, k
    <3>1. ctx'.nalu_start = Pos(media, k) + media.codes[k + 1] + 1 /\ ctx'.video = ctx'.nalu_start
      BY <2>1, <2>3, <2>6 DEF k
    <3>2. ctx'.video \in ctx'.nalu_start .. Pos(media, k + 1) + 1
      BY <1>2, <2>2, <3>1, UnitBegins
    <3>4. InUnit(Cur + 1)'
      BY <1>1, <2>2, <2>7, <3>1, <3>2 DEF InUnit
    <3>5. media.kind = "video" => Len(sent') < n
      <4> SUFFICES ASSUME media.kind = "video" PROVE Len(sent') < n
        OBVIOUS
      <4>1. q < n
        BY <1>3 DEF NalOK
      <4> QED
        BY <1>2, <2>1, <2>5, <4>1
    <3>6. \A j \in 1 .. Len(sent') : NalUnit(media', j, sent'[j])
      BY <1>1, <2>5
    <3> QED
      BY <1>1, <1>3, <2>5, <2>6, <2>8, <3>1, <3>4, <3>5, <3>6 DEF NalOK
  <2> QED
    BY <2>9, <2>10, <2>11
<1> QED
  BY <1>5, <1>6

-----------------------------------------------------------------------------
(* Audio.                                                                  *)

AudioRange(m, k) ==
  LET from == (k - 1) * AUDIO_SAMPLES_PER_PACKET
  IN  [from |-> from, count |-> Lesser(AUDIO_SAMPLES_PER_PACKET, m.len - from)]

AudioUnit(m, k, x) ==
  x.unit = AudioRange(m, k) /\ x.ts = (k - 1) * AUDIO_SAMPLES_PER_PACKET

(* No packet is empty; at the end nothing is left. *)
AudioOK ==
  /\ ctx = [i |-> Len(sent)]
  /\ stage \in {"idle", "ended"}
  /\ \A k \in 1 .. Len(sent) : AudioUnit(media, k, sent[k])
  /\ Len(sent) # 0 => (Len(sent) - 1) * AUDIO_SAMPLES_PER_PACKET < media.len
  /\ stage = "ended" => media.len <= Len(sent) * AUDIO_SAMPLES_PER_PACKET

LEMMA LesserOfTwo ==
  ASSUME NEW a \in Int, NEW b \in Int
  PROVE  /\ Lesser(a, b) \in Int
         /\ a <= b => Lesser(a, b) = a
         /\ b <= a => Lesser(a, b) = b
BY DEF Lesser

(* What is left of a file after whole packets. *)
LEMMA AudioRest ==
  ASSUME NEW len \in Nat, NEW i \in Nat, NEW A \in Nat \ {0}, i * A < len, len < i * A + A
  PROVE  len % A = len - i * A
<1> DEFINE r == len - i * A
<1>1. i * A \in Nat /\ A * i = i * A
  BY SMT
<1>2. r \in 0 .. A - 1 /\ len = A * i + r
  BY <1>1
<1> HIDE DEF r
<1>3. (A * i + r) % A = r
  BY <1>2, RemainderUnique
<1> QED
  BY <1>2, <1>3 DEF r

(* As many packets as it takes. *)
LEMMA AudioTotal ==
  ASSUME NEW len \in Nat, NEW q \in Nat, NEW A \in Nat \ {0},
         q # 0 => (q - 1) * A < len, len <= q * A
  PROVE  (len + A - 1) \div A = q
<1> DEFINE r == len + A - 1 - A * q
<1>1. q * A = A * q /\ A * q \in Nat /\ (q - 1) * A = A * q - A /\ (q = 0 => A * q = 0)
  BY SMT
<1>2. r \in 0 .. A - 1 /\ len + A - 1 = A * q + r
  BY <1>1
<1> HIDE DEF r
<1>3. (A * q + r) \div A = q
  BY <1>2, RemainderUnique
<1> QED
  BY <1>2, <1>3

LEMMA AudioStep ==
  ASSUME FileOK, TicksOK, AudioOK, media.kind = "audio", send_audio_packet_cb
  PROVE  FileOK' /\ TicksOK' /\ AudioOK'
<1> DEFINE q == Len(sent)
           A == AUDIO_SAMPLES_PER_PACKET
           len == media.len
           offset == q * A
<1>1. /\ media' = media /\ data' = data /\ ticks' = ticks + 1 /\ stage = "idle"
  BY DEF send_audio_packet_cb, Tick
<1>2. ctx = [i |-> q] /\ ctx.i = q /\ q \in Nat /\ len \in Nat /\ A \in Nat \ {0} /\ ticks' \in Nat
  <2>1. len \in Nat /\ A \in Nat \ {0}
    BY MediaAssumption DEF FileOK, AudioFile
  <2>2. q \in Nat
    BY LenProperties DEF FileOK
  <2> QED
    BY <1>1, <2>1, <2>2 DEF AudioOK, TicksOK
<1>3. offset \in Nat
  BY <1>2
<1>4. CASE offset >= len
  <2>1. stage' = "ended" /\ ctx' = ctx /\ sent' = sent
    BY <1>2, <1>4 DEF send_audio_packet_cb
  <2>2. FileOK'
    BY <1>1, <2>1 DEF FileOK
  <2>3. TicksOK'
    BY <1>1, <2>1, TicksWithoutPacket DEF FileOK
  <2>4. len <= offset
    BY <1>2, <1>3, <1>4
  <2>5. AudioOK'
    BY <1>1, <2>1, <2>4 DEF AudioOK
  <2> QED
    BY <2>2, <2>3, <2>5
<1>5. CASE ~ (offset >= len)
  <2> DEFINE x == [unit |-> [from |-> offset, count |-> samples_count], ts |-> offset, tick |-> ticks']
  <2>1. stage' = "idle" /\ ctx' = [ctx EXCEPT !.i = ctx.i + 1] /\ sent' = Append(sent, x)
    BY <1>1, <1>2, <1>5 DEF send_audio_packet_cb, Sends
  <2>2. samples_count = Lesser(A, len - offset) /\ samples_count \in Int
    <3>1. samples_count = IF len < offset + A THEN len % A ELSE A
      BY <1>2 DEF samples_count
    <3>2. CASE len < offset + A
      <4> HIDE DEF A, q, len
      <4>1. len % A = len - offset
        <5>1. offset < len
          <6> HIDE DEF offset
          <6> QED
            BY <1>2, <1>3, <1>5
        <5>2. len \in Nat /\ q \in Nat /\ A \in Nat \ {0}
          BY <1>2
        <5> QED
          BY <3>2, <5>1, <5>2, AudioRest
      <4> HIDE DEF offset
      <4>2. len - offset \in Int /\ A \in Int /\ len - offset <= A
        BY <1>2, <1>3, <3>2
      <4>3. Lesser(A, len - offset) = len - offset
        BY <4>2, LesserOfTwo
      <4> QED
        BY <3>1, <3>2, <4>1, <4>2, <4>3
    <3>3. CASE ~ (len < offset + A)
      <4> HIDE DEF A, q, len, offset
      <4>1. len - offset \in Int /\ A \in Int /\ A <= len - offset
        BY <1>2, <1>3, <3>3
      <4>2. Lesser(A, len - offset) = A
        BY <4>1, LesserOfTwo
      <4> QED
        BY <3>1, <3>3, <4>1, <4>2
    <3> QED
      BY <3>2, <3>3
  <2>3. x \in Packets
    <3>1. [from |-> offset, count |-> samples_count] \in [from : Nat, count : Int]
      BY <1>3, <2>2
    <3> HIDE DEF offset
    <3> QED
      BY <1>2, <1>3, <3>1 DEF Packets
  <2>4. AudioUnit(media, q + 1, x) /\ x.tick = ticks'
    <3>1. (q + 1) - 1 = q
      BY <1>2
    <3> QED
      BY <2>2, <3>1 DEF AudioUnit, AudioRange
  <2> HIDE DEF x
  <2>5. /\ sent' \in Seq(Packets) /\ Len(sent') = q + 1 /\ sent'[q + 1] = x
        /\ \A k \in 1 .. q : sent'[k] = sent[k]
    BY <2>1, <2>3, AppendOne DEF FileOK
  <2>6. FileOK'
    BY <1>1, <2>1, <2>5 DEF FileOK
  <2>7. TicksOK'
    BY <1>1, <2>1, <2>3, <2>4, TicksAfterPacket DEF FileOK
  <2>8. AudioOK'
    <3>1. ctx' = [i |-> Len(sent')]
      BY <1>2, <2>1, <2>5
    <3>2. ASSUME NEW k \in 1 .. Len(sent') PROVE AudioUnit(media, k, sent'[k])
      <4>1. CASE k = q + 1
        BY <2>4, <2>5, <4>1
      <4>2. CASE k # q + 1
        <5>1. k \in 1 .. q
          BY <1>2, <2>5, <4>2
        <5> QED
          BY <2>5, <5>1 DEF AudioOK
      <4> QED
        BY <4>1, <4>2
    <3>3. (Len(sent') - 1) * A < len
      <4>1. Len(sent') - 1 = q
        BY <1>2, <2>5
      <4>2. offset < len
        BY <1>2, <1>3, <1>5
      <4> QED
        BY <4>1, <4>2
    <3> QED
      BY <1>1, <2>1, <3>1, <3>2, <3>3 DEF AudioOK
  <2> QED
    BY <2>6, <2>7, <2>8
<1> QED
  BY <1>4, <1>5

-----------------------------------------------------------------------------
(* JPEG XS.                                                                *)

JpegXsUnit(k, x) == x.unit = "codestream" /\ x.ts = TS_STEP * k

JpegXsOK ==
  /\ stage = "idle"
  /\ ctx = [timestamp |-> TS_STEP * Len(sent)]
  /\ \A k \in 1 .. Len(sent) : JpegXsUnit(k, sent[k])

LEMMA JpegXsStep ==
  ASSUME FileOK, TicksOK, JpegXsOK, media.kind = "jpegxs", send_jpegxs_packet_cb
  PROVE  FileOK' /\ TicksOK' /\ JpegXsOK'
<1> DEFINE q == Len(sent)
           ts == TS_STEP * (q + 1)
           x == [unit |-> "codestream", ts |-> ts, tick |-> ticks']
<1>1. media' = media /\ data' = data /\ ticks' = ticks + 1 /\ stage = "idle" /\ stage' = "idle"
  BY DEF send_jpegxs_packet_cb, Tick
<1>2. q \in Nat /\ TS_STEP \in Nat /\ ticks' \in Nat
  BY <1>1, MediaAssumption, LenProperties DEF FileOK, TicksOK
<1>3. ts = TS_STEP * q + TS_STEP /\ ts \in Nat
  BY <1>2
<1>4. ctx' = [timestamp |-> ts]
  <2>1. ctx = [timestamp |-> TS_STEP * q] /\ ctx' = [ctx EXCEPT !.timestamp = ctx.timestamp + TS_STEP]
    BY DEF JpegXsOK, send_jpegxs_packet_cb
  <2>2. ctx' = [timestamp |-> TS_STEP * q + TS_STEP]
    BY <2>1
  <2> QED
    BY <1>3, <2>2
<1>5. sent' = Append(sent, x)
  BY <1>4 DEF send_jpegxs_packet_cb, Sends
<1> HIDE DEF ts
<1>6. x \in Packets
  BY <1>2, <1>3 DEF Packets
<1>7. JpegXsUnit(q + 1, x) /\ x.tick = ticks'
  BY DEF JpegXsUnit, ts
<1> HIDE DEF x
<1>8. /\ sent' \in Seq(Packets) /\ Len(sent') = q + 1 /\ sent'[q + 1] = x
      /\ \A k \in 1 .. q : sent'[k] = sent[k]
  BY <1>5, <1>6, AppendOne DEF FileOK
<1>9. FileOK'
  BY <1>1, <1>8 DEF FileOK
<1>10. TicksOK'
  BY <1>1, <1>5, <1>6, <1>7, TicksAfterPacket DEF FileOK
<1>11. JpegXsOK'
  <2>1. ASSUME NEW k \in 1 .. Len(sent') PROVE JpegXsUnit(k, sent'[k])
    <3>1. CASE k = q + 1
      BY <1>7, <1>8, <3>1
    <3>2. CASE k # q + 1
      <4>1. k \in 1 .. q
        BY <1>2, <1>8, <3>2
      <4> QED
        BY <1>8, <4>1 DEF JpegXsOK
    <3> QED
      BY <3>1, <3>2
  <2> QED
    BY <1>1, <1>4, <1>8, <2>1 DEF JpegXsOK, ts
<1> QED
  BY <1>9, <1>10, <1>11

-----------------------------------------------------------------------------
(* The octets of OBUs.                                                     *)

LEMMA OctetsExist ==
  ASSUME NEW s
  PROVE  \A N \in Nat : \E f : f = [k \in 0 .. N |-> IF k = 0 THEN 0 ELSE f[k - 1] + s[k].len]
<1> DEFINE P(N) == \E f : f = [k \in 0 .. N |-> IF k = 0 THEN 0 ELSE f[k - 1] + s[k].len]
           S == {N \in Nat : P(N)}
<1>1. 0 \in S
  <2> DEFINE f == [k \in 0 .. 0 |-> 0]
  <2>1. f = [k \in 0 .. 0 |-> IF k = 0 THEN 0 ELSE f[k - 1] + s[k].len]
    OBVIOUS
  <2> HIDE DEF f
  <2>2. P(0)
    BY <2>1
  <2> HIDE DEF P
  <2> QED
    BY <2>2
<1>2. ASSUME NEW N \in Nat, N \in S PROVE N + 1 \in S
  <2>1. PICK f : f = [k \in 0 .. N |-> IF k = 0 THEN 0 ELSE f[k - 1] + s[k].len]
    BY <1>2
  <2> DEFINE g == [k \in 0 .. N + 1 |-> IF k = N + 1 THEN f[N] + s[k].len ELSE f[k]]
  <2>2. ASSUME NEW k \in 0 .. N + 1
        PROVE  g[k] = IF k = 0 THEN 0 ELSE g[k - 1] + s[k].len
    <3>1. CASE k = N + 1
      <4>1. k - 1 = N /\ N \in 0 .. N + 1 /\ N # N + 1 /\ k # 0
        BY <3>1
      <4>2. g[k - 1] = f[N]
        BY <4>1
      <4> QED
        BY <3>1, <4>1, <4>2
    <3>2. CASE k # N + 1
      <4>1. k \in 0 .. N
        BY <3>2
      <4>2. f[k] = IF k = 0 THEN 0 ELSE f[k - 1] + s[k].len
        BY <2>1, <4>1
      <4>3. k # 0 => k - 1 \in 0 .. N + 1 /\ k - 1 # N + 1
        BY <4>1
      <4>4. k # 0 => g[k - 1] = f[k - 1]
        BY <4>3
      <4> QED
        BY <3>2, <4>2, <4>4
    <3> QED
      BY <3>1, <3>2
  <2>3. g = [k \in 0 .. N + 1 |-> IF k = 0 THEN 0 ELSE g[k - 1] + s[k].len]
    BY <2>2
  <2> HIDE DEF g
  <2>4. P(N + 1)
    BY <2>3
  <2> HIDE DEF P
  <2> QED
    BY <2>4
<1>3. Nat \subseteq S
  <2> HIDE DEF S
  <2> QED
    BY <1>1, <1>2, SetInduction
<1> QED
  BY <1>3

LEMMA OctetsTable ==
  ASSUME NEW s, Len(s) \in Nat
  PROVE  \E f : /\ Octets(s) = f[Len(s)]
                /\ f[0] = 0
                /\ \A k \in 1 .. Len(s) : f[k] = f[k - 1] + s[k].len
<1> DEFINE Table(f) == f = [k \in 0 .. Len(s) |-> IF k = 0 THEN 0 ELSE f[k - 1] + s[k].len]
           upto == CHOOSE f : Table(f)
<1>1. \E f : Table(f)
  BY OctetsExist
<1>2. Table(upto)
  BY <1>1
<1>3. Octets(s) = upto[Len(s)]
  BY DEF Octets
<1> HIDE DEF upto
<1>4. upto[0] = 0 /\ \A k \in 1 .. Len(s) : upto[k] = upto[k - 1] + s[k].len
  BY <1>2
<1> QED
  BY <1>3, <1>4

LEMMA ObuHasLength ==
  ASSUME NEW x \in Obus PROVE x.len \in Nat \ {0}
BY DEF Obus

(* One OBU more. *)
LEMMA OctetsOneMore ==
  ASSUME NEW s \in Seq(Obus), NEW x \in Obus
  PROVE  Octets(s) \in Nat /\ Octets(Append(s, x)) = Octets(s) + x.len
<1> DEFINE t == Append(s, x)
           n == Len(s)
<1>1. /\ n \in Nat /\ Len(t) = n + 1
      /\ t[n + 1] = x /\ \A k \in 1 .. n : t[k] = s[k] /\ s[k] \in Obus
  BY AppendOne
<1> HIDE DEF t
<1>2. PICK g : /\ Octets(t) = g[n + 1]
               /\ g[0] = 0 /\ \A k \in 1 .. n + 1 : g[k] = g[k - 1] + t[k].len
  <2>1. Len(t) \in Nat
    BY <1>1
  <2>2. PICK g : /\ Octets(t) = g[Len(t)]
                 /\ g[0] = 0 /\ \A k \in 1 .. Len(t) : g[k] = g[k - 1] + t[k].len
    BY <2>1, OctetsTable
  <2> QED
    BY <1>1, <2>2
<1>3. PICK f : /\ Octets(s) = f[n]
               /\ f[0] = 0 /\ \A k \in 1 .. n : f[k] = f[k - 1] + s[k].len
  <2>1. Len(s) \in Nat
    BY <1>1
  <2> QED
    BY <2>1, OctetsTable
<1> DEFINE Same(k) == f[k] = g[k] /\ f[k] \in Nat
           G == {k \in Nat : k <= n => Same(k)}
<1>4. 0 \in G
  BY <1>2, <1>3
<1>5. ASSUME NEW k \in Nat, k \in G PROVE k + 1 \in G
  <2> SUFFICES ASSUME k + 1 <= n PROVE Same(k + 1)
    OBVIOUS
  <2> DEFINE j == k + 1
  <2>1. j \in 1 .. n /\ j \in 1 .. n + 1 /\ j - 1 = k /\ k <= n
    BY <1>1
  <2>2. Same(k)
    BY <1>5, <2>1
  <2> HIDE DEF j
  <2>3. /\ f[j] = f[k] + s[j].len /\ g[j] = g[k] + t[j].len /\ t[j] = s[j] /\ s[j] \in Obus
    BY <1>1, <1>2, <1>3, <2>1
  <2>4. s[j].len \in Nat
    BY <2>3, ObuHasLength
  <2>5. f[j] = g[j] /\ f[j] \in Nat
    BY <2>2, <2>3, <2>4
  <2> QED
    BY <2>5 DEF j
<1>6. Same(n)
  <2>1. Nat \subseteq G
    <3> HIDE DEF G
    <3> QED
      BY <1>4, <1>5, SetInduction
  <2> HIDE DEF Same
  <2> QED
    BY <1>1, <2>1
<1>7. g[n + 1] = g[n] + x.len
  <2>1. n + 1 \in 1 .. n + 1 /\ (n + 1) - 1 = n
    BY <1>1
  <2> QED
    BY <1>1, <1>2, <2>1
<1> QED
  BY <1>2, <1>3, <1>6, <1>7 DEF t

LEMMA OctetsTyped ==
  ASSUME NEW s \in Seq(Obus) PROVE Octets(s) \in Nat
<1>1. [type |-> 0, len |-> 1, has_size |-> TRUE] \in Obus
  BY DEF Obus
<1> QED
  BY <1>1, OctetsOneMore

(* The octets before OBU j + 1. *)
Before(s, j) == Octets(SubSeq(s, 1, j))

LEMMA PrefixStep ==
  ASSUME NEW S, NEW s \in Seq(S), NEW k \in 0 .. Len(s) - 1
  PROVE  /\ SubSeq(s, 1, k) \in Seq(S) /\ s[k + 1] \in S
         /\ SubSeq(s, 1, k + 1) = Append(SubSeq(s, 1, k), s[k + 1])
<1>1. Len(s) \in Nat /\ k \in Nat /\ k + 1 \in 1 .. Len(s) /\ 1 \in 1 .. Len(s) /\ (k + 1) - 1 = k
  BY LenProperties
<1>2. SubSeq(s, 1, k) \in Seq(S) /\ s[k + 1] \in S
  BY <1>1, SubSeqProperties, ElementOfSeq
<1>3. SubSeq(s, 1, k + 1) = SubSeq(s, 1, (k + 1) - 1) \o <<s[k + 1]>>
  BY <1>1, SubSeqRecursiveSecond
<1>4. SubSeq(s, 1, k) \o <<s[k + 1]>> = Append(SubSeq(s, 1, k), s[k + 1])
  BY <1>2, AppendIsConcat
<1> QED
  BY <1>1, <1>2, <1>3, <1>4

LEMMA BeforeSteps ==
  ASSUME NEW s \in Seq(Obus)
  PROVE  /\ Octets(<< >>) = 0
         /\ Before(s, 0) = 0 /\ Before(s, Len(s)) = Octets(s) /\ Octets(s) \in Nat
         /\ \A j \in 0 .. Len(s) : Before(s, j) \in Nat
         /\ \A j \in 0 .. Len(s) - 1 :
              /\ s[j + 1] \in Obus /\ s[j + 1].len \in Nat \ {0}
              /\ Before(s, j + 1) = Before(s, j) + s[j + 1].len
<1>1. Octets(<< >>) = 0 /\ << >> \in Seq(Obus)
  <2>1. Len(<< >>) = 0 /\ << >> \in Seq(Obus)
    BY EmptySeq
  <2> QED
    BY <2>1, OctetsTable
<1>2. Before(s, 0) = 0
  <2>1. SubSeq(s, 1, 0) = << >>
    BY SubSeqEmpty
  <2> QED
    BY <1>1, <2>1 DEF Before
<1>3. Before(s, Len(s)) = Octets(s)
  BY SubSeqFull DEF Before
<1>4. Octets(s) \in Nat
  BY OctetsTyped
<1>5. ASSUME NEW j \in 0 .. Len(s) PROVE Before(s, j) \in Nat
  <2>1. SubSeq(s, 1, j) \in Seq(Obus)
    BY LenProperties, SubSeqProperties
  <2> QED
    BY <2>1, OctetsTyped DEF Before
<1>6. ASSUME NEW j \in 0 .. Len(s) - 1
      PROVE  /\ s[j + 1] \in Obus /\ s[j + 1].len \in Nat \ {0}
             /\ Before(s, j + 1) = Before(s, j) + s[j + 1].len
  <2>1. /\ SubSeq(s, 1, j) \in Seq(Obus) /\ s[j + 1] \in Obus
        /\ SubSeq(s, 1, j + 1) = Append(SubSeq(s, 1, j), s[j + 1])
    BY PrefixStep
  <2> QED
    BY <2>1, OctetsOneMore, ObuHasLength DEF Before
<1> QED
  BY <1>1, <1>2, <1>3, <1>4, <1>5, <1>6

(* OBUs are not empty: each begins elsewhere. *)
LEMMA BeforeGrows ==
  ASSUME NEW s \in Seq(Obus), NEW i \in 0 .. Len(s), NEW j \in 0 .. Len(s), i < j
  PROVE  Before(s, i) < Before(s, j)
<1> DEFINE n == Len(s)
           B(k) == Before(s, k)
           G == {d \in Nat : i + d + 1 <= n => B(i) < B(i + d + 1)}
<1>1. n \in Nat /\ i \in Nat /\ j \in Nat
  BY LenProperties
<1>2. \A k \in 0 .. n : B(k) \in Nat
  BY BeforeSteps
<1>3. \A k \in 0 .. n - 1 : B(k) < B(k + 1)
  <2> TAKE k \in 0 .. n - 1
  <2>1. k \in 0 .. n /\ k + 1 \in 0 .. n
    BY <1>1
  <2>2. s[k + 1].len \in Nat \ {0} /\ B(k + 1) = B(k) + s[k + 1].len
    BY BeforeSteps
  <2> HIDE DEF B
  <2> QED
    BY <1>2, <2>1, <2>2
<1> HIDE DEF B, n
<1>4. 0 \in G
  <2> SUFFICES ASSUME i + 0 + 1 <= n PROVE B(i) < B(i + 0 + 1)
    OBVIOUS
  <2>1. i \in 0 .. n - 1 /\ i + 0 + 1 = i + 1
    BY <1>1
  <2> QED
    BY <1>3, <2>1
<1>5. ASSUME NEW d \in Nat, d \in G PROVE d + 1 \in G
  <2> SUFFICES ASSUME i + (d + 1) + 1 <= n PROVE B(i) < B(i + (d + 1) + 1)
    OBVIOUS
  <2> DEFINE k == i + d + 1
  <2>1. /\ k \in 0 .. n - 1 /\ k \in 0 .. n /\ k + 1 \in 0 .. n /\ i \in 0 .. n
        /\ i + (d + 1) + 1 = k + 1 /\ k <= n
    BY <1>1
  <2>2. B(i) < B(k)
    BY <1>5, <2>1
  <2> HIDE DEF k
  <2>3. B(k) < B(k + 1) /\ B(i) \in Nat /\ B(k) \in Nat /\ B(k + 1) \in Nat
    BY <1>2, <1>3, <2>1
  <2>4. B(i) < B(k + 1)
    BY <2>2, <2>3
  <2> QED
    BY <2>1, <2>4
<1>6. Nat \subseteq G
  <2> HIDE DEF G
  <2> QED
    BY <1>4, <1>5, SetInduction
<1>7. B(i) < B(j)
  <2> DEFINE d == j - i - 1
  <2>1. d \in Nat /\ i + d + 1 = j /\ j <= n
    BY <1>1 DEF n
  <2> HIDE DEF d
  <2> QED
    BY <1>6, <2>1
<1> QED
  BY <1>7 DEF B

(* What comes together has its octets together. *)
LEMMA OctetsOfBoth ==
  ASSUME NEW a \in Seq(Obus), NEW b \in Seq(Obus)
  PROVE  Octets(a \o b) = Octets(a) + Octets(b)
<1> DEFINE n == Len(b)
           p(k) == SubSeq(b, 1, k)
           G == {k \in Nat : k <= n => Octets(a \o p(k)) = Octets(a) + Octets(p(k))}
<1>1. n \in Nat /\ Octets(a) \in Nat
  BY LenProperties, OctetsTyped
<1>2. 0 \in G
  <2>1. p(0) = << >> /\ a \o << >> = a /\ Octets(<< >>) = 0
    BY SubSeqEmpty, ConcatEmptySeq, BeforeSteps
  <2>2. Octets(a \o p(0)) = Octets(a) /\ Octets(p(0)) = 0
    BY <2>1, Zenon
  <2> HIDE DEF p
  <2>3. Octets(a \o p(0)) = Octets(a) + Octets(p(0))
    BY <1>1, <2>2
  <2> QED
    BY <2>3
<1>3. ASSUME NEW k \in Nat, k \in G PROVE k + 1 \in G
  <2> SUFFICES ASSUME k + 1 <= n PROVE Octets(a \o p(k + 1)) = Octets(a) + Octets(p(k + 1))
    OBVIOUS
  <2>1. k \in 0 .. n - 1 /\ k <= n
    BY <1>1
  <2>2. p(k) \in Seq(Obus) /\ b[k + 1] \in Obus /\ p(k + 1) = Append(p(k), b[k + 1])
    BY <2>1, PrefixStep
  <2>3. Octets(a \o p(k)) = Octets(a) + Octets(p(k))
    BY <1>3, <2>1
  <2> DEFINE x == b[k + 1]
             c == p(k)
  <2> HIDE DEF x, p, c
  <2>4. a \o c \in Seq(Obus) /\ a \o Append(c, x) = Append(a \o c, x)
    <3>1. c \in Seq(Obus) /\ x \in Obus /\ a \o c \in Seq(Obus) /\ <<x>> \in Seq(Obus)
      BY <2>2, ConcatProperties DEF c, x
    <3>2. Append(c, x) = c \o <<x>> /\ Append(a \o c, x) = (a \o c) \o <<x>>
      BY <3>1, AppendIsConcat
    <3>3. (a \o c) \o <<x>> = a \o (c \o <<x>>)
      BY <3>1, ConcatAssociative, SMTT(30)
    <3> QED
      BY <3>1, <3>2, <3>3
  <2>5. /\ Octets(Append(a \o c, x)) = Octets(a \o c) + x.len
        /\ Octets(Append(c, x)) = Octets(c) + x.len
        /\ Octets(c) \in Nat /\ x.len \in Nat
    BY <2>2, <2>4, OctetsOneMore, ObuHasLength DEF c, x
  <2>6. p(k + 1) = Append(c, x) /\ Octets(a \o c) = Octets(a) + Octets(c)
    BY <2>2, <2>3 DEF c, x
  <2>7. Octets(a \o p(k + 1)) = Octets(a) + Octets(c) + x.len
    BY <1>1, <2>4, <2>5, <2>6
  <2>8. Octets(p(k + 1)) = Octets(c) + x.len
    BY <2>5, <2>6
  <2>9. Octets(a) + Octets(c) + x.len = Octets(a) + (Octets(c) + x.len)
    BY <1>1, <2>5
  <2> QED
    BY <2>7, <2>8, <2>9, Zenon
<1>4. Nat \subseteq G
  <2> HIDE DEF G
  <2> QED
    BY <1>2, <1>3, SetInduction
<1>5. p(n) = b
  BY SubSeqFull
<1> HIDE DEF p
<1> QED
  BY <1>1, <1>4, <1>5

(* The OBU at a position is the one that begins there. *)
LEMMA ObuBegins ==
  ASSUME data \in Seq(Obus), NEW j \in 0 .. Len(data) - 1
  PROVE  ObuAt(Before(data, j)) = data[j + 1]
<1> DEFINE pos == Before(data, j)
           M(k) == k \in DOMAIN data /\ Octets(SubSeq(data, 1, k - 1)) = pos
<1>1. Len(data) \in Nat /\ DOMAIN data = 1 .. Len(data)
  BY LenProperties
<1>2. j + 1 \in DOMAIN data /\ (j + 1) - 1 = j /\ j \in 0 .. Len(data)
  BY <1>1
<1>3. M(j + 1)
  BY <1>2 DEF Before
<1>4. ASSUME NEW k, M(k) PROVE k = j + 1
  <2>1. k \in 1 .. Len(data) /\ k - 1 \in 0 .. Len(data) /\ Before(data, k - 1) = pos
    BY <1>1, <1>4 DEF Before
  <2>2. Before(data, k - 1) \in Nat /\ pos \in Nat
    BY <1>2, <2>1, BeforeSteps
  <2>3. ~ (k - 1 < j)
    BY <1>2, <2>1, <2>2, BeforeGrows
  <2>4. ~ (j < k - 1)
    BY <1>2, <2>1, <2>2, BeforeGrows
  <2> QED
    BY <1>1, <2>1, <2>3, <2>4
<1>5. ObuAt(pos) = data[CHOOSE k : M(k)]
  BY DEF ObuAt
<1> HIDE DEF M, pos
<1>6. M(CHOOSE k : M(k))
  BY <1>3
<1>7. (CHOOSE k : M(k)) = j + 1
  BY <1>4, <1>6
<1> QED
  BY <1>5, <1>7 DEF pos

-----------------------------------------------------------------------------
(* AV1 streams.                                                            *)

(* The OBUs of the first t temporal units, and their octets. *)
Count(m, t) == Len(Upto(m.tus, t))
TuOctets(m, t) == Octets(Upto(m.tus, t))

(* Temporal unit t in the stream: its delimiter and nothing else is one;   *)
(* only at the end of the stream an OBU may lack its size.                 *)
TuAt(m, d, t) ==
  /\ Count(m, t - 1) \in Nat /\ Count(m, t) \in Nat /\ Len(m.tus[t]) \in Nat \ {0}
  /\ Count(m, t) = Count(m, t - 1) + Len(m.tus[t]) /\ Count(m, t) <= Len(d)
  /\ Octets(m.tus[t]) \in Nat
  /\ TuOctets(m, t) = TuOctets(m, t - 1) + Octets(m.tus[t])
  /\ \A i \in 1 .. Len(m.tus[t]) :
       /\ d[Count(m, t - 1) + i].type = TEMPORAL_DELIMITER <=> i = 1
       /\ ~ d[Count(m, t - 1) + i].has_size => Count(m, t - 1) + i = Len(d)

Av1Layout(m, d) ==
  /\ d \in Seq(Obus) /\ Len(d) \in Nat /\ Len(m.tus) \in Nat \ {0}
  /\ Count(m, 0) = 0 /\ Count(m, Len(m.tus)) = Len(d)
  /\ TuOctets(m, 0) = 0
  /\ \A t \in 0 .. Len(m.tus) :
       /\ Count(m, t) \in 0 .. Len(d)
       /\ TuOctets(m, t) \in Nat /\ Before(d, Count(m, t)) = TuOctets(m, t)
  /\ \A t \in 1 .. Len(m.tus) : TuAt(m, d, t)

LEMMA Av1FileLayout ==
  ASSUME NEW m, Av1File(m)
  PROVE  Av1Layout(m, Joined(m.tus))
<1> DEFINE s == m.tus
           n == Len(s)
           d == Joined(s)
<1>1. s \in Seq(Seq(Obus)) /\ n \in Nat \ {0} /\ \A t \in 1 .. n : s[t] \in Seq(Obus) /\ s[t] # << >>
  <2>1. s \in Seq(Seq(Obus) \ {<< >>}) /\ s # << >>
    BY DEF Av1File
  <2> HIDE DEF s
  <2>2. n \in Nat /\ n # 0 /\ \A t \in 1 .. n : s[t] \in Seq(Obus) /\ s[t] # << >>
    BY <2>1, LenProperties, EmptySeq, ElementOfSeq
  <2>3. s \in [1 .. n -> Seq(Obus)]
    BY <2>1, <2>2, LenProperties
  <2>4. s \in Seq(Seq(Obus))
    BY <2>2, <2>3, IsASeq
  <2> QED
    BY <2>2, <2>4
<1>2. \A t \in 1 .. n : \A j \in 1 .. Len(s[t]) :
        /\ s[t][j].type = TEMPORAL_DELIMITER <=> j = 1
        /\ ~ s[t][j].has_size => t = n /\ j = Len(s[t])
  BY DEF Av1File
<1> HIDE DEF s
<1>3. /\ Upto(s, 0) = << >> /\ Upto(s, n) = d /\ d \in Seq(Obus)
      /\ \A t \in 0 .. n : Upto(s, t) \in Seq(Obus) /\ Len(Upto(s, t)) \in Nat
  <2>1. n \in 0 .. n
    BY <1>1
  <2> QED
    BY <1>1, <2>1, UptoSteps
<1> HIDE DEF d
<1>4. Count(m, 0) = 0 /\ Count(m, n) = Len(d) /\ TuOctets(m, 0) = 0 /\ Len(d) \in Nat
  <2>1. Len(<< >>) = 0 /\ Octets(<< >>) = 0
    BY <1>3, EmptySeq, BeforeSteps
  <2> QED
    BY <1>3, <2>1, LenProperties DEF Count, TuOctets, s
<1>5. ASSUME NEW t \in 0 .. n
      PROVE  /\ Count(m, t) \in 0 .. Len(d)
             /\ TuOctets(m, t) \in Nat /\ Before(d, Count(m, t)) = TuOctets(m, t)
  <2> DEFINE u == Upto(s, t)
             c == Len(u)
             e == n - t
  <2>1. t \in 0 .. Len(s) /\ e \in Nat /\ t + e = n /\ t + e <= Len(s)
    BY <1>1
  <2>2. /\ c <= Len(Upto(s, t + e))
        /\ \A i \in 1 .. c : Upto(s, t + e)[i] = u[i]
    <3> HIDE DEF e
    <3> QED
      BY <1>1, <2>1, UptoIsPrefix
  <2>3. c <= Len(d) /\ \A i \in 1 .. c : d[i] = u[i]
    BY <1>3, <2>1, <2>2
  <2>4. u \in Seq(Obus) /\ c \in Nat
    BY <1>3
  <2> HIDE DEF u
  <2>5. SubSeq(d, 1, c) = u
    <3>1. 1 \in 1 .. Len(d) + 1 /\ c \in 1 - 1 .. Len(d) /\ c - 1 + 1 = c
          /\ \A i \in 1 .. c : 1 + i - 1 = i
      BY <1>4, <2>3, <2>4
    <3>2. /\ SubSeq(d, 1, c) \in Seq(Obus) /\ Len(SubSeq(d, 1, c)) = c - 1 + 1
          /\ \A i \in 1 .. c - 1 + 1 : SubSeq(d, 1, c)[i] = d[1 + i - 1]
      BY <1>3, <3>1, SubSeqProperties
    <3>3. \A i \in 1 .. Len(u) : SubSeq(d, 1, c)[i] = u[i]
      BY <2>3, <3>1, <3>2
    <3>4. Len(SubSeq(d, 1, c)) = Len(u)
      BY <3>1, <3>2
    <3> QED
      BY <2>4, <3>2, <3>3, <3>4, SeqEqual
  <2>6. Octets(u) \in Nat
    BY <2>4, OctetsTyped
  <2>7. c \in 0 .. Len(d)
    BY <1>4, <2>3, <2>4
  <2> QED
    BY <2>5, <2>6, <2>7 DEF Count, TuOctets, Before, u, s
<1>6. ASSUME NEW t \in 1 .. n PROVE TuAt(m, d, t)
  <2> DEFINE a == Upto(s, t - 1)
             b == Upto(s, t)
             x == s[t]
  <2>1. t - 1 \in 0 .. n - 1 /\ (t - 1) + 1 = t /\ t \in 0 .. n /\ t - 1 \in 0 .. n
    BY <1>1
  <2>2. a \in Seq(Obus) /\ b \in Seq(Obus) /\ x \in Seq(Obus) /\ x # << >> /\ b = a \o x
    BY <1>1, <1>3, <2>1, UptoSteps
  <2>3. /\ Len(a) \in Nat /\ Len(x) \in Nat /\ Len(b) = Len(a) + Len(x) /\ Len(b) <= Len(d)
        /\ \A i \in 1 .. Len(x) : d[Len(a) + i] = x[i]
    <3>1. s \in Seq(Seq(Obus)) /\ t \in 1 .. Len(s)
      BY <1>1
    <3> QED
      BY <3>1, JoinedAt, Zenon DEF d
  <2>4. Octets(b) = Octets(a) + Octets(x) /\ Octets(x) \in Nat
    BY <2>2, OctetsOfBoth, OctetsTyped
  <2>5. Len(x) \in Nat \ {0} /\ Len(b) \in Nat
    <3>1. x \in Seq(Obus) /\ x # << >> /\ Len(x) \in Nat /\ Len(a) \in Nat /\ Len(b) = Len(a) + Len(x)
      BY <2>2, <2>3
    <3> HIDE DEF a, b, x
    <3>2. Len(x) # 0
      BY <3>1, EmptySeq
    <3> QED
      BY <3>1, <3>2
  <2>6. Count(m, t - 1) = Len(a) /\ Count(m, t) = Len(b)
        /\ TuOctets(m, t - 1) = Octets(a) /\ TuOctets(m, t) = Octets(b) /\ m.tus[t] = x
    BY DEF Count, TuOctets, s
  <2>7. t = n => Len(b) = Len(d)
    BY <1>3
  <2>8. \A i \in 1 .. Len(x) : /\ x[i].type = TEMPORAL_DELIMITER <=> i = 1
                               /\ ~ x[i].has_size => t = n /\ i = Len(x)
    BY <1>2
  <2> HIDE DEF a, b, x
  <2>9. ASSUME NEW i \in 1 .. Len(x)
        PROVE  /\ d[Len(a) + i].type = TEMPORAL_DELIMITER <=> i = 1
               /\ ~ d[Len(a) + i].has_size => Len(a) + i = Len(d)
    <3>1. d[Len(a) + i] = x[i]
      BY <2>3
    <3>2. ~ x[i].has_size => t = n /\ i = Len(x)
      BY <2>8
    <3>3. t = n /\ i = Len(x) => Len(a) + i = Len(d)
      BY <2>3, <2>7
    <3> QED
      BY <2>8, <3>1, <3>2, <3>3
  <2> QED
    BY <2>3, <2>4, <2>5, <2>6, <2>9 DEF TuAt
<1> QED
  BY <1>1, <1>3, <1>4, <1>5, <1>6 DEF Av1Layout, d, s

(* The list of the first t temporal units, as far as it has room. *)
Room(t) == Lesser(t, AV1_MAX_TUS)
TuEntry(m, k) == [offset |-> TuOctets(m, k - 1), length |-> Octets(m.tus[k])]
TuList(m, t) == [k \in 1 .. Room(t) |-> TuEntry(m, k)]

Av1Fields == {"timestamp", "tus", "tu_index", "pos", "tu_start"}

(* The search stands before OBU j + 1, in temporal unit t. *)
SplitAt(t, j) ==
  /\ ctx.pos = Before(data, j)
  /\ \/ t = 0 /\ j = 0 /\ ctx.tu_start = -1 /\ ctx.tus = << >>
     \/ /\ t # 0 /\ Count(media, t - 1) < j /\ j <= Count(media, t)
        /\ ctx.tu_start = TuOctets(media, t - 1) /\ ctx.tus = TuList(media, t - 1)

Av1Unit(m, k, x) ==
  LET i == (k - 1) % Room(Len(m.tus))
  IN  /\ x.unit = [range |-> TuEntry(m, i + 1), is_new_cvs |-> i = 0]
      /\ x.ts = TS_STEP * k

Av1OK ==
  /\ Av1Fields \subseteq DOMAIN ctx
  /\ stage \in {"split", "idle"}
  /\ ctx.timestamp = TS_STEP * Len(sent)
  /\ ctx.tu_index = Len(sent) % Room(Len(media.tus))
  /\ \A k \in 1 .. Len(sent) : Av1Unit(media, k, sent[k])
  /\ stage = "split" => \E t \in 0 .. Len(media.tus), j \in 0 .. Len(data) : SplitAt(t, j)
  /\ stage = "idle" => ctx.tus = TuList(media, Len(media.tus))

LEMMA RoomIs ==
  ASSUME NEW t \in Nat
  PROVE  /\ Room(t) \in Nat
         /\ t <= AV1_MAX_TUS => Room(t) = t
         /\ AV1_MAX_TUS <= t => Room(t) = AV1_MAX_TUS
         /\ t # 0 => Room(t) # 0
<1>1. AV1_MAX_TUS \in Nat \ {0}
  BY MediaAssumption
<1>2. /\ t <= AV1_MAX_TUS => Room(t) = t
      /\ AV1_MAX_TUS <= t => Room(t) = AV1_MAX_TUS
  BY <1>1, LesserOfTwo DEF Room
<1> QED
  BY <1>1, <1>2

LEMMA Av1StateHolds ==
  ASSUME FileOK, media.kind = "av1"
  PROVE  Av1Layout(media, data)
<1>1. Av1File(media) /\ data = Joined(media.tus)
  BY MediaAssumption DEF FileOK, FileData
<1> QED
  BY <1>1, Av1FileLayout

(* What is in the list when a temporal unit ends. *)
LEMMA ClosedIs ==
  ASSUME Av1Layout(media, data),
         NEW t \in 0 .. Len(media.tus), NEW pos,
         \/ t = 0 /\ ctx.tu_start = -1 /\ ctx.tus = << >>
         \/ /\ t # 0 /\ pos = TuOctets(media, t)
            /\ ctx.tu_start = TuOctets(media, t - 1) /\ ctx.tus = TuList(media, t - 1)
  PROVE  Closed(pos) = TuList(media, t)
<1>1. AV1_MAX_TUS \in Nat \ {0} /\ t \in Nat
  BY MediaAssumption
<1>2. CASE t = 0
  <2>1. Room(t) = 0
    BY <1>1, <1>2, RoomIs
  <2>2. TuList(media, t) = << >>
    BY <2>1 DEF TuList
  <2>3. Closed(pos) = << >>
    BY <1>2 DEF Closed
  <2> QED
    BY <2>2, <2>3
<1>3. CASE t # 0
  <2> DEFINE n == Room(t - 1)
             old == TuList(media, t - 1)
             E == {TuEntry(media, k) : k \in 1 .. t}
  <2>1. /\ pos = TuOctets(media, t)
        /\ ctx.tu_start = TuOctets(media, t - 1) /\ ctx.tus = old
    BY <1>3
  <2>2. TuAt(media, data, t) /\ TuOctets(media, t - 1) \in Nat
    <3>1. t \in 1 .. Len(media.tus) /\ t - 1 \in 0 .. Len(media.tus)
      BY <1>3 DEF Av1Layout
    <3> QED
      BY <3>1 DEF Av1Layout
  <2>3. /\ TuOctets(media, t) = TuOctets(media, t - 1) + Octets(media.tus[t])
        /\ Octets(media.tus[t]) \in Nat
    BY <2>2 DEF TuAt
  <2>4. ctx.tu_start # -1 /\ pos - ctx.tu_start = Octets(media.tus[t])
    BY <2>1, <2>2, <2>3
  <2>5. n \in Nat /\ t - 1 \in Nat /\ (t - 1 <= AV1_MAX_TUS => n = t - 1)
        /\ (AV1_MAX_TUS <= t - 1 => n = AV1_MAX_TUS)
    <3>1. t - 1 \in Nat
      BY <1>1, <1>3
    <3> QED
      BY <3>1, RoomIs
  <2>6. old = [k \in 1 .. n |-> TuEntry(media, k)]
    BY DEF TuList
  <2> HIDE DEF n, old
  <2>7. n <= t - 1
    BY <1>1, <2>5
  <2>8. \A k \in 1 .. n : TuEntry(media, k) \in E
    <3> TAKE k \in 1 .. n
    <3>1. k \in 1 .. t
      BY <1>1, <2>5, <2>7
    <3> QED
      BY <3>1
  <2>9. old \in Seq(E) /\ Len(old) = n /\ \A k \in 1 .. n : old[k] = TuEntry(media, k)
    <3> HIDE DEF E
    <3>1. old \in [1 .. n -> E]
      BY <2>6, <2>8
    <3>2. old \in Seq(E)
      BY <2>5, <3>1, IsASeq
    <3>3. Len(old) = n
      BY <2>5, <3>1, <3>2, LenProperties
    <3> QED
      BY <2>6, <3>2, <3>3
  <2>10. CASE t - 1 < AV1_MAX_TUS
    <3> DEFINE x == TuEntry(media, t)
               new == Append(old, x)
    <3>1. n = t - 1 /\ n + 1 = t /\ t <= AV1_MAX_TUS
      BY <1>1, <2>5, <2>10
    <3>2. Closed(pos) = new
      <4>1. x = [offset |-> ctx.tu_start, length |-> pos - ctx.tu_start]
        BY <2>1, <2>4 DEF TuEntry
      <4>2. Len(ctx.tus) < AV1_MAX_TUS
        BY <2>1, <2>9, <2>10, <3>1
      <4> QED
        BY <2>1, <2>4, <4>1, <4>2 DEF Closed
    <3>3. x \in E
      BY <1>1, <1>3
    <3> HIDE DEF E, x
    <3>4. /\ new \in Seq(E) /\ Len(new) = n + 1 /\ new[n + 1] = x
          /\ \A k \in 1 .. n : new[k] = old[k]
      BY <2>9, <3>3, AppendOne
    <3> HIDE DEF new
    <3>5. \A k \in 1 .. t : new[k] = TuEntry(media, k)
      <4> TAKE k \in 1 .. t
      <4>1. k = n + 1 \/ k \in 1 .. n
        BY <1>1, <2>5, <3>1
      <4> QED
        BY <2>9, <3>1, <3>4, <4>1 DEF x
    <3>6. new = [k \in 1 .. t |-> TuEntry(media, k)]
      <4>1. new \in [1 .. Len(new) -> E]
        BY <3>4, LenProperties
      <4>2. Len(new) = t
        BY <3>1, <3>4
      <4>3. new \in [1 .. t -> E]
        BY <4>1, <4>2
      <4> QED
        BY <3>5, <4>3
    <3>7. Room(t) = t
      BY <1>1, <3>1, RoomIs
    <3> QED
      BY <3>2, <3>6, <3>7 DEF TuList
  <2>11. CASE ~ (t - 1 < AV1_MAX_TUS)
    <3>1. n = AV1_MAX_TUS /\ AV1_MAX_TUS <= t
      BY <1>1, <2>5, <2>11
    <3>2. Room(t) = n
      BY <1>1, <3>1, RoomIs
    <3>3. Closed(pos) = old
      BY <2>1, <2>9, <3>1, <1>1 DEF Closed
    <3> QED
      BY <2>6, <3>2, <3>3 DEF TuList
  <2> QED
    BY <2>10, <2>11
<1> QED
  BY <1>2, <1>3

(* OBU j + 1 is the delimiter of the next temporal unit, or belongs to     *)
(* this one; and the search goes on behind it.                             *)
LEMMA NextObu ==
  ASSUME Av1Layout(media, data), NEW t \in 0 .. Len(media.tus), NEW j \in 0 .. Len(data),
         SplitAt(t, j), ctx.pos < stream_len
  PROVE  LET obu == ObuAt(ctx.pos)
         IN  /\ j + 1 \in 0 .. Len(data)
             /\ (IF obu.has_size THEN ctx.pos + obu.len ELSE stream_len) = Before(data, j + 1)
             /\ \/ /\ obu.type = TEMPORAL_DELIMITER
                   /\ t + 1 \in 1 .. Len(media.tus)
                   /\ ctx.pos = TuOctets(media, t)
                   /\ Count(media, t) < j + 1 /\ j + 1 <= Count(media, t + 1)
                \/ /\ obu.type # TEMPORAL_DELIMITER
                   /\ t # 0 /\ Count(media, t - 1) < j + 1 /\ j + 1 <= Count(media, t)
<1> DEFINE n == Len(data)
           T == Len(media.tus)
           obu == ObuAt(ctx.pos)
<1>1. /\ data \in Seq(Obus) /\ n \in Nat /\ T \in Nat \ {0} /\ t \in Nat /\ j \in Nat
      /\ Count(media, 0) = 0 /\ Count(media, T) = n
      /\ ctx.pos = Before(data, j) /\ stream_len = Before(data, n)
  BY BeforeSteps DEF Av1Layout, SplitAt, stream_len
<1>2. j \in 0 .. n - 1 /\ j + 1 \in 0 .. n
  <2>1. Before(data, n) \in Nat /\ n \in 0 .. n
    BY <1>1, BeforeSteps
  <2>2. j # n
    BY <1>1, <2>1
  <2> QED
    BY <1>1, <2>2
<1>3. obu = data[j + 1]
  BY <1>1, <1>2, ObuBegins
<1>4. Before(data, j + 1) = ctx.pos + obu.len
  BY <1>1, <1>2, <1>3, BeforeSteps
<1>5. ASSUME ~ obu.has_size => j + 1 = n
      PROVE  (IF obu.has_size THEN ctx.pos + obu.len ELSE stream_len) = Before(data, j + 1)
  <2>1. CASE obu.has_size
    BY <1>4, <2>1
  <2>2. CASE ~ obu.has_size
    BY <1>1, <1>5, <2>2
  <2> QED
    BY <2>1, <2>2
<1>6. t # 0 => Count(media, t - 1) < j /\ j <= Count(media, t)
  BY DEF SplitAt
<1>7. t = 0 => j = Count(media, t)
  BY <1>1 DEF SplitAt
<1> HIDE DEF n, T, obu
<1>8. CASE j = Count(media, t)
  <2>1. t + 1 \in 1 .. T /\ (t + 1) - 1 = t
    BY <1>1, <1>2, <1>8 DEF T
  <2> DEFINE u == t + 1
             c == Count(media, t)
             e == Count(media, u)
             len == Len(media.tus[u])
  <2>2. TuAt(media, data, u) /\ (u - 1) = t
    BY <2>1 DEF Av1Layout, T
  <2> HIDE DEF u
  <2> DEFINE Obu(k) == /\ data[c + k].type = TEMPORAL_DELIMITER <=> k = 1
                       /\ ~ data[c + k].has_size => c + k = Len(data)
  <2>3. c \in Nat /\ e \in Nat /\ len \in Nat \ {0} /\ e = c + len /\ \A k \in 1 .. len : Obu(k)
    BY <2>2 DEF TuAt
  <2> HIDE DEF c, e, len, Obu
  <2>4. 1 \in 1 .. len /\ c + 1 <= e /\ c < c + 1
    BY <2>3
  <2>5. obu.type = TEMPORAL_DELIMITER /\ (~ obu.has_size => j + 1 = n)
    <3>1. c + 1 = j + 1
      BY <1>8 DEF c
    <3>2. Obu(1)
      BY <2>3, <2>4
    <3>3. obu = data[c + 1]
      BY <1>3, <3>1, Zenon
    <3> QED
      BY <3>1, <3>2, <3>3, Zenon DEF n, Obu
  <2>6. ctx.pos = TuOctets(media, t)
    BY <1>1, <1>8 DEF Av1Layout
  <2> QED
    BY <1>2, <1>5, <1>8, <2>1, <2>4, <2>5, <2>6 DEF c, e, u, n, T, obu
<1>9. CASE j # Count(media, t)
  <2>1. t # 0 /\ t \in 1 .. T
    BY <1>1, <1>7, <1>9 DEF T
  <2> DEFINE c == Count(media, t - 1)
             e == Count(media, t)
             len == Len(media.tus[t])
             i == j + 1 - c
  <2>2. TuAt(media, data, t)
    BY <2>1 DEF Av1Layout, T
  <2> DEFINE Obu(k) == /\ data[c + k].type = TEMPORAL_DELIMITER <=> k = 1
                       /\ ~ data[c + k].has_size => c + k = Len(data)
  <2>3. c \in Nat /\ e \in Nat /\ len \in Nat \ {0} /\ e = c + len /\ \A k \in 1 .. len : Obu(k)
    BY <2>2 DEF TuAt
  <2>4. c < j /\ j <= e /\ j # e
    BY <1>6, <1>9, <2>1
  <2> HIDE DEF c, e, len, Obu
  <2>5. i \in 1 .. len /\ i # 1 /\ c + i = j + 1 /\ c < j + 1 /\ j + 1 <= e
    BY <1>1, <2>3, <2>4
  <2> HIDE DEF i
  <2>6. obu.type # TEMPORAL_DELIMITER /\ (~ obu.has_size => j + 1 = n)
    <3>1. Obu(i)
      BY <2>3, <2>5
    <3>2. obu = data[c + i] /\ c + i = j + 1
      BY <1>3, <2>5, Zenon
    <3> QED
      BY <2>5, <3>1, <3>2, Zenon DEF n, Obu
  <2> QED
    BY <1>2, <1>5, <2>1, <2>5, <2>6 DEF c, e, n, T, obu
<1> QED
  BY <1>8, <1>9

LEMMA SplitObuStep ==
  ASSUME FileOK, TicksOK, Av1OK, media.kind = "av1", SplitObu
  PROVE  FileOK' /\ TicksOK' /\ Av1OK'
<1> DEFINE obu == ObuAt(ctx.pos)
           end == IF obu.has_size THEN ctx.pos + obu.len ELSE stream_len
<1>1. /\ media' = media /\ data' = data /\ stage' = stage /\ ticks' = ticks /\ sent' = sent
      /\ stage = "split" /\ ctx.pos < stream_len
      /\ ctx' = IF obu.type = TEMPORAL_DELIMITER
                THEN [ctx EXCEPT !.pos = end, !.tus = Closed(ctx.pos), !.tu_start = ctx.pos]
                ELSE [ctx EXCEPT !.pos = end]
  BY DEF SplitObu
<1>2. Av1Layout(media, data)
  BY Av1StateHolds
<1>3. PICK t \in 0 .. Len(media.tus), j \in 0 .. Len(data) : SplitAt(t, j)
  BY <1>1 DEF Av1OK
<1>4. /\ j + 1 \in 0 .. Len(data)
      /\ end = Before(data, j + 1)
      /\ \/ /\ obu.type = TEMPORAL_DELIMITER
            /\ t + 1 \in 1 .. Len(media.tus)
            /\ ctx.pos = TuOctets(media, t)
            /\ Count(media, t) < j + 1 /\ j + 1 <= Count(media, t + 1)
         \/ /\ obu.type # TEMPORAL_DELIMITER
            /\ t # 0 /\ Count(media, t - 1) < j + 1 /\ j + 1 <= Count(media, t)
  BY <1>1, <1>2, <1>3, NextObu
<1>5. Av1Fields \subseteq DOMAIN ctx
  BY DEF Av1OK
<1> HIDE DEF obu, end
<1>6. /\ Av1Fields \subseteq DOMAIN ctx' /\ ctx'.pos = end
      /\ ctx'.timestamp = ctx.timestamp /\ ctx'.tu_index = ctx.tu_index
      /\ obu.type = TEMPORAL_DELIMITER => ctx'.tus = Closed(ctx.pos) /\ ctx'.tu_start = ctx.pos
      /\ obu.type # TEMPORAL_DELIMITER => ctx'.tus = ctx.tus /\ ctx'.tu_start = ctx.tu_start
  <2>1. CASE obu.type = TEMPORAL_DELIMITER
    BY <1>1, <1>5, <2>1 DEF Av1Fields
  <2>2. CASE obu.type # TEMPORAL_DELIMITER
    BY <1>1, <1>5, <2>2 DEF Av1Fields
  <2> QED
    BY <2>1, <2>2
<1>7. \E u \in 0 .. Len(media.tus), i \in 0 .. Len(data) : SplitAt(u, i)'
  <2>1. CASE obu.type = TEMPORAL_DELIMITER
    <3>1. /\ t + 1 \in 1 .. Len(media.tus) /\ t + 1 \in 0 .. Len(media.tus)
          /\ t + 1 # 0 /\ (t + 1) - 1 = t
          /\ ctx.pos = TuOctets(media, t)
          /\ Count(media, t) < j + 1 /\ j + 1 <= Count(media, t + 1)
      BY <1>4, <2>1
    <3>2. Closed(ctx.pos) = TuList(media, t)
      BY <1>2, <1>3, <3>1, ClosedIs DEF SplitAt
    <3>3. SplitAt(t + 1, j + 1)'
      BY <1>1, <1>4, <1>6, <2>1, <3>1, <3>2 DEF SplitAt
    <3> QED
      BY <1>4, <3>1, <3>3
  <2>2. CASE obu.type # TEMPORAL_DELIMITER
    <3>1. t # 0 /\ Count(media, t - 1) < j + 1 /\ j + 1 <= Count(media, t)
      BY <1>4, <2>2
    <3>2. ctx.tu_start = TuOctets(media, t - 1) /\ ctx.tus = TuList(media, t - 1)
      BY <1>3, <3>1 DEF SplitAt
    <3>3. SplitAt(t, j + 1)'
      BY <1>1, <1>4, <1>6, <2>2, <3>1, <3>2 DEF SplitAt
    <3> QED
      BY <1>4, <3>3
  <2> QED
    BY <2>1, <2>2
<1>8. FileOK'
  BY <1>1 DEF FileOK
<1>9. TicksOK'
  BY <1>1, TicksWithoutPacket DEF FileOK
<1>10. Av1OK'
  <2>1. \A k \in 1 .. Len(sent') : Av1Unit(media', k, sent'[k])
    BY <1>1 DEF Av1OK
  <2>2. \E u \in 0 .. Len(media'.tus), i \in 0 .. Len(data') : SplitAt(u, i)'
    BY <1>1, <1>7
  <2> QED
    BY <1>1, <1>6, <2>1, <2>2 DEF Av1OK
<1> QED
  BY <1>8, <1>9, <1>10

LEMMA SplitEndsStep ==
  ASSUME FileOK, TicksOK, Av1OK, media.kind = "av1", SplitEnds
  PROVE  FileOK' /\ TicksOK' /\ Av1OK'
<1> DEFINE n == Len(data)
           T == Len(media.tus)
<1>1. /\ media' = media /\ data' = data /\ stage' = "idle" /\ ticks' = ticks /\ sent' = sent
      /\ stage = "split" /\ ctx.pos >= stream_len
      /\ ctx' = [ctx EXCEPT !.tus = Closed(stream_len)]
  BY DEF SplitEnds
<1>2. Av1Layout(media, data)
  BY Av1StateHolds
<1>3. PICK t \in 0 .. T, j \in 0 .. n : SplitAt(t, j)
  BY <1>1 DEF Av1OK
<1>4. /\ data \in Seq(Obus) /\ n \in Nat /\ T \in Nat \ {0} /\ t \in Nat /\ j \in Nat
      /\ Count(media, T) = n /\ Count(media, 0) = 0 /\ stream_len = Before(data, n)
      /\ ctx.pos = Before(data, j)
  BY <1>2, <1>3, BeforeSteps DEF Av1Layout, stream_len, SplitAt
<1>5. j = n
  <2>1. Before(data, n) \in Nat /\ Before(data, j) \in Nat /\ n \in 0 .. n
    BY <1>4, BeforeSteps
  <2>2. ~ (j < n)
    BY <1>1, <1>4, <2>1, BeforeGrows
  <2> QED
    BY <1>4, <2>2
<1>6. 0 < n
  <2>1. TuAt(media, data, T) /\ T - 1 \in 0 .. T
    BY <1>2, <1>4 DEF Av1Layout
  <2> DEFINE c == Count(media, T - 1)
             len == Len(media.tus[T])
  <2>2. c \in Nat /\ len \in Nat \ {0} /\ n = c + len
    BY <1>4, <2>1 DEF TuAt
  <2> HIDE DEF n, c, len
  <2> QED
    BY <2>2
<1>7. t = T
  <2>1. t # 0 /\ n <= Count(media, t)
    BY <1>3, <1>4, <1>5, <1>6 DEF SplitAt
  <2>2. t < T => n < n
    <3> SUFFICES ASSUME t < T PROVE n < n
      OBVIOUS
    <3>1. t \in 0 .. T /\ t + 1 \in 1 .. T /\ (t + 1) - 1 = t
      BY <1>4
    <3> DEFINE u == t + 1
               c == Count(media, u - 1)
               e == Count(media, u)
               len == Len(media.tus[u])
    <3>2. TuAt(media, data, u)
      BY <1>2, <3>1 DEF Av1Layout
    <3> HIDE DEF u
    <3>3. c \in Nat /\ e \in Nat /\ len \in Nat \ {0} /\ e = c + len /\ e <= n
      BY <3>2 DEF TuAt
    <3>4. c = Count(media, t)
      BY <3>1 DEF u
    <3> HIDE DEF c, e, len, n
    <3> QED
      BY <1>4, <2>1, <3>3, <3>4
  <2> QED
    BY <1>4, <2>2
<1>8. stream_len = TuOctets(media, T)
  <2>1. T \in 0 .. T
    BY <1>4
  <2> QED
    BY <1>2, <1>4, <2>1 DEF Av1Layout
<1>9. Closed(stream_len) = TuList(media, T)
  <2>1. /\ T # 0 /\ T \in 0 .. T /\ ctx.tu_start = TuOctets(media, T - 1)
        /\ ctx.tus = TuList(media, T - 1)
    BY <1>3, <1>4, <1>7 DEF SplitAt
  <2> QED
    BY <1>2, <1>8, <2>1, ClosedIs
<1>10. /\ Av1Fields \subseteq DOMAIN ctx' /\ ctx'.tus = TuList(media, T)
       /\ ctx'.timestamp = ctx.timestamp /\ ctx'.tu_index = ctx.tu_index
  <2>1. Av1Fields \subseteq DOMAIN ctx
    BY DEF Av1OK
  <2> QED
    BY <1>1, <1>9, <2>1 DEF Av1Fields
<1>11. FileOK'
  BY <1>1 DEF FileOK
<1>12. TicksOK'
  BY <1>1, TicksWithoutPacket DEF FileOK
<1>13. Av1OK'
  <2>1. \A k \in 1 .. Len(sent') : Av1Unit(media', k, sent'[k])
    BY <1>1 DEF Av1OK
  <2> QED
    BY <1>1, <1>10, <2>1 DEF Av1OK
<1> QED
  BY <1>11, <1>12, <1>13

(* A temporal unit of the list goes out, and the list goes round. *)
LEMMA Av1SendStep ==
  ASSUME FileOK, TicksOK, Av1OK, media.kind = "av1", send_av1_packet_cb
  PROVE  FileOK' /\ TicksOK' /\ Av1OK'
<1> DEFINE q == Len(sent)
           R == Room(Len(media.tus))
           i == q % R
           ts == TS_STEP * (q + 1)
           x == [unit |-> [range |-> TuEntry(media, i + 1), is_new_cvs |-> i = 0],
                 ts |-> ts, tick |-> ticks']
<1>1. /\ media' = media /\ data' = data /\ ticks' = ticks + 1
      /\ stage = "idle" /\ stage' = "idle"
  BY DEF send_av1_packet_cb, Tick
<1>2. q \in Nat /\ TS_STEP \in Nat /\ ticks' \in Nat
  BY <1>1, MediaAssumption, LenProperties DEF FileOK, TicksOK
<1>3. Av1Layout(media, data)
  BY Av1StateHolds
<1>4. R \in Nat \ {0} /\ R <= Len(media.tus) /\ Len(media.tus) \in Nat
  <2>1. Len(media.tus) \in Nat \ {0} /\ AV1_MAX_TUS \in Nat
    BY <1>3, MediaAssumption DEF Av1Layout
  <2> QED
    BY <2>1, RoomIs
<1>5. i \in 0 .. R - 1 /\ i \in Nat /\ (i + 1) % R = (q + 1) % R
  <2> HIDE DEF q, R
  <2> QED
    BY <1>2, <1>4, GoesRound
<1>6. Av1Fields \subseteq DOMAIN ctx /\ ctx.tu_index = i /\ ctx.timestamp = TS_STEP * q
      /\ ctx.tus = TuList(media, Len(media.tus))
  BY <1>1 DEF Av1OK
<1>7. ts = TS_STEP * q + TS_STEP /\ ts \in Nat
  BY <1>2
<1>8. Len(ctx.tus) = R /\ ctx.tus[i + 1] = TuEntry(media, i + 1) /\ i + 1 \in 1 .. Len(media.tus)
  <2> HIDE DEF q, R, i
  <2>1. i + 1 \in 1 .. R /\ i + 1 \in 1 .. Len(media.tus)
    BY <1>4, <1>5
  <2>2. ctx.tus = [k \in 1 .. R |-> TuEntry(media, k)]
    BY <1>6 DEF TuList, R
  <2> QED
    BY <1>4, <2>1, <2>2
<1>9. sent' = Append(sent, x) /\ ctx'.timestamp = ts /\ ctx'.tu_index = (q + 1) % R
      /\ ctx'.tus = ctx.tus /\ Av1Fields \subseteq DOMAIN ctx'
  <2> HIDE DEF q, R, i, ts
  <2>1. ctx' = [ctx EXCEPT !.timestamp = ts, !.tu_index = (q + 1) % R]
    <3>1. ctx' = [ctx EXCEPT !.timestamp = ctx.timestamp + TS_STEP,
                             !.tu_index = (ctx.tu_index + 1) % Len(ctx.tus)]
      BY DEF send_av1_packet_cb
    <3> QED
      BY <1>5, <1>6, <1>7, <1>8, <3>1
  <2>2. ctx'.timestamp = ts /\ ctx'.tu_index = (q + 1) % R
        /\ ctx'.tus = ctx.tus /\ Av1Fields \subseteq DOMAIN ctx'
    BY <1>6, <2>1 DEF Av1Fields
  <2>3. sent' = Append(sent, [unit |-> [range |-> ctx.tus[ctx.tu_index + 1],
                                        is_new_cvs |-> ctx.tu_index = 0],
                              ts |-> ctx'.timestamp, tick |-> ticks'])
    BY DEF send_av1_packet_cb, Sends
  <2>4. sent' = Append(sent, x)
    BY <1>6, <1>8, <2>2, <2>3
  <2> QED
    BY <2>2, <2>4
<1>10. TuEntry(media, i + 1) \in [offset : Int, length : Int]
  <2> HIDE DEF q, R, i
  <2>1. TuAt(media, data, i + 1) /\ (i + 1) - 1 = i /\ i \in 0 .. Len(media.tus)
    BY <1>3, <1>4, <1>5, <1>8 DEF Av1Layout
  <2>2. TuOctets(media, i) \in Nat /\ Octets(media.tus[i + 1]) \in Nat
    BY <1>3, <2>1 DEF Av1Layout, TuAt
  <2> QED
    BY <2>1, <2>2 DEF TuEntry
<1>11. Av1Unit(media, q + 1, x)
  <2>1. (q + 1) - 1 = q
    BY <1>2
  <2> QED
    BY <2>1 DEF Av1Unit
<1>12. x.tick = ticks'
  OBVIOUS
<1> HIDE DEF R, i, ts
<1>13. x \in Packets
  <2> DEFINE u == [range |-> TuEntry(media, i + 1), is_new_cvs |-> i = 0]
  <2>1. u \in [range : [offset : Int, length : Int], is_new_cvs : BOOLEAN]
    BY <1>10
  <2> HIDE DEF u
  <2>2. [unit |-> u, ts |-> ts, tick |-> ticks'] \in Packets
    BY <1>2, <1>7, <2>1 DEF Packets
  <2> QED
    BY <2>2 DEF u
<1> HIDE DEF x
<1>14. /\ sent' \in Seq(Packets) /\ Len(sent') = q + 1 /\ sent'[q + 1] = x
       /\ \A k \in 1 .. q : sent'[k] = sent[k]
  BY <1>9, <1>13, AppendOne DEF FileOK
<1>15. FileOK'
  BY <1>1, <1>14 DEF FileOK
<1>16. TicksOK'
  BY <1>1, <1>9, <1>12, <1>13, TicksAfterPacket DEF FileOK
<1>17. Av1OK'
  <2>1. ASSUME NEW k \in 1 .. Len(sent') PROVE Av1Unit(media', k, sent'[k])
    <3>1. CASE k = q + 1
      BY <1>1, <1>11, <1>14, <3>1
    <3>2. CASE k # q + 1
      <4>1. k \in 1 .. q
        BY <1>2, <1>14, <3>2
      <4> QED
        BY <1>1, <1>14, <4>1 DEF Av1OK
    <3> QED
      BY <3>1, <3>2
  <2> QED
    BY <1>1, <1>6, <1>9, <1>14, <2>1 DEF Av1OK, ts, R
<1> QED
  BY <1>15, <1>16, <1>17

-----------------------------------------------------------------------------
(* All of it: where in its file a stream stands, kind by kind.            *)

MediaInv ==
  /\ FileOK
  /\ TicksOK
  /\ media.kind = "audio" => AudioOK
  /\ IsNal(media) => NalOK
  /\ media.kind = "jpegxs" => JpegXsOK
  /\ media.kind = "av1" => Av1OK

(* A stream that has just been set up. *)
LEMMA MediaBegins ==
  ASSUME MediaInit
  PROVE  MediaInv
<1>1. /\ media \in Media /\ sent = << >> /\ ticks = 0 /\ ctx = Context(media)
      /\ media.kind = "av1" => stage = "split"
      /\ media.kind # "av1" => stage = "idle"
      /\ data = FileData(media)
  BY DEF MediaInit, FileData
<1>2. Len(sent) = 0 /\ sent \in Seq(Packets)
  BY <1>1
<1>3. TS_STEP \in Nat /\ TS_STEP * 0 = 0 /\ AUDIO_SAMPLES_PER_PACKET \in Nat
  BY MediaAssumption
<1>4. FileOK
  BY <1>1, <1>2 DEF FileOK
<1>5. TicksOK
  BY <1>1, <1>2 DEF TicksOK
<1>6. ASSUME media.kind = "audio" PROVE AudioOK
  <2>1. ctx = [i |-> 0] /\ stage = "idle"
    BY <1>1, <1>6 DEF Context, play_audio
  <2> QED
    BY <1>2, <2>1 DEF AudioOK
<1>7. ASSUME IsNal(media) PROVE NalOK
  <2>1. NalFile(media) /\ stage = "idle"
    BY <1>1, <1>7, MediaAssumption DEF IsNal
  <2>2. Len(media.nals) \in Nat \ {0}
    <3>1. media.nals \in Seq(Seq(Octet)) /\ media.nals # << >>
      BY <2>1 DEF NalFile
    <3> QED
      BY <3>1, LenProperties, EmptySeq
  <2>3. /\ NalFields \subseteq DOMAIN ctx
        /\ ctx.video = 1 /\ ctx.nalu_start = 0 /\ ctx.timestamp = 0
        /\ media.kind = "video" => ctx.start_code_tester = media.codes[1]
    <3>1. CASE media.kind = "video"
      <4>1. ctx = [video |-> 1, nalu_start |-> 0, timestamp |-> 0,
                   start_code_tester |-> media.codes[1]]
        BY <1>1, <2>1, <3>1, TesterFits DEF Context, play_video
      <4> QED
        BY <4>1 DEF NalFields
    <3>2. CASE media.kind = "vvc"
      <4>1. ctx = [video |-> 1, nalu_start |-> 0, timestamp |-> 0]
        BY <1>1, <3>2 DEF Context, play_vvc
      <4> QED
        BY <3>2, <4>1 DEF NalFields
    <3> QED
      BY <1>7, <3>1, <3>2 DEF IsNal
  <2>4. Auds(media, 0) = 0
    <3>1. {j \in 1 .. 0 : IsAud(media, Cyclic(media.nals, j))} = {}
      OBVIOUS
    <3> QED
      BY <3>1, FS_EmptySet DEF Auds
  <2>5. Cur = 0
    <3> DEFINE n == Len(media.nals)
    <3> HIDE DEF n
    <3>1. 0 % n = 0
      <4>1. 0 \in Nat /\ n \in Nat \ {0} /\ 0 < n
        BY <2>2 DEF n
      <4> QED
        BY <4>1, GoesRound
    <3> QED
      BY <1>2, <3>1 DEF Cur, n
  <2> QED
    BY <1>2, <1>3, <2>1, <2>2, <2>3, <2>4, <2>5 DEF NalOK, AtBeginning
<1>8. ASSUME media.kind = "jpegxs" PROVE JpegXsOK
  <2>1. ctx = [timestamp |-> 0] /\ stage = "idle"
    BY <1>1, <1>8 DEF Context, play_jpegxs
  <2> QED
    BY <1>2, <1>3, <2>1 DEF JpegXsOK
<1>9. ASSUME media.kind = "av1" PROVE Av1OK
  <2>1. /\ ctx = [timestamp |-> 0, tus |-> << >>, tu_index |-> 0, pos |-> 0, tu_start |-> -1]
        /\ stage = "split"
    BY <1>1, <1>9 DEF Context, play_av1
  <2>2. Av1Layout(media, data)
    BY <1>4, <1>9, Av1StateHolds
  <2>3. Len(media.tus) \in Nat \ {0} /\ Len(data) \in Nat /\ Before(data, 0) = 0
    BY <2>2, BeforeSteps DEF Av1Layout
  <2>4. 0 % Room(Len(media.tus)) = 0
    <3>1. Room(Len(media.tus)) \in Nat \ {0}
      BY <2>3, RoomIs
    <3> QED
      BY <3>1, GoesRound
  <2>5. SplitAt(0, 0) /\ 0 \in 0 .. Len(media.tus) /\ 0 \in 0 .. Len(data)
    BY <2>1, <2>3 DEF SplitAt
  <2> QED
    BY <1>2, <1>3, <2>1, <2>4, <2>5 DEF Av1OK, Av1Fields
<1> QED
  BY <1>4, <1>5, <1>6, <1>7, <1>8, <1>9 DEF MediaInv

LEMMA MediaStep ==
  ASSUME MediaInv, [MediaNext]_mediaVars
  PROVE  MediaInv'
<1>1. FileOK /\ TicksOK
  BY DEF MediaInv
<1>2. media.kind \in {"audio", "video", "vvc", "jpegxs", "av1"}
  BY <1>1, MediaAssumption DEF FileOK
<1>3. CASE send_audio_packet_cb
  <2>1. media.kind = "audio" /\ media' = media
    BY <1>3 DEF send_audio_packet_cb, Tick
  <2> QED
    BY <1>1, <1>3, <2>1, AudioStep DEF MediaInv, IsNal
<1>4. CASE send_video_packet_cb \/ EndOfFile \/ NoStartCode \/ StartCode
  <2>1. IsNal(media) /\ media' = media
    BY <1>4 DEF send_video_packet_cb, EndOfFile, NoStartCode, StartCode, InScan, Tick
  <2>2. FileOK' /\ TicksOK' /\ NalOK'
    BY <1>1, <1>4, <2>1, VideoCallback, EndOfFileStep, NoStartCodeStep, StartCodeStep DEF MediaInv
  <2> QED
    BY <2>1, <2>2 DEF MediaInv, IsNal
<1>5. CASE send_jpegxs_packet_cb
  <2>1. media.kind = "jpegxs" /\ media' = media
    BY <1>5 DEF send_jpegxs_packet_cb, Tick
  <2> QED
    BY <1>1, <1>5, <2>1, JpegXsStep DEF MediaInv, IsNal
<1>6. CASE SplitObu \/ SplitEnds \/ send_av1_packet_cb
  <2>1. media.kind = "av1" /\ media' = media
    BY <1>1, <1>6 DEF SplitObu, SplitEnds, send_av1_packet_cb, Tick, FileOK
  <2>2. FileOK' /\ TicksOK' /\ Av1OK'
    BY <1>1, <1>6, <2>1, SplitObuStep, SplitEndsStep, Av1SendStep DEF MediaInv
  <2> QED
    BY <2>1, <2>2 DEF MediaInv, IsNal
<1>7. CASE UNCHANGED mediaVars
  <2>1. /\ media' = media /\ data' = data /\ ctx' = ctx /\ stage' = stage
        /\ ticks' = ticks /\ sent' = sent
    BY <1>7 DEF mediaVars
  <2>2. FileOK'
    BY <1>1, <2>1 DEF FileOK
  <2>3. TicksOK'
    BY <1>1, <2>1 DEF TicksOK
  <2>4. media.kind = "audio" => AudioOK'
    BY <2>1 DEF MediaInv, AudioOK
  <2>5. IsNal(media) => NalOK'
    BY <2>1 DEF MediaInv, NalOK, AtBeginning, InUnit, Cur
  <2>6. media.kind = "jpegxs" => JpegXsOK'
    BY <2>1 DEF MediaInv, JpegXsOK
  <2>7. media.kind = "av1" => Av1OK'
    BY <2>1 DEF MediaInv, Av1OK, SplitAt
  <2> QED
    BY <2>1, <2>2, <2>3, <2>4, <2>5, <2>6, <2>7 DEF MediaInv
<1> QED
  BY <1>3, <1>4, <1>5, <1>6, <1>7 DEF MediaNext

(* MediaInv holds in every state. *)
THEOREM MediaInvariant == MediaSpec => []MediaInv
<1>1. MediaInit => MediaInv
  BY MediaBegins
<1>2. MediaInv /\ [MediaNext]_mediaVars => MediaInv'
  BY MediaStep
<1> QED
  BY <1>1, <1>2, PTL DEF MediaSpec

LEMMA SentDomain ==
  ASSUME FileOK
  PROVE  DOMAIN sent = 1 .. Len(sent) /\ Len(sent) \in Nat
BY LenProperties DEF FileOK

(* What the units have to be, kind by kind. *)
LEMMA ExpectedIs ==
  ASSUME NEW k
  PROVE  /\ media.kind = "audio" => Expected(k) = AudioRange(media, k)
         /\ IsNal(media) => Expected(k) = Cyclic(media.nals, k)
         /\ media.kind = "jpegxs" => Expected(k) = "codestream"
         /\ media.kind = "av1" =>
              LET i == (k - 1) % Room(Len(media.tus))
              IN  Expected(k) = [range |-> TuEntry(media, i + 1), is_new_cvs |-> i = 0]
<1>1. media.kind = "audio" => Expected(k) = AudioRange(media, k)
  <2>1. AudioRange(media, k) = [from |-> (k - 1) * AUDIO_SAMPLES_PER_PACKET,
                                count |-> Lesser(AUDIO_SAMPLES_PER_PACKET,
                                               media.len - (k - 1) * AUDIO_SAMPLES_PER_PACKET)]
    BY DEF AudioRange
  <2>2. media.kind = "audio" =>
          Expected(k) = [from |-> (k - 1) * AUDIO_SAMPLES_PER_PACKET,
                         count |-> Lesser(AUDIO_SAMPLES_PER_PACKET,
                                        media.len - (k - 1) * AUDIO_SAMPLES_PER_PACKET)]
    <3>1. ~ ("audio" \in {"video", "vvc"} \/ "audio" = "jpegxs" \/ "audio" = "av1")
      OBVIOUS
    <3> QED
      BY <3>1, Zenon DEF Expected, IsNal
  <2> QED
    BY <2>1, <2>2, Zenon
<1>2. IsNal(media) => Expected(k) = Cyclic(media.nals, k)
  BY DEF Expected, IsNal
<1>3. media.kind = "jpegxs" => Expected(k) = "codestream"
  BY DEF Expected, IsNal
<1>4. ASSUME media.kind = "av1"
      PROVE  LET i == (k - 1) % Room(Len(media.tus))
             IN  Expected(k) = [range |-> TuEntry(media, i + 1), is_new_cvs |-> i = 0]
  <2> DEFINE i == (k - 1) % Room(Len(media.tus))
  <2>1. Expected(k) = [range |-> TuRange(i + 1), is_new_cvs |-> i = 0]
    BY <1>4 DEF Expected, IsNal, Room
  <2>2. TuRange(i + 1) = TuEntry(media, i + 1)
    BY DEF TuRange, TuOffset, TuEntry, TuOctets, Upto
  <2> QED
    BY <2>1, <2>2
<1> QED
  BY <1>1, <1>2, <1>3, <1>4

(* Whatever the file, its units reach the codec transports whole, in order *)
(* and without a gap, and none is left when the stream ends: the search    *)
(* for start codes and for temporal units in examples/server.c.            *)
THEOREM UnitsAreSentWhole == MediaSpec => []MediaSentWhole
<1>1. MediaInv => MediaSentWhole
  <2> SUFFICES ASSUME MediaInv PROVE MediaSentWhole
    OBVIOUS
  <2>1. FileOK /\ media.kind \in {"audio", "video", "vvc", "jpegxs", "av1"}
    BY MediaAssumption DEF MediaInv, FileOK
  <2>2. ASSUME NEW k \in 1 .. Len(sent) PROVE sent[k].unit = Expected(k)
    <3>1. CASE media.kind = "audio"
      BY <3>1, ExpectedIs DEF MediaInv, AudioOK, AudioUnit
    <3>2. CASE IsNal(media)
      BY <3>2, ExpectedIs DEF MediaInv, NalOK, NalUnit
    <3>3. CASE media.kind = "jpegxs"
      BY <3>3, ExpectedIs DEF MediaInv, JpegXsOK, JpegXsUnit
    <3>4. CASE media.kind = "av1"
      BY <3>4, ExpectedIs DEF MediaInv, Av1OK, Av1Unit
    <3> QED
      BY <2>1, <3>1, <3>2, <3>3, <3>4 DEF IsNal
  <2>3. ASSUME stage = "ended" PROVE Len(sent) = Total
    <3>1. CASE media.kind = "audio"
      <4> DEFINE A == AUDIO_SAMPLES_PER_PACKET
                 len == media.len
                 q == Len(sent)
      <4>1. /\ A \in Nat \ {0} /\ len \in Nat /\ q \in Nat
            /\ q # 0 => (q - 1) * A < len
            /\ len <= q * A
        BY <2>1, <2>3, <3>1, MediaAssumption, SentDomain DEF MediaInv, FileOK, AudioOK, AudioFile
      <4>2. Total = (len + A - 1) \div A
        BY <3>1 DEF Total
      <4> HIDE DEF A, len, q
      <4>3. (len + A - 1) \div A = q
        BY <4>1, AudioTotal
      <4> QED
        BY <4>2, <4>3 DEF q
    <3>2. CASE media.kind = "video"
      BY <2>3, <3>2 DEF MediaInv, NalOK, IsNal, Total
    <3> QED
      BY <2>1, <2>3, <3>1, <3>2 DEF FileOK
  <2> QED
    BY <2>1, <2>2, <2>3, SentDomain DEF MediaSentWhole
<1> QED
  BY <1>1, MediaInvariant, PTL

(* Whatever the file, timestamps move with access units and a callback     *)
(* begins at most one: the timer callbacks of examples/server.c.           *)
THEOREM UnitsArePaced == MediaSpec => []UnitsPaced
<1>1. MediaInv => UnitsPaced
  <2> SUFFICES ASSUME MediaInv PROVE UnitsPaced
    OBVIOUS
  <2>1. FileOK /\ media.kind \in {"audio", "video", "vvc", "jpegxs", "av1"}
    BY MediaAssumption DEF MediaInv, FileOK
  <2> DEFINE Due(k) == CASE media.kind = "audio" -> sent[k].unit.from
                         [] IsNal(media) ->
                              TS_STEP * Cardinality({j \in 1 .. k : IsAud(media, Expected(j))})
                         [] OTHER -> TS_STEP * k
  <2>2. ASSUME NEW k \in 1 .. Len(sent) PROVE sent[k].ts = Due(k)
    <3>1. CASE media.kind = "audio"
      <4>1. AudioUnit(media, k, sent[k])
        BY <3>1 DEF MediaInv, AudioOK
      <4>2. sent[k].ts = sent[k].unit.from
        BY <4>1 DEF AudioUnit, AudioRange
      <4>3. ~ IsNal(media)
        BY <3>1 DEF IsNal
      <4> QED
        BY <3>1, <4>2, <4>3, Zenon
    <3>2. CASE IsNal(media)
      <4>1. sent[k].ts = TS_STEP * Auds(media, k)
        BY <3>2 DEF MediaInv, NalOK, NalUnit
      <4>2. {j \in 1 .. k : IsAud(media, Expected(j))}
              = {j \in 1 .. k : IsAud(media, Cyclic(media.nals, j))}
        BY <3>2, ExpectedIs
      <4>3. media.kind # "audio"
        BY <3>2 DEF IsNal
      <4> QED
        BY <3>2, <4>1, <4>2, <4>3 DEF Auds
    <3>3. CASE media.kind = "jpegxs"
      <4>1. sent[k].ts = TS_STEP * k
        BY <3>3 DEF MediaInv, JpegXsOK, JpegXsUnit
      <4> QED
        BY <3>3, <4>1 DEF IsNal
    <3>4. CASE media.kind = "av1"
      <4>1. sent[k].ts = TS_STEP * k
        BY <3>4 DEF MediaInv, Av1OK, Av1Unit
      <4> QED
        BY <3>4, <4>1 DEF IsNal
    <3> QED
      BY <2>1, <3>1, <3>2, <3>3, <3>4 DEF IsNal
  <2>3. DOMAIN sent = 1 .. Len(sent)
    BY <2>1, SentDomain
  <2>4. \A j, k \in 1 .. Len(sent) :
          j < k /\ sent[j].tick = sent[k].tick =>
            IsNal(media) /\ ~ (IsAud(media, sent[j].unit) /\ IsAud(media, sent[k].unit))
    BY DEF MediaInv, TicksOK
  <2> QED
    BY <2>2, <2>3, <2>4 DEF UnitsPaced
<1> QED
  BY <1>1, MediaInvariant, PTL

=============================================================================
