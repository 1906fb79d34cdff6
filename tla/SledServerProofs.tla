-------------------------- MODULE SledServerProofs --------------------------
(***************************************************************************)
(* Proofs about the command server and the packets it reads (SledServer,   *)
(* Rtc3d, NetServer), for any clients, packets and numbers of profiles.    *)
(***************************************************************************)
EXTENDS SledServer, FiniteSetTheorems, WellFoundedInduction, TLAPS

-----------------------------------------------------------------------------
\* A set of natural numbers has a least one.
LEMMA LeastElement ==
    ASSUME NEW T \in SUBSET Nat, T # {}
    PROVE  \E m \in T : \A k \in T : m <= k
<1> DEFINE R == OpToRel(<, Nat)
<1>1. IsWellFoundedOn(R, Nat)
  BY NatLessThanWellFounded
<1> HIDE DEF R
<1>2. PICK m \in T : \A k \in T : ~(<<k, m>> \in R)
  BY <1>1, WFMin
<1>3. \A k \in T : ~(k < m)
  BY <1>2 DEF R, OpToRel
<1> QED
  BY <1>3

\* Induction, on a set in the place of a property.
LEMMA SetInduction ==
    ASSUME NEW S, 0 \in S, \A n \in Nat : n \in S => n + 1 \in S
    PROVE  Nat \subseteq S
<1> DEFINE T == Nat \ S
<1> SUFFICES ASSUME T # {} PROVE FALSE
  OBVIOUS
<1>1. PICK m \in T : \A k \in T : m <= k
  BY LeastElement
<1> QED
  BY <1>1

-----------------------------------------------------------------------------
(***************************************************************************)
(* Bytes is a fold over the packets of a stream, from the left; g is the   *)
(* function that the fold is defined by, on sets of positions.             *)
(***************************************************************************)
IsFold(g, s, n) ==
    g = [t \in SUBSET (1..n) |->
            IF t = {} THEN 0 ELSE LET x == Max(t) IN g[t \ {x}] + s[x].size]

\* The function exists: it is built one position at a time.
LEMMA FoldExists ==
    ASSUME NEW s, NEW m \in Nat
    PROVE  \E g : IsFold(g, s, m)
<1> DEFINE N == {n \in Nat : \E g : IsFold(g, s, n)}
<1>1. 0 \in N
  <2> DEFINE g == [t \in SUBSET (1..0) |-> 0]
  <2>1. \A t \in SUBSET (1..0) : t = {}
    OBVIOUS
  <2>2. IsFold(g, s, 0)
    BY <2>1 DEF IsFold
  <2> QED
    BY <2>2
<1>2. ASSUME NEW n \in Nat, n \in N
      PROVE  n + 1 \in N
  <2>1. PICK g : IsFold(g, s, n)
    BY <1>2
  <2> DEFINE f == [t \in SUBSET (1..(n + 1)) |->
                      IF n + 1 \in t THEN g[t \ {n + 1}] + s[n + 1].size ELSE g[t]]
  <2>2. ASSUME NEW t \in SUBSET (1..(n + 1)), t # {}
        PROVE  f[t] = f[t \ {Max(t)}] + s[Max(t)].size
    <3>1. CASE n + 1 \in t
      <4>1. Max(t) = n + 1
        <5>1. \A y \in t : y \in Int /\ n + 1 >= y
          OBVIOUS
        <5>2. \A x \in t : (\A y \in t : x >= y) => x = n + 1
          BY <3>1, <5>1
        <5> QED
          BY <3>1, <5>1, <5>2 DEF Max
      <4>2. t \ {n + 1} \in SUBSET (1..(n + 1)) /\ n + 1 \notin t \ {n + 1}
        OBVIOUS
      <4> QED
        BY <3>1, <4>1, <4>2
    <3>2. CASE n + 1 \notin t
      <4>1. t \in SUBSET (1..n)
        BY <3>2
      <4>2. g[t] = g[t \ {Max(t)}] + s[Max(t)].size
        BY <2>1, <2>2, <4>1 DEF IsFold
      <4>3. /\ t \ {Max(t)} \in SUBSET (1..(n + 1)) /\ n + 1 \notin t \ {Max(t)}
        BY <3>2
      <4> QED
        BY <3>2, <4>2, <4>3
    <3> QED
      BY <3>1, <3>2
  <2>3. f[{}] = 0
    BY <2>1 DEF IsFold
  <2>4. IsFold(f, s, n + 1)
    BY <2>2, <2>3 DEF IsFold
  <2> QED
    BY <2>4
<1> HIDE DEF N
<1>3. Nat \subseteq N
  BY <1>1, <1>2, SetInduction
<1> QED
  BY <1>3 DEF N

\* What the fold takes for its function is one.
LEMMA BytesFold ==
    ASSUME NEW s, NEW n \in Nat, DOMAIN s = 1..n
    PROVE  \E g : IsFold(g, s, n) /\ Bytes(s) = g[1..n]
<1> DEFINE g == CHOOSE g : IsFold(g, s, n)
<1>1. IsFold(g, s, n)
  BY FoldExists
<1>2. Bytes(s) = g[1..n]
  BY DEF Bytes, FoldLeft, MapThenFoldSet, IsFold
<1> QED
  BY <1>1, <1>2

\* The packets of a stream have a length each.
LEMMA PacketSize == \A p \in Packets : p.size \in Nat \ {0} /\ p.length \in Nat
BY ServerAssumption

\* Without its first packet a stream has that many bytes less.
LEMMA BytesTail ==
    ASSUME NEW s \in Seq(Packets)
    PROVE  /\ Bytes(s) \in Nat
           /\ s = <<>> => Bytes(s) = 0
           /\ s # <<>> => Bytes(s) = Head(s).size + Bytes(Tail(s))
<1>1. ASSUME NEW u \in Seq(Packets)
      PROVE  \E g : /\ Bytes(u) = g[1..Len(u)] /\ g[1..0] = 0
                    /\ \A n \in 1..Len(u) : g[1..n] = g[1..(n - 1)] + u[n].size
  <2>1. PICK g : IsFold(g, u, Len(u)) /\ Bytes(u) = g[1..Len(u)]
    BY BytesFold
  <2>2. g[1..0] = 0
    BY <2>1 DEF IsFold
  <2>3. ASSUME NEW n \in 1..Len(u)
        PROVE  g[1..n] = g[1..(n - 1)] + u[n].size
    <3>1. 1..n \in SUBSET (1..Len(u)) /\ n \in 1..n
      OBVIOUS
    <3>2. \A x \in 1..n : (\A y \in 1..n : x >= y) => x = n
      BY <3>1
    <3>3. Max(1..n) = n
      BY <3>1, <3>2 DEF Max
    <3>4. (1..n) \ {n} = 1..(n - 1)
      OBVIOUS
    <3> QED
      BY <2>1, <3>1, <3>3, <3>4 DEF IsFold
  <2> QED
    BY <2>1, <2>2, <2>3
<1>2. PICK g : /\ Bytes(s) = g[1..Len(s)] /\ g[1..0] = 0
               /\ \A n \in 1..Len(s) : g[1..n] = g[1..(n - 1)] + s[n].size
  BY <1>1
<1>3. \A n \in 1..Len(s) : s[n].size \in Nat
  BY PacketSize
<1>4. \A n \in Nat : n <= Len(s) => g[1..n] \in Nat
  <2> DEFINE N == {n \in Nat : n <= Len(s) => g[1..n] \in Nat}
  <2>1. 0 \in N
    BY <1>2
  <2>2. ASSUME NEW n \in Nat, n \in N
        PROVE  n + 1 \in N
    <3>1. CASE n + 1 <= Len(s)
      <4>1. g[1..(n + 1)] = g[1..n] + s[n + 1].size
        BY <1>2, <3>1, n + 1 \in 1..Len(s), n + 1 - 1 = n
      <4> QED
        BY <1>3, <2>2, <3>1, <4>1
    <3> QED
      BY <3>1
  <2> HIDE DEF N
  <2>3. Nat \subseteq N
    BY <2>1, <2>2, SetInduction
  <2> QED
    BY <2>3 DEF N
<1>5. Bytes(s) \in Nat
  BY <1>2, <1>4
<1>6. s = <<>> => Bytes(s) = 0
  BY <1>2
<1>7. ASSUME s # <<>>
      PROVE  Bytes(s) = Head(s).size + Bytes(Tail(s))
  <2> DEFINE u == Tail(s)
  <2>1. /\ u \in Seq(Packets) /\ Len(s) = Len(u) + 1
        /\ \A n \in 1..Len(u) : u[n] = s[n + 1]
    BY <1>7
  <2> HIDE DEF u
  <2>2. PICK f : /\ Bytes(u) = f[1..Len(u)] /\ f[1..0] = 0
                 /\ \A n \in 1..Len(u) : f[1..n] = f[1..(n - 1)] + u[n].size
    BY <1>1, <2>1
  <2> DEFINE first == s[1].size
  <2>3. first \in Nat
    BY <1>3, <2>1
  <2> HIDE DEF first
  <2> DEFINE N == {n \in Nat : n <= Len(u) => /\ f[1..n] \in Nat
                                             /\ g[1..(n + 1)] = first + f[1..n]}
  <2>4. 0 \in N
    <3>1. g[1..1] = g[1..0] + first
      BY <1>2, <2>1, 1 \in 1..Len(s), 1 - 1 = 0 DEF first
    <3> QED
      BY <1>2, <2>2, <2>3, <3>1
  <2>5. ASSUME NEW n \in Nat, n \in N
        PROVE  n + 1 \in N
    <3>1. CASE n + 1 <= Len(u)
      <4>1. f[1..(n + 1)] = f[1..n] + u[n + 1].size
        BY <2>2, <3>1, n + 1 \in 1..Len(u), n + 1 - 1 = n
      <4>2. g[1..(n + 2)] = g[1..(n + 1)] + s[n + 2].size
        BY <1>2, <2>1, <3>1, n + 2 \in 1..Len(s), n + 2 - 1 = n + 1
      <4>3. u[n + 1] = s[n + 2] /\ s[n + 2].size \in Nat
        BY <1>3, <2>1, <3>1, n + 1 \in 1..Len(u), n + 2 \in 1..Len(s), n + 1 + 1 = n + 2
      <4>4. n + 1 + 1 = n + 2
        OBVIOUS
      <4> QED
        BY <2>3, <2>5, <3>1, <4>1, <4>2, <4>3, <4>4
    <3> QED
      BY <3>1
  <2> HIDE DEF N
  <2>6. Nat \subseteq N
    BY <2>4, <2>5, SetInduction
  <2>7. g[1..(Len(u) + 1)] = first + f[1..Len(u)]
    BY <2>1, <2>6 DEF N
  <2> QED
    BY <1>2, <1>7, <2>1, <2>2, <2>7 DEF first, u
<1> QED
  BY <1>5, <1>6, <1>7

-----------------------------------------------------------------------------
(***************************************************************************)
(* The inductive invariant of the reader.  Besides what it knows of the    *)
(* packet at hand (InStep): a client has taken part of its first packet    *)
(* and never all of it, nothing is taken before a connection is accepted,  *)
(* only a client in unfit has a packet on its way that does not fit, and a *)
(* read that is being handled has no more bytes than were sent.            *)
(***************************************************************************)
ConnType == [size_left : 0..SizeBytes, size : Int, data_left : 0..(ByteValues - 1),
             data : {"own", "any"}]

ReaderTypeOK ==
    /\ link \in [Clients -> {"away", "queued", "open"}]
    /\ stream \in [Clients -> Seq(Packets)] /\ taken \in [Clients -> Nat]
    /\ conn \in [Clients -> ConnType]
    /\ reading = {} \/ \E c \in Clients : reading = {c}
    /\ buf \in 0..BufferSize /\ (reading = {} <=> buf = 0)

PartTaken(c) ==
    /\ stream[c] = <<>> => taken[c] = 0
    /\ stream[c] # <<>> => taken[c] < Head(stream[c]).size
    /\ link[c] # "open" => taken[c] = 0

AllFit(c) ==
    c \notin unfit => \A i \in 1..Len(stream[c]) : Fit(stream[c][i])

WasSent(c) == c \in reading => link[c] = "open" /\ buf <= Unread(c)

\* InStep, for one client.
ClientInStep(c) ==
    c \notin unfit /\ link[c] = "open" =>
        IF taken[c] < SizeBytes
        THEN conn[c].size_left = SizeBytes - taken[c]
        ELSE /\ conn[c].size_left = 0
             /\ conn[c].size = Head(stream[c]).size - SizeBytes
             /\ conn[c].data_left = Head(stream[c]).size - taken[c]

ReaderOK(c) == PartTaken(c) /\ AllFit(c) /\ WasSent(c) /\ ClientInStep(c)

ReaderInv == ReaderTypeOK /\ \A c \in Clients : ReaderOK(c)

\* The invariant implies the property that is checked.
LEMMA ReaderInStep == ReaderInv => InStep
BY DEF ReaderInv, ReaderOK, ClientInStep, InStep

\* It holds before anybody connects.
LEMMA ReaderInit == Init => ReaderInv
<1> SUFFICES ASSUME Init PROVE ReaderInv
  OBVIOUS
<1>1. ReaderTypeOK
  BY NetAssumption, ByteAssumption
     DEF Init, NetInit, RtcInit, Fresh, ReaderTypeOK, ConnType, SizeBytes
<1>2. ASSUME NEW c \in Clients PROVE ReaderOK(c)
  BY DEF Init, NetInit, RtcInit, ReaderOK, PartTaken, AllFit, WasSent,
         ClientInStep
<1> QED
  BY <1>1, <1>2 DEF ReaderInv

\* The least of two, and of three, numbers of bytes.
LEMMA MinOfTwo ==
    ASSUME NEW a \in Nat \ {0}, NEW b \in Nat \ {0}
    PROVE  /\ Min({a, b}) \in Nat \ {0} /\ Min({a, b}) <= a /\ Min({a, b}) <= b
<1>1. \E x \in {a, b} : \A y \in {a, b} : x <= y
  OBVIOUS
<1> QED
  BY <1>1 DEF Min

\* The step of the reader: some bytes, and no more than any of three bounds.
LEMMA MinOfThree ==
    ASSUME NEW a \in Nat \ {0}, NEW b \in Nat \ {0}, NEW d \in Nat \ {0}
    PROVE  /\ Min({a, b, d}) \in Nat \ {0}
           /\ Min({a, b, d}) <= a /\ Min({a, b, d}) <= b /\ Min({a, b, d}) <= d
<1>1. \E x \in {a, b, d} : \A y \in {a, b, d} : x <= y
  OBVIOUS
<1> QED
  BY <1>1 DEF Min

\* While a read is handled there is a packet at hand, with bytes left in it.
LEMMA AtHand ==
    ASSUME ReaderInv, NEW c \in reading
    PROVE  /\ c \in Clients /\ reading = {c} /\ stream[c] # <<>> /\ link[c] = "open"
           /\ stream[c] \in Seq(Packets) /\ Head(stream[c]) \in Packets
           /\ taken[c] \in Nat /\ Left(c) \in Nat \ {0} /\ buf \in Nat \ {0}
           /\ buf <= Bytes(stream[c]) - taken[c]
<1>1. c \in Clients /\ reading = {c} /\ buf \in Nat \ {0}
  BY NetAssumption DEF ReaderInv, ReaderTypeOK
<1>2. stream[c] \in Seq(Packets) /\ taken[c] \in Nat
  BY <1>1 DEF ReaderInv, ReaderTypeOK
<1>3. link[c] = "open" /\ buf <= Bytes(stream[c]) - taken[c]
  BY <1>1 DEF ReaderInv, ReaderOK, WasSent, Unread
<1>4. stream[c] # <<>>
  <2>1. Bytes(<<>>) = 0
    BY BytesTail, <<>> \in Seq(Packets)
  <2> QED
    BY <1>1, <1>2, <1>3, <2>1
<1>5. Head(stream[c]) \in Packets
  BY <1>2, <1>4
<1>6. taken[c] < Head(stream[c]).size /\ Head(stream[c]).size \in Nat
  BY <1>1, <1>4, <1>5, PacketSize DEF ReaderInv, ReaderOK, PartTaken
<1>7. Left(c) \in Nat \ {0}
  BY <1>2, <1>6 DEF Left
<1> QED
  BY <1>1, <1>2, <1>3, <1>4, <1>5, <1>7

\* What one pass through the loop of read_handler does to the streams.
LEMMA TakeKeeps ==
    ASSUME ReaderInv, NEW c \in reading, NEW k \in Nat \ {0}, k <= buf, k <= Left(c),
           Consumed(c, k), Take(c, k), link' = link, unfit' = unfit
    PROVE  /\ stream' \in [Clients -> Seq(Packets)] /\ taken' \in [Clients -> Nat]
           /\ reading' = {} \/ \E d \in Clients : reading' = {d}
           /\ buf' \in 0..BufferSize /\ (reading' = {} <=> buf' = 0)
           /\ \A d \in Clients : PartTaken(d)' /\ AllFit(d)' /\ WasSent(d)'
           /\ \A d \in Clients \ {c} : stream'[d] = stream[d] /\ taken'[d] = taken[d]
           /\ k = Left(c) => taken'[c] = 0
           /\ k # Left(c) => taken'[c] = taken[c] + k /\ stream'[c] = stream[c]
<1>1. /\ c \in Clients /\ reading = {c} /\ stream[c] # <<>> /\ link[c] = "open"
      /\ stream[c] \in Seq(Packets) /\ Head(stream[c]) \in Packets
      /\ taken[c] \in Nat /\ Left(c) \in Nat \ {0} /\ buf \in Nat \ {0}
      /\ buf <= Bytes(stream[c]) - taken[c]
  BY AtHand
<1>2. /\ stream \in [Clients -> Seq(Packets)] /\ taken \in [Clients -> Nat]
      /\ buf \in 0..BufferSize /\ BufferSize \in Nat
  BY NetAssumption DEF ReaderInv, ReaderTypeOK
<1>3. buf' = buf - k /\ buf' \in 0..BufferSize /\ (reading' = {} <=> buf' = 0)
      /\ reading' \in {{}, {c}}
  BY <1>1, <1>2 DEF Consumed
<1>4. Tail(stream[c]) \in Seq(Packets)
      /\ Bytes(stream[c]) = Head(stream[c]).size + Bytes(Tail(stream[c]))
      /\ Bytes(Tail(stream[c])) \in Nat /\ Head(stream[c]).size \in Nat
  <2>1. Tail(stream[c]) \in Seq(Packets)
    BY <1>1
  <2>2. Bytes(Tail(stream[c])) \in Nat
    BY <2>1, BytesTail
  <2>3. Bytes(stream[c]) = Head(stream[c]).size + Bytes(Tail(stream[c]))
    BY <1>1, BytesTail
  <2> QED
    BY <1>1, <2>1, <2>2, <2>3, PacketSize
<1>5. /\ stream' \in [Clients -> Seq(Packets)] /\ taken' \in [Clients -> Nat]
      /\ \A d \in Clients \ {c} : stream'[d] = stream[d] /\ taken'[d] = taken[d]
      /\ k = Left(c) => taken'[c] = 0 /\ stream'[c] = Tail(stream[c])
      /\ k # Left(c) => taken'[c] = taken[c] + k /\ stream'[c] = stream[c]
  <2>1. CASE k = Left(c)
    <3>1. stream' = [stream EXCEPT ![c] = Tail(@)] /\ taken' = [taken EXCEPT ![c] = 0]
      BY <2>1 DEF Take
    <3> QED
      BY <1>1, <1>2, <1>4, <2>1, <3>1
  <2>2. CASE k # Left(c)
    <3>1. taken' = [taken EXCEPT ![c] = @ + k] /\ stream' = stream
      BY <2>2 DEF Take
    <3> QED
      BY <1>1, <1>2, <2>2, <3>1
  <2> QED
    BY <2>1, <2>2
<1>6. ASSUME NEW d \in Clients \ {c}
      PROVE  PartTaken(d)' /\ AllFit(d)' /\ WasSent(d)'
  BY <1>3, <1>5 DEF ReaderInv, ReaderOK, PartTaken, AllFit, WasSent
<1>7. PartTaken(c)'
  <2>1. CASE k = Left(c)
    <3>1. Tail(stream[c]) # <<>> => Head(Tail(stream[c])) \in Packets
      BY <1>4
    <3>2. Tail(stream[c]) # <<>> => 0 < Head(Tail(stream[c])).size
      BY <3>1, PacketSize
    <3> QED
      BY <1>5, <2>1, <3>2 DEF PartTaken
  <2>2. CASE k # Left(c)
    BY <1>1, <1>4, <1>5, <2>2, SMTT(30) DEF PartTaken, Left
  <2> QED
    BY <2>1, <2>2
<1>8. AllFit(c)'
  <2>1. AllFit(c)
    BY <1>1 DEF ReaderInv, ReaderOK
  <2>2. Len(Tail(stream[c])) = Len(stream[c]) - 1
        /\ \A i \in 1..Len(Tail(stream[c])) :
              i + 1 \in 1..Len(stream[c]) /\ Tail(stream[c])[i] = stream[c][i + 1]
    BY <1>1
  <2>3. stream'[c] \in {stream[c], Tail(stream[c])}
    BY <1>5
  <2>4. CASE stream'[c] = stream[c]
    BY <2>1, <2>4 DEF AllFit
  <2>5. CASE stream'[c] = Tail(stream[c])
    <3>1. SUFFICES ASSUME c \notin unfit, NEW i \in 1..Len(Tail(stream[c]))
                   PROVE  Fit(Tail(stream[c])[i])
      BY <2>5 DEF AllFit
    <3> QED
      BY <2>1, <2>2, <3>1 DEF AllFit
  <2> QED
    BY <2>3, <2>4, <2>5
<1>9. WasSent(c)'
  <2>1. buf' <= Bytes(stream'[c]) - taken'[c]
    <3>1. CASE k = Left(c)
      <4>1. stream'[c] = Tail(stream[c]) /\ taken'[c] = 0
        BY <1>5, <3>1
      <4>2. k = Head(stream[c]).size - taken[c]
        BY <3>1 DEF Left
      <4> QED
        BY <1>1, <1>3, <1>4, <4>1, <4>2, SMTT(30)
    <3>2. CASE k # Left(c)
      <4>1. stream'[c] = stream[c] /\ taken'[c] = taken[c] + k
        BY <1>5, <3>2
      <4> QED
        BY <1>1, <1>3, <1>4, <4>1
    <3> QED
      BY <3>1, <3>2
  <2> QED
    BY <1>1, <2>1 DEF WasSent, Unread
<1> QED
  BY <1>1, <1>3, <1>5, <1>6, <1>7, <1>8, <1>9

\* A step that leaves a connection alone leaves it in step.
LEMMA OtherInStep ==
    ASSUME NEW d \in Clients, ClientInStep(d), link'[d] = link[d],
           stream'[d] = stream[d], taken'[d] = taken[d], conn'[d] = conn[d],
           d \in unfit => d \in unfit'
    PROVE  ClientInStep(d)'
BY DEF ClientInStep

\* The length of a packet, or part of it, is read.
LEMMA ReaderHeader ==
    ASSUME ReaderInv, NEW c \in Clients, ReadHeader(c)
    PROVE  ReaderInv'
<1> DEFINE k == HeaderChunk(c)
           size == Head(stream[c]).size
           own == OwnHeader(c) /\ Head(stream[c]).length = size
<1>0. PICK length \in (IF OwnHeader(c) THEN {Head(stream[c]).length} ELSE Lengths) :
            conn' = [conn EXCEPT ![c] = AfterHeader(@, k, length, own)]
  BY DEF ReadHeader
<1>1. /\ c \in reading /\ conn[c].size_left > 0
      /\ Consumed(c, k) /\ Take(c, k) /\ link' = link /\ unfit' = unfit
      /\ conn' = [conn EXCEPT ![c] = AfterHeader(@, k, length, own)]
  BY <1>0 DEF ReadHeader, InHeader
<1>2. /\ link[c] = "open" /\ Head(stream[c]) \in Packets /\ stream[c] # <<>>
      /\ taken[c] \in Nat /\ Left(c) \in Nat \ {0} /\ buf \in Nat \ {0}
  BY <1>1, AtHand
<1>3. /\ conn \in [Clients -> ConnType]
      /\ link \in [Clients -> {"away", "queued", "open"}]
      /\ \A d \in Clients : ClientInStep(d) /\ AllFit(d)
  BY DEF ReaderInv, ReaderTypeOK, ReaderOK
<1>4. /\ conn[c].size_left \in 1..4 /\ conn[c].size \in Int
      /\ conn[c].data_left \in 0..(ByteValues - 1) /\ conn[c].data \in {"own", "any"}
      /\ conn[c] = [size_left |-> conn[c].size_left, size |-> conn[c].size,
                    data_left |-> conn[c].data_left, data |-> conn[c].data]
  BY <1>1, <1>3 DEF SizeBytes, ConnType
<1>5. size \in Nat /\ length \in Nat /\ Left(c) = size - taken[c]
  BY <1>2, PacketSize, LengthAssumption DEF Left
<1>6. /\ k \in Nat \ {0} /\ k <= buf /\ k <= conn[c].size_left /\ k <= Left(c)
  <2>1. conn[c].size_left \in Nat \ {0}
    BY <1>4
  <2> QED
    BY <1>2, <2>1, MinOfThree, Zenon DEF HeaderChunk
<1> HIDE DEF k, size, own
<1>7. /\ stream' \in [Clients -> Seq(Packets)] /\ taken' \in [Clients -> Nat]
      /\ reading' = {} \/ \E d \in Clients : reading' = {d}
      /\ buf' \in 0..BufferSize /\ (reading' = {} <=> buf' = 0)
      /\ \A d \in Clients : PartTaken(d)' /\ AllFit(d)' /\ WasSent(d)'
      /\ \A d \in Clients \ {c} : stream'[d] = stream[d] /\ taken'[d] = taken[d]
      /\ k # Left(c) => taken'[c] = taken[c] + k /\ stream'[c] = stream[c]
  BY <1>1, <1>6, TakeKeeps
<1> DEFINE rest == (length - SizeBytes) % ByteValues
           data == IF own /\ length - SizeBytes \in TypeBytes..(ByteValues - 1)
                   THEN "own" ELSE "any"
<1>8. /\ rest \in 0..(ByteValues - 1) /\ length - SizeBytes \in Int
      /\ data \in {"own", "any"}
  BY <1>5, ByteAssumption DEF SizeBytes
<1>9. /\ conn[c].size_left = k =>
            conn'[c] = [size_left |-> 0, size |-> length - SizeBytes,
                        data_left |-> rest, data |-> data]
      /\ conn[c].size_left # k =>
            conn'[c] = [size_left |-> conn[c].size_left - k, size |-> conn[c].size,
                        data_left |-> conn[c].data_left, data |-> conn[c].data]
      /\ \A d \in Clients \ {c} : conn'[d] = conn[d]
      /\ conn' = [conn EXCEPT ![c] = conn'[c]]
  BY <1>1, <1>3, <1>4 DEF AfterHeader
<1> HIDE DEF data
<1>10. conn'[c] \in ConnType
  BY <1>4, <1>6, <1>8, <1>9 DEF SizeBytes, ConnType
<1>11. conn' \in [Clients -> ConnType]
  BY <1>3, <1>9, <1>10
<1>12. ReaderTypeOK'
  BY <1>1, <1>3, <1>7, <1>11 DEF ReaderTypeOK
<1>13. ClientInStep(c)'
  <2> SUFFICES ASSUME c \notin unfit PROVE ClientInStep(c)'
    BY <1>1 DEF ClientInStep
  <2>1. taken[c] < 4 /\ conn[c].size_left = 4 - taken[c]
    BY <1>2, <1>3, <1>4 DEF ClientInStep, SizeBytes
  <2>2. Fit(Head(stream[c]))
    BY <1>2, <1>3 DEF AllFit
  <2>3. length = size /\ size - 4 \in 1..(ByteValues - 1)
    BY <1>2, <2>1, <2>2 DEF OwnHeader, Fit, SizeBytes, size
  <2>4. k # Left(c)
    BY <1>2, <1>5, <1>6, <2>1, <2>3
  <2>5. taken'[c] = taken[c] + k /\ stream'[c] = stream[c]
    BY <1>7, <2>4
  <2>6. rest = size - 4
    BY <2>3, ByteAssumption DEF SizeBytes
  <2>7. CASE conn[c].size_left = k
    <3>1. taken'[c] = 4
      BY <1>2, <2>1, <2>5, <2>7
    <3> QED
      BY <1>5, <1>9, <2>3, <2>5, <2>6, <2>7, <3>1 DEF ClientInStep, SizeBytes, size
  <2>8. CASE conn[c].size_left # k
    BY <1>2, <1>4, <1>6, <1>9, <2>1, <2>5, <2>8 DEF ClientInStep, SizeBytes
  <2> QED
    BY <2>7, <2>8
<1>14. ASSUME NEW d \in Clients \ {c} PROVE ClientInStep(d)'
  BY <1>1, <1>3, <1>7, <1>9, OtherInStep
<1> QED
  BY <1>7, <1>12, <1>13, <1>14 DEF ReaderInv, ReaderOK

\* Data is read, and not the last of the packet.
LEMMA ReaderData ==
    ASSUME ReaderInv, NEW c \in Clients, ReadData(c)
    PROVE  ReaderInv'
<1> DEFINE k == PayloadChunk(c)
           size == Head(stream[c]).size
<1>1. /\ c \in reading /\ conn[c].size_left = 0 /\ conn[c].data_left > 0
      /\ k < conn[c].data_left
      /\ Consumed(c, k) /\ Take(c, k) /\ link' = link /\ unfit' = unfit
      /\ conn' = [conn EXCEPT ![c].data_left = @ - k]
  BY DEF ReadData, InPayload
<1>2. /\ link[c] = "open" /\ Head(stream[c]) \in Packets
      /\ taken[c] \in Nat /\ Left(c) \in Nat \ {0} /\ buf \in Nat \ {0}
  BY <1>1, AtHand
<1>3. /\ conn \in [Clients -> ConnType]
      /\ link \in [Clients -> {"away", "queued", "open"}]
      /\ \A d \in Clients : ClientInStep(d)
  BY DEF ReaderInv, ReaderTypeOK, ReaderOK
<1>4. /\ conn[c].data_left \in 0..(ByteValues - 1) /\ conn[c].data_left \in Nat \ {0}
      /\ conn[c] = [size_left |-> 0, size |-> conn[c].size,
                    data_left |-> conn[c].data_left, data |-> conn[c].data]
      /\ conn[c].size \in Int /\ conn[c].data \in {"own", "any"}
  BY <1>1, <1>3, ByteAssumption DEF ConnType
<1>5. /\ size \in Nat /\ Left(c) = size - taken[c]
  BY <1>2, PacketSize DEF Left
<1>6. /\ k \in Nat \ {0} /\ k <= buf /\ k <= Left(c)
  BY <1>2, <1>4, MinOfThree, Zenon DEF PayloadChunk
<1> HIDE DEF k, size
<1>7. /\ stream' \in [Clients -> Seq(Packets)] /\ taken' \in [Clients -> Nat]
      /\ reading' = {} \/ \E d \in Clients : reading' = {d}
      /\ buf' \in 0..BufferSize /\ (reading' = {} <=> buf' = 0)
      /\ \A d \in Clients : PartTaken(d)' /\ AllFit(d)' /\ WasSent(d)'
      /\ \A d \in Clients \ {c} : stream'[d] = stream[d] /\ taken'[d] = taken[d]
      /\ k # Left(c) => taken'[c] = taken[c] + k /\ stream'[c] = stream[c]
  BY <1>1, <1>6, TakeKeeps
<1>8. /\ conn'[c] = [size_left |-> 0, size |-> conn[c].size,
                     data_left |-> conn[c].data_left - k, data |-> conn[c].data]
      /\ \A d \in Clients \ {c} : conn'[d] = conn[d]
      /\ conn' = [conn EXCEPT ![c] = conn'[c]]
  BY <1>1, <1>3, <1>4
<1>9. conn'[c] \in ConnType
  <2>1. conn[c].data_left - k \in 0..(ByteValues - 1)
    BY <1>1, <1>4, <1>6, ByteAssumption
  <2> QED
    BY <1>4, <1>8, <2>1 DEF SizeBytes, ConnType
<1>10. conn' \in [Clients -> ConnType]
  BY <1>3, <1>8, <1>9
<1>11. ReaderTypeOK'
  BY <1>1, <1>3, <1>7, <1>10 DEF ReaderTypeOK
<1>12. ClientInStep(c)'
  <2> SUFFICES ASSUME c \notin unfit PROVE ClientInStep(c)'
    BY <1>1 DEF ClientInStep
  <2>1. /\ ~(taken[c] < 4) /\ conn[c].size = size - 4
        /\ conn[c].data_left = size - taken[c]
    BY <1>1, <1>2, <1>3 DEF ClientInStep, SizeBytes, size
  <2>2. taken'[c] = taken[c] + k /\ stream'[c] = stream[c]
    <3>1. k # Left(c)
      BY <1>1, <1>2, <1>4, <1>5, <1>6, <2>1
    <3> QED
      BY <1>7, <3>1
  <2> QED
    <3>1. /\ ~(taken'[c] < 4) /\ conn'[c].size_left = 0
          /\ conn'[c].size = Head(stream'[c]).size - 4
          /\ conn'[c].data_left = Head(stream'[c]).size - taken'[c]
      BY <1>2, <1>5, <1>6, <1>8, <2>1, <2>2 DEF size
    <3> QED
      BY <3>1 DEF ClientInStep, SizeBytes
<1>13. ASSUME NEW d \in Clients \ {c} PROVE ClientInStep(d)'
  BY <1>1, <1>3, <1>7, <1>8, OtherInStep
<1> QED
  BY <1>7, <1>11, <1>12, <1>13 DEF ReaderInv, ReaderOK

\* The rest of the data is read, and the connection waits for a packet.
LEMMA ReaderPacket ==
    ASSUME ReaderInv, NEW c \in Clients, Complete(c), AfterPacket(c), link' = link
    PROVE  ReaderInv'
<1> DEFINE k == PayloadChunk(c)
<1>1. /\ c \in reading /\ conn[c].size_left = 0 /\ conn[c].data_left > 0
      /\ k = conn[c].data_left
      /\ Consumed(c, k) /\ Take(c, k) /\ unfit' = unfit
      /\ conn' = [conn EXCEPT ![c] = Fresh]
  BY DEF Complete, InPayload, AfterPacket
<1>2. /\ link[c] = "open" /\ Left(c) \in Nat \ {0} /\ buf \in Nat \ {0}
      /\ taken[c] \in Nat
  BY <1>1, AtHand
<1>3. /\ conn \in [Clients -> ConnType]
      /\ link \in [Clients -> {"away", "queued", "open"}]
      /\ \A d \in Clients : ClientInStep(d)
  BY DEF ReaderInv, ReaderTypeOK, ReaderOK
<1>4. conn[c].data_left \in Nat \ {0}
  BY <1>1, <1>3, ByteAssumption DEF ConnType
<1>5. /\ k \in Nat \ {0} /\ k <= buf /\ k <= Left(c)
  BY <1>2, <1>4, MinOfThree, Zenon DEF PayloadChunk
<1> HIDE DEF k
<1>6. /\ stream' \in [Clients -> Seq(Packets)] /\ taken' \in [Clients -> Nat]
      /\ reading' = {} \/ \E d \in Clients : reading' = {d}
      /\ buf' \in 0..BufferSize /\ (reading' = {} <=> buf' = 0)
      /\ \A d \in Clients : PartTaken(d)' /\ AllFit(d)' /\ WasSent(d)'
      /\ \A d \in Clients \ {c} : stream'[d] = stream[d] /\ taken'[d] = taken[d]
      /\ k = Left(c) => taken'[c] = 0
  BY <1>1, <1>5, TakeKeeps
<1>7. Fresh \in ConnType
  BY ByteAssumption DEF Fresh, ConnType, SizeBytes
<1>8. /\ conn' \in [Clients -> ConnType]
      /\ conn'[c] = Fresh /\ \A d \in Clients \ {c} : conn'[d] = conn[d]
  BY <1>1, <1>3, <1>7
<1>9. ReaderTypeOK'
  BY <1>3, <1>6, <1>8 DEF ReaderTypeOK
<1>10. ClientInStep(c)'
  <2> SUFFICES ASSUME c \notin unfit PROVE ClientInStep(c)'
    BY <1>1 DEF ClientInStep
  <2>1. k = Left(c)
    BY <1>1, <1>2, <1>3 DEF ClientInStep, SizeBytes, Left
  <2> QED
    BY <1>6, <1>8, <2>1 DEF ClientInStep, SizeBytes, Fresh
<1>11. ASSUME NEW d \in Clients \ {c} PROVE ClientInStep(d)'
  BY <1>1, <1>3, <1>6, <1>8, OtherInStep
<1> QED
  BY <1>6, <1>9, <1>10, <1>11 DEF ReaderInv, ReaderOK

\* Bytes that belong to no packet, as the reader sees it.
LEMMA ReaderIgnore ==
    ASSUME ReaderInv, NEW c \in Clients, Ignore(c)
    PROVE  ReaderInv'
<1> DEFINE k == Min({buf, Left(c)})
<1>1. /\ c \in reading /\ ~InHeader(c) /\ ~InPayload(c)
      /\ Consumed(c, k) /\ Take(c, k) /\ link' = link /\ unfit' = unfit
      /\ conn' = conn
  BY DEF Ignore
<1>2. /\ link[c] = "open" /\ Head(stream[c]) \in Packets /\ stream[c] # <<>>
      /\ taken[c] \in Nat /\ Left(c) \in Nat \ {0} /\ buf \in Nat \ {0}
  BY <1>1, AtHand
<1>3. /\ conn \in [Clients -> ConnType]
      /\ link \in [Clients -> {"away", "queued", "open"}]
      /\ \A d \in Clients : ClientInStep(d)
  BY DEF ReaderInv, ReaderTypeOK, ReaderOK
<1>4. /\ k \in Nat \ {0} /\ k <= buf /\ k <= Left(c)
  BY <1>2, MinOfTwo, Zenon
<1> HIDE DEF k
<1>5. /\ stream' \in [Clients -> Seq(Packets)] /\ taken' \in [Clients -> Nat]
      /\ reading' = {} \/ \E d \in Clients : reading' = {d}
      /\ buf' \in 0..BufferSize /\ (reading' = {} <=> buf' = 0)
      /\ \A d \in Clients : PartTaken(d)' /\ AllFit(d)' /\ WasSent(d)'
      /\ \A d \in Clients \ {c} : stream'[d] = stream[d] /\ taken'[d] = taken[d]
  BY <1>1, <1>4, TakeKeeps
<1>6. ReaderTypeOK'
  BY <1>1, <1>3, <1>5 DEF ReaderTypeOK
<1>7. c \in unfit
  <2>1. conn[c].size_left \in Nat /\ conn[c].data_left \in Nat
    BY <1>3, ByteAssumption DEF SizeBytes, ConnType
  <2>2. conn[c].size_left = 0 /\ conn[c].data_left = 0
    BY <1>1, <2>1 DEF InHeader, InPayload
  <2>3. Head(stream[c]).size - taken[c] # 0
    BY <1>2 DEF Left
  <2> QED
    BY <1>2, <1>3, <2>2, <2>3 DEF ClientInStep, SizeBytes
<1>8. ClientInStep(c)'
  BY <1>1, <1>7 DEF ClientInStep
<1>9. ASSUME NEW d \in Clients \ {c} PROVE ClientInStep(d)'
  BY <1>1, <1>3, <1>5, OtherInStep
<1> QED
  BY <1>5, <1>6, <1>8, <1>9 DEF ReaderInv, ReaderOK

-----------------------------------------------------------------------------
\* A connection ends: nothing is left of it.
LEMMA ReaderClosed ==
    ASSUME ReaderInv, NEW c \in Clients, Closed(c), reading' = {}, buf' = 0
    PROVE  ReaderInv'
<1>1. /\ link' = [link EXCEPT ![c] = "away"] /\ stream' = [stream EXCEPT ![c] = <<>>]
      /\ taken' = [taken EXCEPT ![c] = 0] /\ conn' = [conn EXCEPT ![c] = Fresh]
      /\ unfit' = unfit \ {c}
  BY DEF Closed, NetDisconnect
<1>2. Fresh \in ConnType
  BY ByteAssumption DEF Fresh, ConnType, SizeBytes
<1>3. ReaderTypeOK'
  BY <1>1, <1>2, NetAssumption, SMTT(30) DEF ReaderInv, ReaderTypeOK
<1>4. ReaderOK(c)'
  BY <1>1, <1>3 DEF ReaderInv, ReaderTypeOK, ReaderOK, PartTaken, AllFit, WasSent,
                    ClientInStep
<1>5. ASSUME NEW d \in Clients \ {c} PROVE ReaderOK(d)'
  <2>1. /\ link'[d] = link[d] /\ stream'[d] = stream[d] /\ taken'[d] = taken[d]
        /\ conn'[d] = conn[d] /\ (d \in unfit' <=> d \in unfit)
    BY <1>1 DEF ReaderInv, ReaderTypeOK
  <2> QED
    BY <2>1 DEF ReaderInv, ReaderOK, PartTaken, AllFit, WasSent, ClientInStep
<1> QED
  BY <1>3, <1>4, <1>5 DEF ReaderInv

\* A connection is accepted.
LEMMA ReaderAccept ==
    ASSUME ReaderInv, NEW c \in Clients, Accept(c)
    PROVE  ReaderInv'
<1>1. /\ link[c] = "queued" /\ link' = [link EXCEPT ![c] = "open"]
      /\ stream' = stream /\ taken' = taken /\ conn' = [conn EXCEPT ![c] = Fresh]
      /\ reading = {} /\ reading' = reading /\ buf' = buf /\ unfit' = unfit
  BY DEF Accept, NetAccept, Idle
<1>2. Fresh \in ConnType
  BY ByteAssumption DEF Fresh, ConnType, SizeBytes
<1>3. ReaderTypeOK'
  BY <1>1, <1>2 DEF ReaderInv, ReaderTypeOK
<1>4. ReaderOK(c)'
  <2>1. taken[c] = 0 /\ conn'[c].size_left = 4
    BY <1>1 DEF ReaderInv, ReaderTypeOK, ReaderOK, PartTaken, Fresh, SizeBytes
  <2> QED
    BY <1>1, <2>1 DEF ReaderInv, ReaderOK, PartTaken, AllFit, WasSent,
                      ClientInStep, SizeBytes
<1>5. ASSUME NEW d \in Clients \ {c} PROVE ReaderOK(d)'
  <2>1. link'[d] = link[d] /\ conn'[d] = conn[d]
    BY <1>1 DEF ReaderInv, ReaderTypeOK
  <2> QED
    BY <1>1, <2>1 DEF ReaderInv, ReaderOK, PartTaken, AllFit, WasSent, ClientInStep
<1> QED
  BY <1>3, <1>4, <1>5 DEF ReaderInv

\* A read returns some of the bytes that were sent.
LEMMA ReaderReads ==
    ASSUME ReaderInv, NEW c \in Clients, OnRead(c)
    PROVE  ReaderInv'
<1>1. /\ link[c] = "open" /\ stream[c] # <<>> /\ buf' \in ReadSizes(c)
      /\ reading' = {c} /\ link' = link /\ stream' = stream /\ taken' = taken
      /\ conn' = conn /\ unfit' = unfit
  BY DEF OnRead, netVars
<1>2. Unread(c) \in Nat \ {0}
  <2>1. stream[c] \in Seq(Packets) /\ taken[c] \in Nat
    BY DEF ReaderInv, ReaderTypeOK
  <2>2. Head(stream[c]) \in Packets /\ Tail(stream[c]) \in Seq(Packets)
    BY <1>1, <2>1
  <2>3. Bytes(Tail(stream[c])) \in Nat
    BY <2>2, BytesTail
  <2>4. Bytes(stream[c]) = Head(stream[c]).size + Bytes(Tail(stream[c]))
    BY <1>1, <2>1, BytesTail
  <2>5. taken[c] < Head(stream[c]).size /\ Head(stream[c]).size \in Nat
    BY <1>1, <2>2, PacketSize DEF ReaderInv, ReaderOK, PartTaken
  <2> QED
    BY <2>1, <2>3, <2>4, <2>5 DEF Unread
<1> DEFINE most == Min({Unread(c), BufferSize})
<1>3. most \in Nat \ {0} /\ most <= Unread(c) /\ most <= BufferSize
  BY <1>2, NetAssumption, MinOfTwo, Zenon
<1>4. buf' \in 1..most
  BY <1>1 DEF ReadSizes
<1> HIDE DEF most
<1>5. buf' \in 1..BufferSize /\ buf' <= Unread(c)
  BY <1>2, <1>3, <1>4, NetAssumption
<1>6. ReaderTypeOK'
  <2>1. buf' \in 0..BufferSize /\ buf' # 0 /\ reading' # {}
    BY <1>1, <1>5, NetAssumption
  <2>2. ReaderTypeOK
    BY DEF ReaderInv
  <2> QED
    BY <1>1, <2>1, <2>2 DEF ReaderTypeOK
<1>7. ASSUME NEW d \in Clients PROVE ReaderOK(d)'
  <2>1. PartTaken(d)' /\ AllFit(d)' /\ ClientInStep(d)'
    BY <1>1 DEF ReaderInv, ReaderOK, PartTaken, AllFit, ClientInStep
  <2>2. WasSent(d)'
    BY <1>1, <1>5 DEF WasSent, Unread
  <2> QED
    BY <2>1, <2>2 DEF ReaderOK
<1> QED
  BY <1>6, <1>7 DEF ReaderInv

\* A client connects.
LEMMA ReaderConnects ==
    ASSUME ReaderInv, NEW c \in Clients, ClientConnects(c)
    PROVE  ReaderInv'
<1>1. /\ link[c] = "away" /\ link' = [link EXCEPT ![c] = "queued"]
      /\ stream' = stream /\ taken' = taken /\ conn' = conn
      /\ reading' = reading /\ buf' = buf /\ unfit' = unfit
  BY DEF ClientConnects, Connect, rtcVars
<1>2. ReaderTypeOK'
  BY <1>1 DEF ReaderInv, ReaderTypeOK
<1>3. ASSUME NEW d \in Clients PROVE ReaderOK(d)'
  <2>1. link'[d] = IF d = c THEN "queued" ELSE link[d]
    BY <1>1 DEF ReaderInv, ReaderTypeOK
  <2> QED
    BY <1>1, <2>1 DEF ReaderInv, ReaderOK, PartTaken, AllFit, WasSent, Unread,
                      ClientInStep
<1> QED
  BY <1>2, <1>3 DEF ReaderInv

\* A client sends a packet; no read is being handled.
LEMMA ReaderSends ==
    ASSUME ReaderInv, NEW c \in Clients, ClientSends(c)
    PROVE  ReaderInv'
<1>1. PICK p \in Packets :
        /\ stream' = [stream EXCEPT ![c] = Append(@, p)]
        /\ unfit' = IF Fit(p) THEN unfit ELSE unfit \cup {c}
        /\ link[c] # "away" /\ link' = link /\ taken' = taken /\ conn' = conn
        /\ reading = {} /\ reading' = reading /\ buf' = buf
  BY DEF ClientSends, Send, Idle
<1>2. /\ stream[c] \in Seq(Packets) /\ stream'[c] = Append(stream[c], p)
      /\ stream' \in [Clients -> Seq(Packets)] /\ taken[c] \in Nat
      /\ \A d \in Clients \ {c} : stream'[d] = stream[d]
  BY <1>1 DEF ReaderInv, ReaderTypeOK
<1>3. ReaderTypeOK'
  BY <1>1, <1>2 DEF ReaderInv, ReaderTypeOK
<1>4. ASSUME NEW d \in Clients \ {c} PROVE ReaderOK(d)'
  BY <1>1, <1>2 DEF ReaderInv, ReaderOK, PartTaken, AllFit, WasSent, ClientInStep
<1>5. PartTaken(c) /\ AllFit(c) /\ ClientInStep(c)
  BY DEF ReaderInv, ReaderOK
<1>6. /\ stream'[c] # <<>>
      /\ stream[c] = <<>> => Head(stream'[c]) = p
      /\ stream[c] # <<>> => Head(stream'[c]) = Head(stream[c])
      /\ Len(stream'[c]) = Len(stream[c]) + 1 /\ Len(stream[c]) \in Nat
      /\ \A i \in 1..Len(stream[c]) : stream'[c][i] = stream[c][i]
      /\ stream'[c][Len(stream[c]) + 1] = p
  BY <1>2
<1>7. p.size \in Nat \ {0}
  BY PacketSize
<1>8. PartTaken(c)'
  BY <1>1, <1>2, <1>5, <1>6, <1>7 DEF PartTaken
<1>9. AllFit(c)'
  <2> SUFFICES ASSUME c \notin unfit', NEW i \in 1..(Len(stream[c]) + 1)
               PROVE  Fit(stream'[c][i])
    BY <1>6 DEF AllFit
  <2>1. Fit(p) /\ c \notin unfit
    BY <1>1
  <2>2. i \in 1..Len(stream[c]) \/ i = Len(stream[c]) + 1
    BY <1>6
  <2> QED
    BY <1>5, <1>6, <2>1, <2>2 DEF AllFit
<1>10. ClientInStep(c)'
  <2> SUFFICES ASSUME c \notin unfit', link[c] = "open"
               PROVE  ClientInStep(c)'
    BY <1>1 DEF ClientInStep
  <2>1. c \notin unfit
    BY <1>1
  <2>2. CASE stream[c] = <<>>
    <3>1. taken[c] = 0
      BY <1>5, <2>2 DEF PartTaken
    <3> QED
      BY <1>1, <1>5, <2>1, <3>1 DEF ClientInStep, SizeBytes
  <2>3. CASE stream[c] # <<>>
    BY <1>1, <1>5, <1>6, <2>1, <2>3 DEF ClientInStep
  <2> QED
    BY <2>2, <2>3
<1>11. WasSent(c)'
  BY <1>1 DEF WasSent
<1> QED
  BY <1>3, <1>4, <1>8, <1>9, <1>10, <1>11 DEF ReaderInv, ReaderOK

\* What the reader depends on; nothing else disturbs it.
readerVars == <<link, stream, taken, conn, reading, buf, unfit>>

\* A handler that leaves those alone keeps the reader in order.
LEMMA ReaderFrame == ReaderInv /\ UNCHANGED readerVars => ReaderInv'
<1> SUFFICES ASSUME ReaderInv, UNCHANGED readerVars PROVE ReaderInv'
  OBVIOUS
<1>1. ReaderTypeOK'
  BY DEF ReaderInv, ReaderTypeOK, readerVars
<1>2. ASSUME NEW d \in Clients PROVE ReaderOK(d)'
  BY DEF ReaderInv, ReaderOK, PartTaken, AllFit, WasSent, Unread, ClientInStep,
         readerVars
<1> QED
  BY <1>1, <1>2 DEF ReaderInv

\* Every step keeps the reader in step.
LEMMA ReaderStep == ReaderInv /\ [Next]_vars => ReaderInv'
<1> SUFFICES ASSUME ReaderInv, [Next]_vars PROVE ReaderInv'
  OBVIOUS
<1>1. CASE UNCHANGED vars
  BY <1>1, ReaderFrame DEF vars, netVars, rtcVars, readerVars
<1>2. CASE OnTimeout
  BY <1>2, ReaderFrame DEF OnTimeout, rtcVars, readerVars
<1>3. ASSUME NEW c \in Clients, ClientLeaves(c) PROVE ReaderInv'
  BY <1>3, ReaderFrame DEF ClientLeaves, Leave, rtcVars, readerVars
<1>4. ASSUME NEW c \in Clients, ServerFlushes(c) PROVE ReaderInv'
  BY <1>4, ReaderFrame DEF ServerFlushes, NetFlush, rtcVars, readerVars
<1>5. ASSUME NEW c \in Clients, Bye(c) PROVE ReaderInv'
  BY <1>5, ReaderClosed DEF Bye
<1>6. ASSUME NEW c \in Clients, Disconnect(c) PROVE ReaderInv'
  <2>1. Closed(c) /\ reading' = {} /\ buf' = 0
    BY <1>6 DEF Disconnect, Idle, ReaderInv, ReaderTypeOK
  <2> QED
    BY <2>1, ReaderClosed
<1>7. ASSUME NEW c \in Clients, OnPacket(c) PROVE ReaderInv'
  BY <1>7, ReaderPacket DEF OnPacket
<1>8. ASSUME NEW c \in Clients, ReadHandler(c) PROVE ReaderInv'
  <2>1. ASSUME Overrun(c) PROVE ReaderInv'
    BY <2>1, ReaderFrame DEF Overrun, rtcVars, readerVars
  <2> QED
    BY <1>5, <1>7, <1>8, <2>1, ReaderHeader, ReaderData, ReaderIgnore DEF ReadHandler
<1>9. ASSUME NEW c \in Clients, Serve(c) PROVE ReaderInv'
  BY <1>6, <1>8, <1>9, ReaderAccept, ReaderReads DEF Serve, ServerAccepts, ServerReads
<1> QED
  BY <1>1, <1>2, <1>3, <1>4, <1>9, ReaderConnects, ReaderSends DEF Next

(***************************************************************************)
(* However a stream of packets is cut into reads, read_handler knows where *)
(* in which packet it is, for every client whose packets say their length  *)
(* and have 1 to 255 bytes after it; the others may send anything.         *)
(***************************************************************************)
THEOREM InStepHolds == Spec => []InStep
<1>1. Spec => []ReaderInv
  BY ReaderInit, ReaderStep, PTL DEF Spec
<1> QED
  BY <1>1, ReaderInStep, PTL

-----------------------------------------------------------------------------
(***************************************************************************)
(* The inductive invariant of the profiles.  Besides ProfilesApart and     *)
(* SetIsWhole: the table leads to handles or -1, and knows the number of   *)
(* every next profile that was asked for.  The table only grows, so what   *)
(* was true of a definition stays true.                                    *)
(***************************************************************************)
TableOK(t) ==
    /\ \A n \in DOMAIN t : t[n] \in Handles \cup {-1}
    /\ \A m, n \in DOMAIN t : t[m] = t[n] /\ m # n => t[m] = -1

Extends(u, t) == DOMAIN t \subseteq DOMAIN u /\ \A n \in DOMAIN t : u[n] = t[n]

HandlesTypeOK ==
    /\ profiles = [h \in Handles |-> profiles[h]]
    /\ asked = [h \in Handles |-> asked[h]]
    /\ \A h \in Handles :
          /\ profiles[h] = [position |-> profiles[h].position,
                            next_profile |-> profiles[h].next_profile,
                            delay |-> profiles[h].delay]
          /\ asked[h] = [position |-> asked[h].position,
                         next_profile |-> asked[h].next_profile,
                         delay |-> asked[h].delay]

\* SetIsWhole for one answer and one profile.
IsAsAsked(answer, profile, t) ==
    /\ profile.position = answer.position
    /\ profile.delay = answer.delay
    /\ answer.next_profile >= 0 => answer.next_profile \in DOMAIN t
    /\ profile.next_profile = IF answer.next_profile >= 0 THEN t[answer.next_profile]
                                                          ELSE -1

ProfileOK(profile, answer, t) == /\ profile.next_profile \in InUse(t) \cup {-1}
                                 /\ IsAsAsked(answer, profile, t)

ProfilesInv == /\ TableOK(profile_tlate) /\ HandlesTypeOK
               /\ \A h \in Handles : ProfileOK(profiles[h], asked[h], profile_tlate)

\* The invariant implies the properties that are checked.
LEMMA ProfilesImply == ProfilesInv => ProfilesApart /\ SetIsWhole
BY DEF ProfilesInv, TableOK, ProfileOK, IsAsAsked, ProfilesApart, SetIsWhole

\* It holds when the server starts.
LEMMA ProfilesInit == Init => ProfilesInv
<1> SUFFICES ASSUME Init PROVE ProfilesInv
  OBVIOUS
<1>1. DOMAIN profile_tlate = {}
  BY DEF Init
<1>2. /\ profiles = [h \in Handles |-> [position |-> "in", next_profile |-> -1,
                                        delay |-> 0]]
      /\ asked = profiles
  BY DEF Init, NewProfile
<1>3. HandlesTypeOK
  BY <1>2 DEF HandlesTypeOK
<1>4. \A h \in Handles : ProfileOK(profiles[h], asked[h], profile_tlate)
  BY <1>2 DEF ProfileOK, IsAsAsked
<1> QED
  BY <1>1, <1>3, <1>4 DEF ProfilesInv, TableOK

\* sled_profile_create gives a handle that no number stands for, or none.
LEMMA CreateIsFree ==
    ASSUME NEW t
    PROVE  Create(t) \in (Handles \ InUse(t)) \cup {-1}
<1> DEFINE free == Handles \ InUse(t)
<1>1. CASE free = {}
  BY <1>1 DEF Create
<1>2. CASE free # {}
  <2>1. free \in SUBSET Nat
    BY ServerAssumption DEF Handles
  <2> HIDE DEF free
  <2>2. PICK m \in free : \A k \in free : m <= k
    BY <1>2, <2>1, LeastElement
  <2>3. Min(free) \in free
    BY <2>2 DEF Min
  <2> QED
    BY <1>2, <2>3 DEF Create, free
<1> QED
  BY <1>1, <1>2

\* Looking a number up adds it to the table, if it was not there.
LEMMA TlateExtends ==
    ASSUME NEW t, TableOK(t), NEW n
    PROVE  LET u == tlate_profile_id(t, n)
           IN  TableOK(u) /\ Extends(u, t) /\ n \in DOMAIN u
<1> DEFINE u == tlate_profile_id(t, n)
<1>1. /\ DOMAIN u = DOMAIN t \cup {n}
      /\ \A i \in DOMAIN t : u[i] = t[i]
      /\ n \notin DOMAIN t => u[n] = Create(t)
  BY DEF tlate_profile_id
<1>2. n \notin DOMAIN t => u[n] \in Handles \cup {-1}
                           /\ \A i \in DOMAIN t : u[n] = t[i] => u[n] = -1
  BY <1>1, CreateIsFree DEF InUse
<1> HIDE DEF u
<1>3. TableOK(u)
  BY <1>1, <1>2 DEF TableOK
<1>4. Extends(u, t) /\ n \in DOMAIN u
  BY <1>1 DEF Extends
<1> QED
  BY <1>3, <1>4 DEF u

\* What is right of a profile is right with a larger table.
LEMMA ProfileStays ==
    ASSUME NEW profile, NEW answer, NEW t, NEW u, Extends(u, t),
           ProfileOK(profile, answer, t)
    PROVE  ProfileOK(profile, answer, u)
BY DEF ProfileOK, IsAsAsked, Extends, InUse

\* A table that grows twice has grown.
LEMMA ExtendsTwice ==
    ASSUME NEW t, NEW u, NEW w, Extends(u, t), Extends(w, u)
    PROVE  Extends(w, t)
BY DEF Extends

\* "profile set", whether it succeeds, fails, or fails half-way.
LEMMA ProfilesSet ==
    ASSUME ProfilesInv, NEW c \in Clients, NEW cmd, ProfileSet(c, cmd)
    PROVE  ProfilesInv'
<1> DEFINE own  == tlate_profile_id(profile_tlate, cmd.profile)
           h    == own[cmd.profile]
           both == IF cmd.next_profile >= 0
                   THEN tlate_profile_id(own, cmd.next_profile) ELSE own
           next == IF cmd.next_profile >= 0 THEN both[cmd.next_profile] ELSE -1
<1>1. TableOK(own) /\ Extends(own, profile_tlate) /\ cmd.profile \in DOMAIN own
  BY TlateExtends DEF ProfilesInv
<1>2. \/ /\ profile_tlate' = own /\ UNCHANGED <<profiles, asked>>
      \/ /\ h >= 0 /\ profile_tlate' = both
         /\ profiles' = [profiles EXCEPT ![h].position = cmd.position]
         /\ asked' = [asked EXCEPT ![h].position = cmd.position]
      \/ /\ h >= 0 /\ profile_tlate' = both /\ (cmd.next_profile >= 0 => next >= 0)
         /\ profiles' = [profiles EXCEPT ![h] = Definition(h, cmd, next)]
         /\ asked' = [asked EXCEPT ![h] =
                [position |-> cmd.position, next_profile |-> cmd.next_profile,
                 delay |-> IF cmd.next_profile >= 0 THEN cmd.next_delay ELSE 0]]
  BY DEF ProfileSet
<1>3. h \in Handles \cup {-1}
  BY <1>1 DEF TableOK
<1> HIDE DEF own
<1>4. /\ TableOK(both) /\ Extends(both, own)
      /\ cmd.next_profile >= 0 => cmd.next_profile \in DOMAIN both
  <2>1. Extends(own, own)
    BY DEF Extends
  <2> QED
    BY <1>1, <2>1, TlateExtends
<1>5. /\ next \in InUse(both) \cup {-1}
      /\ next \in Handles \cup {-1}
      /\ cmd.next_profile >= 0 => next = both[cmd.next_profile]
      /\ ~(cmd.next_profile >= 0) => next = -1
  BY <1>4 DEF InUse, TableOK
<1> HIDE DEF both, next
<1>6. Extends(both, profile_tlate)
  BY <1>1, <1>4, ExtendsTwice
<1>7. /\ \A g \in Handles : ProfileOK(profiles[g], asked[g], own)
      /\ \A g \in Handles : ProfileOK(profiles[g], asked[g], both)
      /\ HandlesTypeOK
  BY <1>1, <1>6, ProfileStays DEF ProfilesInv
<1>8. CASE profile_tlate' = own /\ UNCHANGED <<profiles, asked>>
  BY <1>1, <1>7, <1>8 DEF ProfilesInv, HandlesTypeOK
<1>9. CASE /\ h >= 0 /\ profile_tlate' = both
           /\ profiles' = [profiles EXCEPT ![h].position = cmd.position]
           /\ asked' = [asked EXCEPT ![h].position = cmd.position]
  <2> DEFINE new == [position |-> cmd.position,
                     next_profile |-> profiles[h].next_profile,
                     delay |-> profiles[h].delay]
             answer == [position |-> cmd.position,
                        next_profile |-> asked[h].next_profile,
                        delay |-> asked[h].delay]
  <2>1. h \in Handles
    BY <1>3, <1>9
  <2>2. /\ profiles' = [g \in Handles |-> IF g = h THEN new ELSE profiles[g]]
        /\ asked' = [g \in Handles |-> IF g = h THEN answer ELSE asked[g]]
    <3>1. /\ profiles = [g \in Handles |-> profiles[g]]
          /\ asked = [g \in Handles |-> asked[g]]
      BY <1>7 DEF HandlesTypeOK
    <3>2. ASSUME NEW r, NEW a, NEW b, NEW d, NEW x,
                 r = [position |-> a, next_profile |-> b, delay |-> d]
          PROVE  [r EXCEPT !.position = x]
                    = [position |-> x, next_profile |-> b, delay |-> d]
      BY <3>2
    <3>3. /\ [profiles[h] EXCEPT !.position = cmd.position] = new
          /\ [asked[h] EXCEPT !.position = cmd.position] = answer
      BY <1>7, <2>1, <3>2 DEF HandlesTypeOK
    <3>4. profiles' = [g \in Handles |->
                          IF g = h THEN [profiles[h] EXCEPT !.position = cmd.position]
                                   ELSE profiles[g]]
      BY <1>9, <2>1, <3>1
    <3>5. asked' = [g \in Handles |->
                       IF g = h THEN [asked[h] EXCEPT !.position = cmd.position]
                                ELSE asked[g]]
      BY <1>9, <2>1, <3>1
    <3> QED
      BY <3>3, <3>4, <3>5
  <2>3. HandlesTypeOK'
    BY <1>7, <2>2 DEF HandlesTypeOK
  <2>4. ProfileOK(new, answer, both)
    BY <1>7, <2>1 DEF ProfileOK, IsAsAsked
  <2> HIDE DEF new, answer
  <2> QED
    BY <1>4, <1>7, <1>9, <2>2, <2>3, <2>4 DEF ProfilesInv
<1>10. CASE /\ h >= 0 /\ profile_tlate' = both /\ (cmd.next_profile >= 0 => next >= 0)
            /\ profiles' = [profiles EXCEPT ![h] = Definition(h, cmd, next)]
            /\ asked' = [asked EXCEPT ![h] =
                   [position |-> cmd.position, next_profile |-> cmd.next_profile,
                    delay |-> IF cmd.next_profile >= 0 THEN cmd.next_delay ELSE 0]]
  <2> DEFINE new == Definition(h, cmd, next)
             answer == [position |-> cmd.position, next_profile |-> cmd.next_profile,
                        delay |-> IF cmd.next_profile >= 0 THEN cmd.next_delay ELSE 0]
  <2>1. h \in Handles
    BY <1>3, <1>10
  <2>2. /\ profiles' = [g \in Handles |-> IF g = h THEN new ELSE profiles[g]]
        /\ asked' = [g \in Handles |-> IF g = h THEN answer ELSE asked[g]]
    BY <1>7, <1>10, <2>1 DEF HandlesTypeOK
  <2>3. new = [position |-> cmd.position, next_profile |-> next,
               delay |-> IF next >= 0 THEN cmd.next_delay ELSE 0]
    BY DEF Definition
  <2>4. ProfileOK(new, answer, both)
    <3>1. cmd.next_profile >= 0 <=> next >= 0
      BY <1>5, <1>10
    <3> QED
      BY <1>4, <1>5, <2>3, <3>1 DEF ProfileOK, IsAsAsked
  <2> HIDE DEF new, answer
  <2>5. HandlesTypeOK'
    <3>1. ASSUME NEW g \in Handles
          PROVE  /\ profiles'[g] = [position |-> profiles'[g].position,
                                    next_profile |-> profiles'[g].next_profile,
                                    delay |-> profiles'[g].delay]
                 /\ asked'[g] = [position |-> asked'[g].position,
                                 next_profile |-> asked'[g].next_profile,
                                 delay |-> asked'[g].delay]
      BY <1>7, <2>2, <2>3 DEF HandlesTypeOK, answer
    <3>2. /\ profiles' = [g \in Handles |-> profiles'[g]]
          /\ asked' = [g \in Handles |-> asked'[g]]
      BY <2>2
    <3> QED
      BY <3>1, <3>2 DEF HandlesTypeOK
  <2> QED
    BY <1>4, <1>7, <1>10, <2>2, <2>4, <2>5 DEF ProfilesInv
<1> QED
  BY <1>2, <1>8, <1>9, <1>10

\* The number of a profile that is executed is looked up.
LEMMA ProfilesExecute ==
    ASSUME ProfilesInv, NEW c \in Clients, NEW cmd, ProfileExecute(c, cmd)
    PROVE  ProfilesInv'
<1> DEFINE own == tlate_profile_id(profile_tlate, cmd.profile)
<1>1. profile_tlate' = own /\ UNCHANGED <<profiles, asked>>
  BY DEF ProfileExecute
<1>2. TableOK(own) /\ Extends(own, profile_tlate)
  BY TlateExtends DEF ProfilesInv
<1> HIDE DEF own
<1>3. \A h \in Handles : ProfileOK(profiles[h], asked[h], own)
  BY <1>2, ProfileStays DEF ProfilesInv
<1> QED
  BY <1>1, <1>2, <1>3 DEF ProfilesInv, HandlesTypeOK

\* Every step keeps the profiles right.
LEMMA ProfilesStep == ProfilesInv /\ [Next]_vars => ProfilesInv'
<1> SUFFICES ASSUME ProfilesInv, [Next]_vars PROVE ProfilesInv'
  OBVIOUS
<1>1. ASSUME UNCHANGED <<profile_tlate, profiles, asked>> PROVE ProfilesInv'
  BY <1>1 DEF ProfilesInv, HandlesTypeOK
<1>2. CASE UNCHANGED vars
  BY <1>1, <1>2 DEF vars, ctxVars
<1>3. CASE OnTimeout
  BY <1>1, <1>3 DEF OnTimeout, ctxVars
<1>4. ASSUME NEW c \in Clients, ClientConnects(c) \/ ClientSends(c) \/ ClientLeaves(c)
      PROVE  ProfilesInv'
  BY <1>1, <1>4 DEF ClientConnects, ClientSends, ClientLeaves, ctxVars
<1>5. ASSUME NEW c \in Clients, ServerAccepts(c) \/ ServerReads(c) \/ ServerFlushes(c)
      PROVE  ProfilesInv'
  BY <1>1, <1>5 DEF ServerAccepts, ServerReads, ServerFlushes, ctxVars
<1>6. ASSUME NEW c \in Clients, Disconnect(c) \/ Bye(c)
      PROVE  ProfilesInv'
  BY <1>1, <1>6 DEF Disconnect, Bye
<1>7. ASSUME NEW c \in Clients, OnPacket(c)
      PROVE  ProfilesInv'
  <2>1. PICK cmd \in Said(c) : Execute(c, cmd)
    BY <1>7 DEF OnPacket
  <2>2. CASE StreamFrames(c, cmd)
    BY <1>1, <2>2 DEF StreamFrames
  <2>3. CASE OnlyAnswered(c, cmd)
    BY <1>1, <2>3 DEF OnlyAnswered, ctxVars
  <2> QED
    BY <2>1, <2>2, <2>3, ProfilesSet, ProfilesExecute DEF Execute
<1>8. ASSUME NEW c \in Clients, ReadHandler(c)
      PROVE  ProfilesInv'
  BY <1>1, <1>6, <1>7, <1>8 DEF ReadHandler, ctxVars
<1> QED
  BY <1>2, <1>3, <1>4, <1>5, <1>6, <1>8 DEF Next, Serve

(***************************************************************************)
(* Different numbers of the clients stand for different profiles, and a    *)
(* profile is followed only by one that a number stands for.               *)
(***************************************************************************)
THEOREM ProfilesApartHolds == Spec => []ProfilesApart
<1>1. Spec => []ProfilesInv
  BY ProfilesInit, ProfilesStep, PTL DEF Spec
<1> QED
  BY <1>1, ProfilesImply, PTL

(***************************************************************************)
(* A profile is all that the last "profile set" answered with ok says,     *)
(* but for the position of one that failed for want of a next profile      *)
(* since: that command has changed the position and nothing else.          *)
(***************************************************************************)
THEOREM SetIsWholeHolds == Spec => []SetIsWhole
<1>1. Spec => []ProfilesInv
  BY ProfilesInit, ProfilesStep, PTL DEF Spec
<1> QED
  BY <1>1, ProfilesImply, PTL

-----------------------------------------------------------------------------
\* The list of clients that get frames.
ConnectedInv == stream_clients \in [Clients -> Nat] /\ StreamsAreConnected

\* It is empty when the server starts.
LEMMA ConnectedInit == Init => ConnectedInv
BY DEF Init, ConnectedInv, StreamsAreConnected

\* A client is added to the list while its own packet is read.
LEMMA ConnectedPacket ==
    ASSUME ReaderInv, ConnectedInv, NEW c \in Clients, OnPacket(c)
    PROVE  ConnectedInv'
<1>1. link[c] = "open" /\ link' = link
  BY AtHand DEF OnPacket, Complete, InPayload
<1>2. PICK cmd \in Said(c) : Execute(c, cmd)
  BY DEF OnPacket
<1>3. CASE UNCHANGED stream_clients
  BY <1>1, <1>3 DEF ConnectedInv, StreamsAreConnected
<1>4. CASE StreamFrames(c, cmd)
  <2>1. \/ stream_clients' = WithOneMore(Without(c), c)
        \/ stream_clients' = Without(c)
    BY <1>4 DEF StreamFrames
  <2>2. \/ stream_clients' = [stream_clients EXCEPT ![c] = 1]
        \/ stream_clients' = [stream_clients EXCEPT ![c] = 0]
    BY <2>1 DEF WithOneMore, Without, ConnectedInv
  <2> QED
    BY <1>1, <2>2 DEF ConnectedInv, StreamsAreConnected
<1>5. StreamFrames(c, cmd) \/ UNCHANGED stream_clients
  BY <1>2 DEF Execute, ProfileExecute, ProfileSet, OnlyAnswered, ctxVars
<1> QED
  BY <1>3, <1>4, <1>5

\* A connection that ends is taken from the list.
LEMMA ConnectedClosed ==
    ASSUME ReaderInv, ConnectedInv, NEW c \in Clients, Closed(c), StreamsAfter(c)
    PROVE  ConnectedInv'
<1>1. /\ link' = [link EXCEPT ![c] = "away"]
      /\ stream_clients' = [stream_clients EXCEPT ![c] = 0]
  BY DEF Closed, NetDisconnect, StreamsAfter, Without
<1>2. link \in [Clients -> {"away", "queued", "open"}]
  BY DEF ReaderInv, ReaderTypeOK
<1> QED
  BY <1>1, <1>2 DEF ConnectedInv, StreamsAreConnected

\* Every step keeps the list right.
LEMMA ConnectedStep == ReaderInv /\ ConnectedInv /\ [Next]_vars => ConnectedInv'
<1> SUFFICES ASSUME ReaderInv, ConnectedInv, [Next]_vars PROVE ConnectedInv'
  OBVIOUS
<1>1. ASSUME UNCHANGED stream_clients,
             \A c \in Clients : link[c] = "open" => link'[c] = "open"
      PROVE  ConnectedInv'
  BY <1>1 DEF ConnectedInv, StreamsAreConnected
<1>2. link \in [Clients -> {"away", "queued", "open"}]
  BY DEF ReaderInv, ReaderTypeOK
<1>3. CASE UNCHANGED vars
  BY <1>1, <1>3 DEF vars, netVars, ctxVars
<1>4. CASE OnTimeout
  BY <1>1, <1>4 DEF OnTimeout, ctxVars
<1>5. ASSUME NEW c \in Clients, ClientConnects(c) PROVE ConnectedInv'
  BY <1>1, <1>2, <1>5 DEF ClientConnects, Connect, ctxVars
<1>6. ASSUME NEW c \in Clients, ClientSends(c) \/ ClientLeaves(c) \/ ServerFlushes(c)
      PROVE  ConnectedInv'
  BY <1>1, <1>6 DEF ClientSends, Send, ClientLeaves, Leave, ServerFlushes, NetFlush,
                    ctxVars
<1>7. ASSUME NEW c \in Clients, ServerAccepts(c) PROVE ConnectedInv'
  BY <1>1, <1>2, <1>7 DEF ServerAccepts, Accept, NetAccept, ctxVars
<1>8. ASSUME NEW c \in Clients, ServerReads(c) PROVE ConnectedInv'
  BY <1>1, <1>8 DEF ServerReads, OnRead, netVars, ctxVars
<1>9. ASSUME NEW c \in Clients, Disconnect(c) \/ Bye(c) PROVE ConnectedInv'
  BY <1>9, ConnectedClosed DEF Disconnect, Bye
<1>10. ASSUME NEW c \in Clients, ReadHandler(c) PROVE ConnectedInv'
  <2>1. CASE /\ ReadHeader(c) \/ ReadData(c) \/ Overrun(c) \/ Ignore(c)
             /\ UNCHANGED <<ctxVars, packets>>
    BY <1>1, <2>1 DEF ReadHeader, ReadData, Overrun, Ignore, ctxVars
  <2> QED
    BY <1>9, <1>10, <2>1, ConnectedPacket DEF ReadHandler
<1> QED
  BY <1>3, <1>4, <1>5, <1>6, <1>7, <1>8, <1>9, <1>10 DEF Next, Serve

(***************************************************************************)
(* on_timeout goes only through connections that are open, and through     *)
(* each of them once.                                                      *)
(***************************************************************************)
THEOREM StreamsAreConnectedHolds == Spec => []StreamsAreConnected
<1>1. Spec => [](ReaderInv /\ ConnectedInv)
  BY ReaderInit, ReaderStep, ConnectedInit, ConnectedStep, PTL DEF Spec
<1>2. ConnectedInv => StreamsAreConnected
  BY DEF ConnectedInv
<1> QED
  BY <1>1, <1>2, PTL

-----------------------------------------------------------------------------
\* The clients' ends, and what waits to be written to them.
Written == {"ok", "err", "frame"}

OutTypeOK == /\ peer \in [Clients -> {"up", "closed", "reset", "broken"}]
             /\ out \in [Clients -> Seq(Written)]

\* What a command is answered.
LEMMA AnswerType ==
    ASSUME OutTypeOK, NEW c \in Clients, NEW cmd, Execute(c, cmd)
    PROVE  out' \in [Clients -> Seq(Written)]
<1>1. ASSUME NEW replies \in Seq(Written), Answer(c, replies)
      PROVE  out' \in [Clients -> Seq(Written)]
  <2>1. out[c] \o replies \in Seq(Written)
    BY DEF OutTypeOK
  <2> QED
    BY <1>1, <2>1 DEF Answer, OutTypeOK
<1>2. <<>> \in Seq(Written) /\ <<"ok">> \in Seq(Written) /\ <<"err">> \in Seq(Written)
  BY DEF Written
<1>3. /\ <<"err">> \o <<"err">> \in Seq(Written) /\ <<>> \o <<"err">> \in Seq(Written)
      /\ <<"err">> \o <<"ok">> \in Seq(Written) /\ <<>> \o <<"ok">> \in Seq(Written)
  BY <1>2
<1>4. CASE StreamFrames(c, cmd)
  BY <1>1, <1>2, <1>4 DEF StreamFrames
<1>5. CASE ProfileExecute(c, cmd)
  BY <1>1, <1>2, <1>5 DEF ProfileExecute
<1>6. CASE ProfileSet(c, cmd)
  <2> DEFINE said == IF cmd.position = "out" THEN <<"err">> ELSE <<>>
  <2>1. Answer(c, <<"err">>) \/ Answer(c, said \o <<"err">>) \/ Answer(c, said \o <<"ok">>)
    BY <1>6 DEF ProfileSet
  <2>2. said \o <<"err">> \in Seq(Written) /\ said \o <<"ok">> \in Seq(Written)
    BY <1>3
  <2> HIDE DEF said
  <2> QED
    BY <1>1, <1>2, <2>1, <2>2
<1>7. CASE OnlyAnswered(c, cmd)
  <2>1. Replies(cmd.type) \subseteq Seq(Written)
    BY <1>2 DEF Replies
  <2> QED
    BY <1>1, <1>7, <2>1 DEF OnlyAnswered
<1> QED
  BY <1>4, <1>5, <1>6, <1>7 DEF Execute

\* Every step keeps the types.
LEMMA OutStep == OutTypeOK /\ ConnectedInv /\ [Next]_vars => OutTypeOK'
<1> SUFFICES ASSUME OutTypeOK, ConnectedInv, [Next]_vars PROVE OutTypeOK'
  OBVIOUS
<1>1. ASSUME UNCHANGED <<peer, out>> PROVE OutTypeOK'
  BY <1>1 DEF OutTypeOK
<1>2. CASE UNCHANGED vars
  BY <1>1, <1>2 DEF vars, netVars
<1>3. CASE OnTimeout
  <2>1. peer' = peer /\ out' = [c \in Clients |-> out[c] \o Frames(c)]
    BY <1>3 DEF OnTimeout
  <2>2. ASSUME NEW c \in Clients PROVE out[c] \o Frames(c) \in Seq(Written)
    <3>1. Frames(c) \in [1..stream_clients[c] -> Written] /\ stream_clients[c] \in Nat
      BY DEF Frames, Written, ConnectedInv
    <3>2. Frames(c) \in Seq(Written)
      BY <3>1
    <3> QED
      BY <3>2 DEF OutTypeOK
  <2> QED
    BY <2>1, <2>2 DEF OutTypeOK
<1>4. ASSUME NEW c \in Clients, ClientConnects(c) \/ ClientLeaves(c) PROVE OutTypeOK'
  BY <1>4 DEF ClientConnects, Connect, ClientLeaves, Leave, OutTypeOK
<1>5. ASSUME NEW c \in Clients, ClientSends(c) PROVE OutTypeOK'
  BY <1>1, <1>5 DEF ClientSends, Send
<1>6. ASSUME NEW c \in Clients, ServerFlushes(c) PROVE OutTypeOK'
  <2>1. <<>> \in Seq(Written)
    OBVIOUS
  <2>2. \/ out' = [out EXCEPT ![c] = <<>>] /\ peer' = peer
        \/ out' = [out EXCEPT ![c] = <<>>] /\ peer' = [peer EXCEPT ![c] = "broken"]
        \/ UNCHANGED <<out, peer>>
    BY <1>6 DEF ServerFlushes, NetFlush
  <2> QED
    BY <2>1, <2>2 DEF OutTypeOK
<1>7. ASSUME NEW c \in Clients, ServerAccepts(c) \/ ServerReads(c) PROVE OutTypeOK'
  BY <1>1, <1>7 DEF ServerAccepts, Accept, NetAccept, ServerReads, OnRead, netVars
<1>8. ASSUME NEW c \in Clients, Disconnect(c) \/ Bye(c) PROVE OutTypeOK'
  <2>1. peer' = [peer EXCEPT ![c] = "up"] /\ out' = [out EXCEPT ![c] = <<>>]
    BY <1>8 DEF Disconnect, Bye, Closed, NetDisconnect
  <2>2. <<>> \in Seq(Written)
    OBVIOUS
  <2> QED
    BY <2>1, <2>2 DEF OutTypeOK
<1>9. ASSUME NEW c \in Clients, ReadHandler(c) PROVE OutTypeOK'
  <2>1. CASE ReadHeader(c) \/ ReadData(c) \/ Overrun(c) \/ Ignore(c)
    BY <1>1, <2>1 DEF ReadHeader, ReadData, Overrun, Ignore
  <2>2. CASE OnPacket(c)
    BY <2>2, AnswerType DEF OnPacket, OutTypeOK
  <2> QED
    BY <1>8, <1>9, <2>1, <2>2 DEF ReadHandler
<1> QED
  BY <1>2, <1>3, <1>4, <1>5, <1>6, <1>7, <1>8, <1>9 DEF Next, Serve

\* The parts make up the type invariant.
LEMMA TypeParts ==
    ReaderInv /\ ProfilesInv /\ ConnectedInv /\ OutTypeOK => ServerTypeOK
<1> SUFFICES ASSUME ReaderInv, ProfilesInv, ConnectedInv, OutTypeOK
             PROVE  ServerTypeOK
  OBVIOUS
<1>1. reading \subseteq Clients /\ Cardinality(reading) <= 1
  <2>1. reading = {} \/ \E c \in Clients : reading = {c}
    BY DEF ReaderInv, ReaderTypeOK
  <2>2. CASE reading = {}
    BY <2>2, FS_EmptySet
  <2>3. ASSUME NEW c \in Clients, reading = {c}
        PROVE  reading \subseteq Clients /\ Cardinality(reading) <= 1
    BY <2>3, FS_Singleton
  <2> QED
    BY <2>1, <2>2, <2>3
<1> QED
  BY <1>1 DEF ReaderInv, ReaderTypeOK, ConnType, ProfilesInv, TableOK, ConnectedInv,
              OutTypeOK, Written, ServerTypeOK

(***************************************************************************)
(* Type correctness; in it, that at most one read is being handled, and    *)
(* that data_left never leaves its byte.                                   *)
(***************************************************************************)
THEOREM ServerTypeCorrect == Spec => []ServerTypeOK
<1>1. Init => OutTypeOK
  BY DEF Init, NetInit, OutTypeOK
<1>2. Spec => [](ReaderInv /\ ProfilesInv /\ ConnectedInv /\ OutTypeOK)
  BY <1>1, ReaderInit, ReaderStep, ProfilesInit, ProfilesStep, ConnectedInit,
     ConnectedStep, OutStep, PTL DEF Spec
<1> QED
  BY <1>2, TypeParts, PTL
=============================================================================
