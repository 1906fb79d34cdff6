--------------------------- MODULE SledDriveProofs ---------------------------
(***************************************************************************)
(* The closed loop of libsled and a drive: what can end the process, and   *)
(* that the drive is homed, in profile-position mode and without a pending *)
(* setpoint when the server is ready for a motion.                         *)
(*                                                                         *)
(* The drive lags behind the server by the request on the wire and the     *)
(* queue.  As long as that request can still be answered, the invariant    *)
(* speaks of the drive as it will be when it has taken it; when it was     *)
(* lost or refused the SDO machine rests until the link is set up again,   *)
(* and nothing is claimed until then.  Once an answer has outlived its     *)
(* session, nothing is claimed of the drive any more.                      *)
(***************************************************************************)
EXTENDS SledDrive, SledSetpoint

Drive == [nmt : {"EV_NET_PREOPERATIONAL", "EV_NET_OPERATIONAL"},
          ds : {"EV_DS_NOT_READY_TO_SWITCH_ON", "EV_DS_READY_TO_SWITCH_ON",
                "EV_DS_SWITCHED_ON", "EV_DS_OPERATION_ENABLED", "EV_DS_FAULT"},
          voltage : BOOLEAN, mode : {"pp", "homing"}, homed : BOOLEAN,
          homing : BOOLEAN, ack : BOOLEAN]

\* Only an enabled drive acknowledges a setpoint.
Acks(d) == d.ack => d.ds = "EV_DS_OPERATION_ENABLED"

ToPP(x)     == x.ob = "mode" /\ x.val # ModeHoming
ToHoming(x) == x.ob = "mode" /\ x.val = ModeHoming

-----------------------------------------------------------------------------
\* A control word changes the rung, and sets or clears the two bits.
LEMMA TakesWord ==
    ASSUME NEW d \in Drive, NEW w \in Nat
    PROVE  LET g == DriveTakesWord(d, w)
           IN  /\ g \in Drive /\ g.nmt = d.nmt /\ g.homed = d.homed /\ g.mode = d.mode
               /\ g.ack => w = NewSetpoint /\ d.ds = "EV_DS_OPERATION_ENABLED"
               /\ Acks(g)
<1> DEFINE s == DriveStateAfter(d.ds, w)
           enabled == d.ds = "EV_DS_OPERATION_ENABLED"
           b == enabled /\ d.mode = "homing" /\ w = NewSetpoint
           c == enabled /\ d.mode = "pp" /\ w = NewSetpoint
           g == [d EXCEPT !.ds = s, !.homing = b, !.ack = c]
<1>1. DriveTakesWord(d, w) = g
  BY DEF DriveTakesWord, Drive
<1>2. /\ s \in {"EV_DS_NOT_READY_TO_SWITCH_ON", "EV_DS_READY_TO_SWITCH_ON",
                "EV_DS_SWITCHED_ON", "EV_DS_OPERATION_ENABLED", "EV_DS_FAULT"}
      /\ enabled /\ w = NewSetpoint => s = "EV_DS_OPERATION_ENABLED"
  BY DEF DriveStateAfter, Drive, Shutdown, SwitchOn, EnableOperation, NewSetpoint
<1>3. b \in BOOLEAN /\ c \in BOOLEAN
  OBVIOUS
<1>4. c => enabled /\ w = NewSetpoint
  OBVIOUS
<1> HIDE DEF s, b, c
<1>5. /\ g \in Drive /\ g.nmt = d.nmt /\ g.homed = d.homed /\ g.mode = d.mode
      /\ g.ds = s /\ g.ack = c
  BY <1>2, <1>3 DEF Drive
<1> HIDE DEF g
<1> QED
  BY <1>1, <1>2, <1>4, <1>5 DEF Acks

(***************************************************************************)
(* What the drive makes of a request: the mode changes with writes of the  *)
(* mode, and the acknowledgement only with control words.                  *)
(***************************************************************************)
LEMMA TakesFacts ==
    ASSUME NEW d \in Drive, NEW x \in Item \cup Frame
    PROVE  LET g == DriveTakes(d, x)
           IN  /\ g \in Drive /\ g.nmt = d.nmt /\ g.homed = d.homed
               /\ ToPP(x) => g.mode = "pp"
               /\ ~ToPP(x) /\ ~ToHoming(x) => g.mode = d.mode
               /\ IsControl(x) /\ g.ack => x.val = NewSetpoint
               /\ ~IsControl(x) => g.ack = d.ack
               /\ Acks(d) => Acks(g)
               /\ Acks(d) /\ g.ack => d.ds = "EV_DS_OPERATION_ENABLED"
<1>1. CASE x.ob = "control"
  <2>1. DriveTakes(d, x) = DriveTakesWord(d, x.val) /\ x.val \in Nat
    BY <1>1 DEF DriveTakes, Item, Frame
  <2> QED
    BY <1>1, <2>1, TakesWord DEF ToPP, ToHoming, IsControl
<1>2. CASE x.ob = "mode"
  <2> DEFINE m == IF x.val = ModeHoming THEN "homing" ELSE "pp"
             g == [d EXCEPT !.mode = m]
  <2>1. DriveTakes(d, x) = g
    BY <1>2 DEF DriveTakes
  <2>2. /\ g \in Drive /\ g.nmt = d.nmt /\ g.homed = d.homed /\ g.mode = m
        /\ g.ack = d.ack /\ g.ds = d.ds
    BY DEF Drive
  <2> HIDE DEF g
  <2> QED
    BY <1>2, <2>1, <2>2 DEF ToPP, ToHoming, IsControl, Acks
<1>3. CASE x.ob = "clear_fault"
  <2> DEFINE s == IF d.ds = "EV_DS_FAULT" THEN "EV_DS_NOT_READY_TO_SWITCH_ON"
                                          ELSE d.ds
             g == [d EXCEPT !.ds = s]
  <2>1. DriveTakes(d, x) = g
    BY <1>3 DEF DriveTakes
  <2>2. /\ g \in Drive /\ g.nmt = d.nmt /\ g.homed = d.homed /\ g.mode = d.mode
        /\ g.ack = d.ack /\ g.ds = s
    BY DEF Drive
  <2> HIDE DEF g
  <2> QED
    BY <1>3, <2>1, <2>2 DEF ToPP, ToHoming, IsControl, Acks
<1>4. CASE x.ob \notin {"control", "mode", "clear_fault"}
  <2>1. DriveTakes(d, x) = d
    BY <1>4 DEF DriveTakes
  <2> QED
    BY <1>4, <2>1 DEF ToPP, ToHoming, IsControl, Acks
<1> QED
  BY <1>1, <1>2, <1>3, <1>4

\* The frame says all that the drive makes of an item.
LEMMA TakesFrame ==
    ASSUME NEW d, NEW x
    PROVE  DriveTakes(d, FrameOf(x)) = DriveTakes(d, x)
BY DEF DriveTakes, FrameOf

-----------------------------------------------------------------------------
(***************************************************************************)
(* A drive in mode m that takes all of q ends up in profile-position mode. *)
(***************************************************************************)
EndsPP(q, m) ==
    \/ m = "pp" /\ \A j \in 1..Len(q) : ~ToHoming(q[j])
    \/ \E k \in 1..Len(q) : /\ ToPP(q[k])
                            /\ \A j \in (k + 1)..Len(q) : ~ToHoming(q[j])

\* One item more at the end.
LEMMA EndsAppend ==
    ASSUME NEW q \in Seq(Item), NEW x \in Item, NEW m
    PROVE  /\ EndsPP(q, m) /\ ~ToHoming(x) => EndsPP(Append(q, x), m)
           /\ ToPP(x) => EndsPP(Append(q, x), m)
<1> DEFINE r == Append(q, x)
           n == Len(q)
<1>1. /\ n \in Nat /\ Len(r) = n + 1 /\ r[n + 1] = x
      /\ \A i \in 1..n : r[i] = q[i]
      /\ \A i \in 1..(n + 1) : i \in 1..n \/ i = n + 1
  OBVIOUS
<1> HIDE DEF r, n
<1>2. ASSUME m = "pp", \A j \in 1..n : ~ToHoming(q[j]), ~ToHoming(x)
      PROVE  EndsPP(r, m)
  BY <1>1, <1>2 DEF EndsPP
<1>3. ASSUME NEW k \in 1..n, ToPP(q[k]), \A j \in (k + 1)..n : ~ToHoming(q[j]),
             ~ToHoming(x)
      PROVE  EndsPP(r, m)
  <2>1. k \in 1..(n + 1) /\ \A j \in (k + 1)..(n + 1) : j \in (k + 1)..n \/ j = n + 1
    BY <1>1
  <2>2. \A j \in (k + 1)..n : j \in 1..n
    BY <1>1
  <2> QED
    BY <1>1, <1>3, <2>1, <2>2 DEF EndsPP
<1>4. ASSUME ToPP(x) PROVE EndsPP(r, m)
  <2>1. n + 1 \in 1..(n + 1) /\ \A j \in (n + 1 + 1)..(n + 1) : FALSE
    BY <1>1
  <2> QED
    BY <1>1, <1>4, <2>1 DEF EndsPP
<1> QED
  BY <1>2, <1>3, <1>4 DEF EndsPP, r, n

\* A batch at the end that does not ask for homing mode.
LEMMA EndsConcat ==
    ASSUME NEW q \in Seq(Item), NEW s \in Seq(Item), NEW m, EndsPP(q, m),
           \A i \in 1..Len(s) : ~ToHoming(s[i])
    PROVE  EndsPP(q \o s, m)
<1> DEFINE r == q \o s
<1>1. /\ Len(r) = Len(q) + Len(s) /\ Len(q) \in Nat /\ Len(s) \in Nat
      /\ \A i \in 1..Len(q) + Len(s) : r[i] = IF i <= Len(q) THEN q[i] ELSE s[i - Len(q)]
  BY ConcatProperties
<1> HIDE DEF r
<1>2. \A i \in 1..Len(r) : \/ i \in 1..Len(q) /\ r[i] = q[i]
                           \/ i - Len(q) \in 1..Len(s) /\ r[i] = s[i - Len(q)]
  BY <1>1
<1>3. \A i \in 1..Len(q) : i \in 1..Len(r) /\ r[i] = q[i]
  BY <1>1
<1>4. CASE m = "pp" /\ \A j \in 1..Len(q) : ~ToHoming(q[j])
  BY <1>2, <1>4 DEF EndsPP, r
<1>5. CASE \E k \in 1..Len(q) : /\ ToPP(q[k])
                                /\ \A j \in (k + 1)..Len(q) : ~ToHoming(q[j])
  <2>1. PICK k \in 1..Len(q) : /\ ToPP(q[k])
                               /\ \A j \in (k + 1)..Len(q) : ~ToHoming(q[j])
    BY <1>5
  <2>2. \A j \in (k + 1)..Len(r) : j \in 1..Len(r) /\ (j \in 1..Len(q) => j \in (k + 1)..Len(q))
    BY <1>1
  <2> QED
    BY <1>2, <1>3, <2>1, <2>2 DEF EndsPP, r
<1> QED
  BY <1>4, <1>5 DEF EndsPP

\* The drive takes the head of what it has before it.
LEMMA EndsMove ==
    ASSUME NEW q \in Seq(Item), q # <<>>, NEW d \in Drive, EndsPP(q, d.mode)
    PROVE  EndsPP(Tail(q), DriveTakes(d, Head(q)).mode)
<1> DEFINE r == Tail(q)
           m == DriveTakes(d, Head(q)).mode
<1>1. /\ Head(q) = q[1] /\ q[1] \in Item /\ Len(q) \in Nat /\ 1 \in 1..Len(q)
      /\ Len(r) + 1 = Len(q) /\ \A i \in 1..Len(r) : r[i] = q[i + 1]
      /\ Len(r) \in Nat
  OBVIOUS
<1>2. /\ ToPP(q[1]) => m = "pp"
      /\ ~ToPP(q[1]) /\ ~ToHoming(q[1]) => m = d.mode
  BY <1>1, TakesFacts
<1> HIDE DEF r, m
<1>3. \A i \in 1..Len(r) : i + 1 \in 1..Len(q) /\ r[i] = q[i + 1]
  BY <1>1
<1>4. CASE d.mode = "pp" /\ \A j \in 1..Len(q) : ~ToHoming(q[j])
  BY <1>1, <1>2, <1>3, <1>4 DEF EndsPP, r, m
<1>5. CASE \E k \in 1..Len(q) : /\ ToPP(q[k])
                                /\ \A j \in (k + 1)..Len(q) : ~ToHoming(q[j])
  <2>1. PICK k \in 1..Len(q) : /\ ToPP(q[k])
                               /\ \A j \in (k + 1)..Len(q) : ~ToHoming(q[j])
    BY <1>5
  <2>2. CASE k = 1
    <3>1. m = "pp" /\ \A i \in 1..Len(r) : i + 1 \in (k + 1)..Len(q)
      BY <1>1, <1>2, <2>1, <2>2
    <3> QED
      BY <1>3, <2>1, <3>1 DEF EndsPP, r, m
  <2>3. CASE k # 1
    <3>1. /\ k - 1 \in 1..Len(r) /\ r[k - 1] = q[k]
          /\ \A j \in ((k - 1) + 1)..Len(r) : j + 1 \in (k + 1)..Len(q) /\ j \in 1..Len(r)
      BY <1>1, <1>3, <2>3
    <3> QED
      BY <1>3, <2>1, <3>1 DEF EndsPP, r, m
  <2> QED
    BY <2>2, <2>3
<1> QED
  BY <1>4, <1>5 DEF EndsPP

-----------------------------------------------------------------------------
(***************************************************************************)
(* The request on the wire is the active item, with its callbacks          *)
(* registered; without one the wire is empty.                              *)
(***************************************************************************)
WireOK(h) ==
    \/ h.tx = <<>>
    \/ /\ h.active # NoSdo /\ h.tx = <<FrameOf(h.active)>>
       /\ h.cb = h.active.op /\ h.sdo \in {"ST_SDO_SENDING", "ST_SDO_DISABLED"}

\* The SDO machine is idle, or waits for an answer that can still come.
Alive(h) == \/ h.sdo = "ST_SDO_WAITING"
            \/ h.sdo = "ST_SDO_SENDING" /\ h.tx # <<>>

\* The drive when it has taken the request the machine is waiting for.
Taken(h, d) == IF h.sdo = "ST_SDO_SENDING" THEN DriveTakes(d, h.active) ELSE d

\* The last mode requested is profile position.
HoldsPP(h, d) == EndsPP(h.queue, Taken(h, d).mode)

\* A setpoint is pending in the drive only while the bit is up.
AckSeen(h, d) == Taken(h, d).ack => h.cw = NewSetpoint

(***************************************************************************)
(* What queueing anything does to the lag between server and drive, and    *)
(* what queueing items does that do not ask for homing mode.               *)
(***************************************************************************)
Sent(h, g, d) ==
    /\ WireOK(g)
    /\ Alive(g) => Alive(h)
    /\ Alive(g) /\ AckSeen(h, d) => AckSeen(g, d)

Carries(h, g, d) ==
    /\ Sent(h, g, d)
    /\ Alive(g) /\ HoldsPP(h, d) => HoldsPP(g, d)

\* Both hold when nothing that they speak of changes, and from step to step.
LEMMA SentFrame ==
    ASSUME NEW h, WireOK(h), NEW d, NEW g, g.sdo = h.sdo, g.active = h.active,
           g.tx = h.tx, g.cb = h.cb, g.cw = h.cw, g.queue = h.queue
    PROVE  Carries(h, g, d)
BY DEF Carries, Sent, WireOK, Alive, AckSeen, HoldsPP, Taken

LEMMA SentChain ==
    ASSUME NEW h, NEW g, NEW k, NEW d
    PROVE  /\ Sent(h, g, d) /\ Sent(g, k, d) => Sent(h, k, d)
           /\ Carries(h, g, d) /\ Carries(g, k, d) => Carries(h, k, d)
BY DEF Sent, Carries

(***************************************************************************)
(* The machine sends the head of q on an empty wire.  h is the record      *)
(* before, whose own queue may be another one.                             *)
(***************************************************************************)
LEMMA SendLands ==
    ASSUME NEW h, NEW g, NEW q \in Seq(Item), q # <<>>, h.tx = <<>>,
           Sends(h, g, Head(q)), g.queue = Tail(q), NEW d \in Drive
    PROVE  /\ WireOK(g) /\ Alive(g)
           /\ EndsPP(q, d.mode) => HoldsPP(g, d)
           /\ (d.ack => h.cw = NewSetpoint) => AckSeen(g, d)
<1> DEFINE x == Head(q)
           f == FrameOf(x)
<1>1. x \in Item
  OBVIOUS
<1>2. g.sdo = "ST_SDO_SENDING" /\ g.active = x
  BY DEF Sends
<1>3. g.cb = x.op /\ g.tx = <<f>>
  <2>1. Len(h.tx) < MaxTx /\ Append(h.tx, f) = <<f>>
    BY MaxTxAssumption
  <2> QED
    BY <2>1 DEF Sends, Requests
<1>4. x # NoSdo
  BY <1>1 DEF Item, NoSdo
<1>5. Taken(g, d) = DriveTakes(d, x)
  BY <1>2 DEF Taken
<1>6. g.cw = IF x.ob = "control" THEN x.val ELSE h.cw
  BY DEF Sends
<1>7. g.tx # <<>>
  BY <1>3
<1>8. WireOK(g) /\ Alive(g)
  BY <1>2, <1>3, <1>4, <1>7 DEF WireOK, Alive
<1>9. EndsPP(q, d.mode) => HoldsPP(g, d)
  BY <1>5, EndsMove DEF HoldsPP
<1>10. (d.ack => h.cw = NewSetpoint) => AckSeen(g, d)
  <2>1. /\ x.ob = "control" /\ Taken(g, d).ack => x.val = NewSetpoint
        /\ x.ob # "control" => Taken(g, d).ack = d.ack
    BY <1>1, <1>5, TakesFacts DEF IsControl
  <2> HIDE DEF x
  <2> QED
    BY <1>6, <2>1 DEF AckSeen
<1> QED
  BY <1>8, <1>9, <1>10

\* One item is queued.
LEMMA QueuePushed ==
    ASSUME NEW h \in Process, SdoOK(h), WireOK(h), NEW op \in {"read", "write"},
           NEW ob \in Object, NEW val \in Nat, NEW d \in Drive
    PROVE  LET g == SdoQueue(h, op, ob, val, "none")
           IN  /\ Sent(h, g, d)
               /\ ~(ob = "mode" /\ val = ModeHoming) => Carries(h, g, d)
               /\ ob = "mode" /\ val # ModeHoming /\ Alive(g) => HoldsPP(g, d)
<1> DEFINE g == SdoQueue(h, op, ob, val, "none")
           x == [op |-> op, ob |-> ob, val |-> val, cb |-> "none", ses |-> h.ses]
           r == <<x>>
<1>1. /\ x \in Item
      /\ h.sdo = "ST_SDO_WAITING" => Sends(h, g, x) /\ g.queue = <<>>
      /\ h.sdo # "ST_SDO_WAITING" =>
            /\ g.sdo = h.sdo /\ g.active = h.active /\ SameWords(h, g)
            /\ g.queue = Append(h.queue, x)
  BY QueueExact DEF Callbacks
<1>2. /\ ToHoming(x) <=> ob = "mode" /\ val = ModeHoming
      /\ ToPP(x) <=> ob = "mode" /\ val # ModeHoming
  BY DEF ToHoming, ToPP
<1>3. h.queue \in Seq(Item)
  BY DEF Process
<1> HIDE DEF g, x
<1>4. CASE h.sdo = "ST_SDO_WAITING"
  <2>1. h.queue = <<>> /\ h.tx = <<>>
    BY <1>4 DEF SdoOK, WireOK
  <2>2. /\ r \in Seq(Item) /\ r # <<>> /\ Head(r) = x /\ Tail(r) = <<>> /\ Len(r) = 1
        /\ r[1] = x /\ r = Append(<<>>, x) /\ <<>> \in Seq(Item)
    BY <1>1
  <2> HIDE DEF r
  <2>3. /\ WireOK(g) /\ Alive(g)
        /\ EndsPP(r, d.mode) => HoldsPP(g, d)
        /\ (d.ack => h.cw = NewSetpoint) => AckSeen(g, d)
    BY <1>1, <1>4, <2>1, <2>2, SendLands
  <2>4. Taken(h, d) = d /\ Alive(h)
    BY <1>4 DEF Taken, Alive
  <2>5. Sent(h, g, d)
    BY <2>3, <2>4 DEF Sent, AckSeen
  <2>7. EndsPP(<<>>, d.mode) /\ ~ToHoming(x) => EndsPP(r, d.mode)
    BY <1>1, <2>2, EndsAppend
  <2>8. ToPP(x) => EndsPP(r, d.mode)
    BY <1>1, <2>2, EndsAppend
  <2>9. HoldsPP(h, d) <=> EndsPP(<<>>, d.mode)
    BY <2>1, <2>4 DEF HoldsPP
  <2> QED
    BY <1>2, <2>3, <2>5, <2>7, <2>8, <2>9 DEF Carries, g
<1>5. CASE h.sdo # "ST_SDO_WAITING"
  <2>1. /\ g.sdo = h.sdo /\ g.active = h.active /\ g.tx = h.tx /\ g.cb = h.cb
        /\ g.cw = h.cw /\ g.queue = Append(h.queue, x)
    BY <1>1, <1>5 DEF SameWords
  <2>2. /\ WireOK(g) /\ Alive(g) = Alive(h) /\ Taken(g, d) = Taken(h, d)
        /\ AckSeen(g, d) = AckSeen(h, d)
    BY <2>1 DEF WireOK, Alive, Taken, AckSeen
  <2>3. Sent(h, g, d)
    BY <2>2 DEF Sent
  <2>5. /\ HoldsPP(h, d) /\ ~ToHoming(x) => HoldsPP(g, d)
        /\ ToPP(x) => HoldsPP(g, d)
    BY <1>1, <1>3, <2>1, <2>2, EndsAppend DEF HoldsPP
  <2> QED
    BY <1>2, <2>3, <2>5 DEF Carries, g
<1> QED
  BY <1>4, <1>5

LEMMA WritePushed ==
    ASSUME NEW h \in Process, SdoOK(h), WireOK(h), NEW ob \in Object, NEW val \in Nat,
           NEW d \in Drive
    PROVE  LET g == SdoQueueWrite(h, ob, val)
           IN  /\ Sent(h, g, d)
               /\ ob # "mode" => Carries(h, g, d)
               /\ ob = "mode" /\ val # ModeHoming /\ Alive(g) => HoldsPP(g, d)
BY QueuePushed DEF SdoQueueWrite

\* A control word or a mode is queued.
LEMMA WordPushed ==
    ASSUME NEW h \in Process, SdoOK(h), WireOK(h), NEW d \in Drive,
           NEW ob \in {"control", "mode"}, NEW val \in Nat
    PROVE  LET g == SdoQueueWrite(h, ob, val)
           IN  /\ g \in Process /\ SdoOK(g) /\ g.mp = h.mp
               /\ Sent(h, g, d)
               /\ ob = "control" => Carries(h, g, d)
               /\ ob = "mode" /\ val # ModeHoming /\ Alive(g) => HoldsPP(g, d)
<1> DEFINE g == SdoQueueWrite(h, ob, val)
<1>0. ob \in Object
  BY WordsType
<1>1. Queued(h, g)
  BY <1>0, QueueWriteOK
<1>2. /\ Sent(h, g, d)
      /\ ob # "mode" => Carries(h, g, d)
      /\ ob = "mode" /\ val # ModeHoming /\ Alive(g) => HoldsPP(g, d)
  BY <1>0, WritePushed
<1> HIDE DEF g
<1>3. g \in Process /\ SdoOK(g) /\ g.mp = h.mp
  BY <1>1 DEF Queued, SameAboveSdo
<1> QED
  BY <1>2, <1>3 DEF g

\* A batch is queued that does not ask for homing mode.
LEMMA BatchPushed ==
    ASSUME NEW h \in Process, SdoOK(h), WireOK(h), NEW items \in Seq(Item),
           \A i \in 1..Len(items) : ~ToHoming(items[i]), NEW d \in Drive
    PROVE  Carries(h, SdoQueueAll(h, items), d)
<1> DEFINE g == SdoQueueAll(h, items)
<1>1. CASE items = <<>>
  <2>1. g = h
    BY <1>1 DEF SdoQueueAll
  <2> QED
    BY <2>1, SentFrame
<1>2. CASE items # <<>>
  <2>1. /\ h.sdo = "ST_SDO_WAITING" => Sends(h, g, Head(items)) /\ g.queue = Tail(items)
        /\ h.sdo # "ST_SDO_WAITING" =>
              /\ g.sdo = h.sdo /\ g.active = h.active /\ SameWords(h, g)
              /\ g.queue = h.queue \o items
    BY <1>2, QueueAllExact
  <2>2. h.queue \in Seq(Item) /\ <<>> \o items = items
    BY ConcatEmptySeq DEF Process
  <2> HIDE DEF g
  <2>3. EndsPP(h.queue, Taken(h, d).mode) => EndsPP(h.queue \o items, Taken(h, d).mode)
    BY <2>2, EndsConcat
  <2>4. CASE h.sdo = "ST_SDO_WAITING"
    <3>1. h.queue = <<>> /\ h.tx = <<>>
      BY <2>4 DEF SdoOK, WireOK
    <3>2. /\ WireOK(g) /\ Alive(g)
          /\ EndsPP(items, d.mode) => HoldsPP(g, d)
          /\ (d.ack => h.cw = NewSetpoint) => AckSeen(g, d)
      BY <1>2, <2>1, <2>4, <3>1, SendLands
    <3>3. Taken(h, d) = d /\ Alive(h)
      BY <2>4 DEF Taken, Alive
    <3> QED
      BY <2>2, <2>3, <3>1, <3>2, <3>3 DEF Carries, Sent, AckSeen, HoldsPP, g
  <2>5. CASE h.sdo # "ST_SDO_WAITING"
    <3>1. /\ g.sdo = h.sdo /\ g.active = h.active /\ g.tx = h.tx /\ g.cb = h.cb
          /\ g.cw = h.cw /\ g.queue = h.queue \o items
      BY <2>1, <2>5 DEF SameWords
    <3>2. /\ WireOK(g) /\ Alive(g) = Alive(h) /\ Taken(g, d) = Taken(h, d)
          /\ AckSeen(g, d) = AckSeen(h, d)
      BY <3>1 DEF WireOK, Alive, Taken, AckSeen
    <3> QED
      BY <2>3, <3>1, <3>2 DEF Carries, Sent, HoldsPP, g
  <2> QED
    BY <2>4, <2>5
<1> QED
  BY <1>1, <1>2

-----------------------------------------------------------------------------
AfterHoming == {"ST_MP_SWITCH_MODE_PP", "ST_MP_PP_IDLE", "ST_MP_PP_SP_NACK",
                "ST_MP_PP_SP_ACK"}

(***************************************************************************)
(* Two parts of the invariant.  After homing the drive is in, or on its    *)
(* way to, profile-position mode; and once the DS402 machine has seen the  *)
(* drive's state, a setpoint is pending only while the bit is up.          *)
(***************************************************************************)
ModeOK(h, d) == Alive(h) /\ h.mp \in AfterHoming => HoldsPP(h, d)
AckOK(h, d)  == Alive(h) /\ h.ds \notin {"ST_DS_DISABLED", "ST_DS_UNKNOWN"} =>
                    AckSeen(h, d)

\* The motion machine reaches a state after homing only by the report of it.
LEMMA HomingIsReported ==
    ASSUME NEW s \in MpStates, NEW e, MpNext(s, e) \in AfterHoming
    PROVE  s \in AfterHoming \/ e = "EV_MP_HOMED"
BY DEF MpNext, MpStates, AfterHoming

\* The motion machine, whatever event it handles.
LEMMA DriveMp ==
    ASSUME NEW h \in Process, SdoOK(h), WireOK(h), NEW d \in Drive, NEW e
    PROVE  LET g == MpHandle(h, e)
           IN  /\ Sent(h, g, d)
               /\ ModeOK(h, d) => ModeOK(g, d)
<1> DEFINE n == MpNext(h.mp, e)
           x == MpExit(h)
           y == [x EXCEPT !.mp = n]
           g == MpEnter(y)
<1>1. CASE n = h.mp
  <2>1. MpHandle(h, e) = h
    BY <1>1 DEF MpHandle
  <2> QED
    BY <2>1, SentFrame DEF Carries
<1>2. CASE n # h.mp
  <2>1. n \in MpStates /\ h.mp \in MpStates
    BY DEF MpNext, MpStates, Process
  <2>2. /\ h.mp # "ST_MP_HH_HOMING" => x = h
        /\ x = h \/ x = SdoQueueWrite(h, "control", ClearSetpoint)
    BY DEF MpExit
  <2>3. MpHandle(h, e) = g
    BY <1>2 DEF MpHandle
  <2>4. n \in AfterHoming => n = "ST_MP_SWITCH_MODE_PP" \/
                             (h.mp \in AfterHoming /\ h.mp # "ST_MP_HH_HOMING")
    BY <1>2 DEF MpNext, AfterHoming
  <2> HIDE DEF n, x
  <2>5. /\ x \in Process /\ SdoOK(x) /\ Carries(h, x, d)
    <3>1. CASE x = h
      BY <3>1, SentFrame
    <3>2. CASE x = SdoQueueWrite(h, "control", ClearSetpoint)
      <4>1. ClearSetpoint \in Nat
        BY WordsType
      <4> QED
        BY <3>2, <4>1, WordPushed
    <3> QED
      BY <2>2, <3>1, <3>2
  <2>6. /\ y \in Process /\ y.sdo = x.sdo /\ y.queue = x.queue /\ y.active = x.active
        /\ y.ses = x.ses /\ y.tx = x.tx /\ y.cb = x.cb /\ y.cw = x.cw /\ y.mp = n
    BY <2>1, <2>5 DEF Process
  <2>7. g = CASE n = "ST_MP_SWITCH_MODE_HOMING" -> SdoQueueWrite(y, "mode", ModeHoming)
              [] n = "ST_MP_SWITCH_MODE_PP"     -> SdoQueueWrite(y, "mode", ModePP)
              [] n = "ST_MP_HH_HOMING"          -> SdoQueueWrite(y, "control", NewSetpoint)
              [] n = "ST_MP_PP_SP_ACK"          -> SdoQueueWrite(y, "control", ClearSetpoint)
              [] OTHER                          -> y
    BY <2>6 DEF MpEnter
  <2> HIDE DEF y, g
  <2>8. SdoOK(y)
    BY <2>5, <2>6 DEF SdoOK, SdoEnabled
  <2>9. Carries(x, y, d) /\ WireOK(y)
    BY <2>5, <2>6, SentFrame DEF Carries, Sent
  <2>10. /\ Sent(y, g, d) /\ g.mp = n
         /\ n # "ST_MP_SWITCH_MODE_HOMING" /\ n # "ST_MP_SWITCH_MODE_PP" =>
               Carries(y, g, d)
         /\ n = "ST_MP_SWITCH_MODE_PP" /\ Alive(g) => HoldsPP(g, d)
    <3>1. CASE n = "ST_MP_SWITCH_MODE_HOMING"
      <4>1. g = SdoQueueWrite(y, "mode", ModeHoming)
        BY <2>7, <3>1
      <4>2. ModeHoming \in Nat
        BY WordsType
      <4>3. Sent(y, g, d) /\ g.mp = y.mp
        BY <2>6, <2>8, <2>9, <4>1, <4>2, WordPushed
      <4> QED
        BY <2>6, <3>1, <4>3
    <3>2. CASE n = "ST_MP_SWITCH_MODE_PP"
      <4>1. g = SdoQueueWrite(y, "mode", ModePP) /\ ModePP # ModeHoming
        BY <2>7, <3>2 DEF ModePP, ModeHoming
      <4>2. ModePP \in Nat
        BY WordsType
      <4>3. /\ Sent(y, g, d) /\ g.mp = y.mp
            /\ Alive(g) => HoldsPP(g, d)
        BY <2>6, <2>8, <2>9, <4>1, <4>2, WordPushed
      <4> QED
        BY <2>6, <3>2, <4>3
    <3>3. CASE n \in {"ST_MP_HH_HOMING", "ST_MP_PP_SP_ACK"}
      <4>1. PICK w \in Nat : g = SdoQueueWrite(y, "control", w)
        BY <2>7, <3>3, WordsType
      <4>2. Carries(y, g, d) /\ Sent(y, g, d) /\ g.mp = y.mp
        BY <2>6, <2>8, <2>9, <4>1, WordPushed
      <4> QED
        BY <2>6, <3>3, <4>2
    <3>4. CASE n \notin {"ST_MP_SWITCH_MODE_HOMING", "ST_MP_SWITCH_MODE_PP",
                         "ST_MP_HH_HOMING", "ST_MP_PP_SP_ACK"}
      <4>1. g = y
        BY <2>7, <3>4
      <4> QED
        BY <2>6, <2>9, <3>4, <4>1, SentFrame DEF Carries
    <3> QED
      BY <3>1, <3>2, <3>3, <3>4
  <2>11. Sent(h, g, d)
    BY <2>5, <2>9, <2>10, SentChain DEF Carries
  <2>12. ASSUME ModeOK(h, d), Alive(g), n \in AfterHoming PROVE HoldsPP(g, d)
    <3>1. CASE n = "ST_MP_SWITCH_MODE_PP"
      BY <2>10, <2>12, <3>1
    <3>2. CASE n # "ST_MP_SWITCH_MODE_PP"
      <4>1. h.mp \in AfterHoming /\ n # "ST_MP_SWITCH_MODE_HOMING"
        BY <2>4, <2>12, <3>2 DEF AfterHoming
      <4>2. Alive(h) /\ HoldsPP(h, d)
        BY <2>11, <2>12, <4>1 DEF Sent, ModeOK
      <4>3. Carries(h, g, d)
        BY <2>5, <2>9, <2>10, <3>2, <4>1, SentChain
      <4> QED
        BY <2>12, <4>2, <4>3 DEF Carries
    <3> QED
      BY <3>1, <3>2
  <2>13. ModeOK(h, d) => ModeOK(g, d)
    BY <2>10, <2>12 DEF ModeOK
  <2> QED
    BY <2>3, <2>11, <2>13
<1> QED
  BY <1>1, <1>2

\* A drive that is not enabled has no setpoint pending after any request.
LEMMA NotEnabledNotPending ==
    ASSUME NEW h \in Process, SdoOK(h), NEW d \in Drive, Acks(d),
           d.ds # "EV_DS_OPERATION_ENABLED"
    PROVE  AckSeen(h, d)
<1>1. h.sdo = "ST_SDO_SENDING" => h.active \in Item
  BY DEF SdoOK, Process
<1> QED
  BY <1>1, TakesFacts DEF AckSeen, Taken, Acks

(***************************************************************************)
(* The DS402 machine.  It leaves UNKNOWN only on the report of a state     *)
(* that is not OPERATION_ENABLED.                                          *)
(***************************************************************************)
LEMMA DriveDs ==
    ASSUME NEW h \in Process, SdoOK(h), DsLinked(h), WireOK(h),
           NEW d \in Drive, NEW e
    PROVE  LET g == DsHandle(h, e)
           IN  /\ Sent(h, g, d)
               /\ ModeOK(h, d) => ModeOK(g, d)
               /\ g.mp \in AfterHoming => h.mp \in AfterHoming
<1> DEFINE n == DsNext(h.ds, e)
           x == DsExit(h)
           y == [x EXCEPT !.ds = n]
           g == DsHandle(h, e)
<1>1. CASE n = h.ds
  <2>1. g = h
    BY <1>1 DEF DsHandle
  <2> QED
    BY <2>1, SentFrame DEF Carries
<1>2. CASE n # h.ds
  <2>1. n \in DsStates
    BY DEF DsNext, DsStates, Process
  <2>2. x = h \/ x = MpHandle(h, "EV_MP_DS_INOPERATIONAL")
    BY DEF DsExit
  <2>3. g = DsEnter(y)
    BY <1>2 DEF DsHandle
  <2>4. g.mp \notin AfterHoming
    <3>1. /\ DsLinked(g) /\ g.ds = n
          /\ g.ds # h.ds /\ g.ds = "ST_DS_OPERATION_ENABLED" =>
                g.mp = "ST_MP_SWITCH_MODE_HOMING"
      BY DsHandleOK
    <3> HIDE DEF g, n
    <3> QED
      BY <1>2, <3>1 DEF DsLinked, AfterHoming
  <2> HIDE DEF n, x
  <2>5. x \in Process /\ SdoOK(x) /\ Sent(h, x, d)
    BY <2>2, MpHandleOK, DriveMp, SentFrame DEF Carries
  <2>6. /\ y \in Process /\ y.sdo = x.sdo /\ y.queue = x.queue /\ y.active = x.active
        /\ y.ses = x.ses /\ y.tx = x.tx /\ y.cb = x.cb /\ y.cw = x.cw /\ y.ds = n
    BY <2>1, <2>5 DEF Process
  <2> HIDE DEF y
  <2>7. SdoOK(y)
    BY <2>5, <2>6 DEF SdoOK, SdoEnabled
  <2>8. Sent(x, y, d) /\ WireOK(y)
    BY <2>5, <2>6, SentFrame DEF Carries, Sent
  <2>9. \/ g = y
        \/ \E w \in Nat : g = SdoQueueWrite(y, "control", w)
        \/ g = SdoQueue(y, "read", "clear_fault", 0, "none")
        \/ g = MpHandle(y, "EV_MP_DS_OPERATIONAL")
    <3> HIDE DEF g
    <3> QED
      BY <2>3, WordsType DEF DsEnter, SdoQueueRead
  <2> HIDE DEF g
  <2>10. Sent(y, g, d)
    <3>1. CASE g = y
      BY <2>8, <3>1, SentFrame DEF Carries
    <3>2. CASE \E w \in Nat : g = SdoQueueWrite(y, "control", w)
      BY <2>6, <2>7, <2>8, <3>2, WritePushed, WordsType
    <3>3. CASE g = SdoQueue(y, "read", "clear_fault", 0, "none")
      BY <2>6, <2>7, <2>8, <3>3, QueuePushed, WordsType
    <3>4. CASE g = MpHandle(y, "EV_MP_DS_OPERATIONAL")
      BY <2>6, <2>7, <2>8, <3>4, DriveMp
    <3> QED
      BY <2>9, <3>1, <3>2, <3>3, <3>4
  <2>11. Sent(h, g, d)
    BY <2>5, <2>8, <2>10, SentChain
  <2> QED
    BY <2>4, <2>11 DEF ModeOK, g
<1> QED
  BY <1>1, <1>2

-----------------------------------------------------------------------------
\* A drive that is operational is homed when the motion machine thinks so.
HomedOK(h, d) ==
    h.mp \in AfterHoming /\ d.nmt = "EV_NET_OPERATIONAL" => d.homed

\* The part of the invariant that the two upper machines keep by themselves.
Steady(h, d) ==
    /\ h \in Process /\ SdoOK(h) /\ DsLinked(h)
    /\ WireOK(h) /\ ModeOK(h, d) /\ AckOK(h, d) /\ HomedOK(h, d)

SameLink(h, g) ==
    g.net = h.net /\ g.nmt = h.nmt /\ g.acked = h.acked /\ g.status = h.status

\* The DS402 machine: it leaves UNKNOWN only on the report of another state.
LEMMA SteadyDs ==
    ASSUME NEW h, NEW d \in Drive, Acks(d), Steady(h, d), NEW e,
           h.ds = "ST_DS_UNKNOWN" /\ DsNext(h.ds, e) # "ST_DS_UNKNOWN" =>
               d.ds # "EV_DS_OPERATION_ENABLED",
           e # "EV_DS_NET_OPERATIONAL"
    PROVE  LET g == DsHandle(h, e) IN Steady(g, d) /\ SameLink(h, g)
<1> DEFINE g == DsHandle(h, e)
<1>1. /\ g \in Process /\ SameAboveDs(h, g) /\ SdoOK(g) /\ DsLinked(g)
      /\ g.ds = DsNext(h.ds, e) /\ g.status = h.status
  BY DsHandleOK DEF Steady
<1>2. /\ Sent(h, g, d) /\ ModeOK(g, d)
      /\ g.mp \in AfterHoming => h.mp \in AfterHoming
  BY DriveDs DEF Steady
<1>3. h.ds = "ST_DS_DISABLED" => DsNext(h.ds, e) = "ST_DS_DISABLED"
  BY DEF DsNext
<1> HIDE DEF g
<1>4. AckOK(g, d)
  <2>1. SUFFICES ASSUME Alive(g), g.ds \notin {"ST_DS_DISABLED", "ST_DS_UNKNOWN"}
                 PROVE  AckSeen(g, d)
    BY DEF AckOK
  <2>2. CASE h.ds = "ST_DS_UNKNOWN"
    BY <1>1, <2>1, <2>2, NotEnabledNotPending
  <2>3. CASE h.ds # "ST_DS_UNKNOWN"
    BY <1>1, <1>2, <1>3, <2>1, <2>3 DEF Steady, AckOK, Sent
  <2> QED
    BY <2>2, <2>3
<1>5. HomedOK(g, d) /\ WireOK(g)
  BY <1>2 DEF Steady, HomedOK, Sent
<1> QED
  BY <1>1, <1>2, <1>4, <1>5 DEF Steady, SameLink, SameAboveDs, g

\* The motion machine: it hears that the drive is homed only if it is.
LEMMA SteadyMp ==
    ASSUME NEW h, NEW d \in Drive, Steady(h, d),
           NEW e, e \notin {"EV_MP_DS_OPERATIONAL", "EV_MP_DS_INOPERATIONAL"},
           e = "EV_MP_HOMED" => d.homed
    PROVE  LET g == MpHandle(h, e) IN Steady(g, d) /\ SameLink(h, g)
<1> DEFINE g == MpHandle(h, e)
<1>1. /\ g \in Process /\ SameAboveMp(h, g) /\ SdoOK(g)
      /\ g.mp = MpNext(h.mp, e) /\ g.status = h.status
  BY MpHandleOK DEF Steady
<1>2. Sent(h, g, d) /\ ModeOK(g, d)
  BY DriveMp DEF Steady
<1>3. h.mp \in MpStates
  BY DEF Steady, Process
<1>4. MpNext(h.mp, e) = "ST_MP_DISABLED" <=> h.mp = "ST_MP_DISABLED"
  BY <1>3 DEF MpNext, MpStates
<1> HIDE DEF g
<1>5. DsLinked(g)
  BY <1>1, <1>4 DEF Steady, DsLinked, SameAboveMp
<1>6. AckOK(g, d) /\ WireOK(g)
  BY <1>1, <1>2 DEF Steady, AckOK, Sent, SameAboveMp
<1>7. HomedOK(g, d)
  BY <1>1, <1>3, HomingIsReported DEF Steady, HomedOK
<1> QED
  BY <1>1, <1>2, <1>5, <1>6, <1>7 DEF Steady, SameLink, SameAboveMp, g

\* A status report of the drive as it is.
LEMMA SteadyReport ==
    ASSUME NEW h, NEW d \in Drive, Acks(d), Steady(h, d)
    PROVE  LET g == ReportReceived(h, d) IN Steady(g, d) /\ SameLink(h, g)
<1> DEFINE bit == IF d.mode = "homing" THEN d.homed ELSE d.ack
           x == StatusReceived(h, d.ds)
           y == VoltageReceived(x, d.voltage)
           pp == MpHandle(y, "EV_MP_MODE_PP")
           hh == MpHandle(y, "EV_MP_MODE_HOMING")
           g == ReportReceived(h, d)
<1>1. /\ d.ds \in {"EV_DS_NOT_READY_TO_SWITCH_ON", "EV_DS_READY_TO_SWITCH_ON",
                   "EV_DS_SWITCHED_ON", "EV_DS_OPERATION_ENABLED", "EV_DS_FAULT"}
      /\ d.mode \in {"pp", "homing"}
  BY DEF Drive
<1>2. x = DsHandle(h, d.ds)
  BY <1>1 DEF StatusReceived
<1>3. Steady(x, d) /\ SameLink(h, x)
  <2>1. DsNext("ST_DS_UNKNOWN", "EV_DS_OPERATION_ENABLED") = "ST_DS_UNKNOWN"
    BY DEF DsNext
  <2>2. d.ds # "EV_DS_NET_OPERATIONAL"
    BY <1>1
  <2> HIDE DEF x
  <2> QED
    BY <1>2, <2>1, <2>2, SteadyDs
<1> HIDE DEF x
<1>4. Steady(y, d) /\ SameLink(x, y)
  <2>1. \/ y = DsHandle(x, "EV_DS_VOLTAGE_ENABLED")
        \/ y = DsHandle(x, "EV_DS_VOLTAGE_DISABLED")
    BY DEF VoltageReceived
  <2>2. /\ DsNext("ST_DS_UNKNOWN", "EV_DS_VOLTAGE_ENABLED") = "ST_DS_UNKNOWN"
        /\ DsNext("ST_DS_UNKNOWN", "EV_DS_VOLTAGE_DISABLED") = "ST_DS_UNKNOWN"
    BY DEF DsNext
  <2> HIDE DEF y
  <2> QED
    BY <1>3, <2>1, <2>2, SteadyDs
<1> HIDE DEF y
<1>5. Steady(pp, d) /\ SameLink(y, pp) /\ Steady(hh, d) /\ SameLink(y, hh)
  BY <1>4, SteadyMp
<1>6. g = ModeReceived(y, d.mode, bit)
  BY DEF ReportReceived, Tpdo1Received, x, y
<1>7. \/ \E e \in {"EV_MP_SETPOINT_ACK", "EV_MP_SETPOINT_NACK"} : g = MpHandle(pp, e)
      \/ /\ \E e \in {"EV_MP_HOMED", "EV_MP_NOTHOMED"} :
                g = MpHandle(hh, e) /\ (e = "EV_MP_HOMED" => d.homed)
  <2>1. CASE d.mode = "pp"
    BY <1>6, <2>1 DEF ModeReceived
  <2>2. CASE d.mode = "homing"
    <3>1. g = MpHandle(hh, IF d.homed THEN "EV_MP_HOMED" ELSE "EV_MP_NOTHOMED")
      BY <1>6, <2>2 DEF ModeReceived
    <3> QED
      BY <3>1
  <2> QED
    BY <1>1, <2>1, <2>2
<1> HIDE DEF pp, hh, g
<1>8. Steady(g, d) /\ (SameLink(pp, g) \/ SameLink(hh, g))
  BY <1>5, <1>7, SteadyMp
<1> QED
  BY <1>3, <1>4, <1>5, <1>8 DEF SameLink, g

\* While the network is not operational a status report changes nothing.
LEMMA ReportIgnored ==
    ASSUME NEW h, NEW d \in Drive, h.ds = "ST_DS_DISABLED", h.mp = "ST_MP_DISABLED"
    PROVE  ReportReceived(h, d) = h
<1>1. /\ d.ds \in {"EV_DS_NOT_READY_TO_SWITCH_ON", "EV_DS_READY_TO_SWITCH_ON",
                   "EV_DS_SWITCHED_ON", "EV_DS_OPERATION_ENABLED", "EV_DS_FAULT"}
      /\ d.mode \in {"pp", "homing"}
  BY DEF Drive
<1>2. \A e : e # "EV_DS_NET_OPERATIONAL" => DsHandle(h, e) = h
  BY DEF DsHandle, DsNext
<1>3. \A e : e # "EV_MP_DS_OPERATIONAL" => MpHandle(h, e) = h
  BY DEF MpHandle, MpNext
<1>4. VoltageReceived(StatusReceived(h, d.ds), d.voltage) = h
  BY <1>1, <1>2 DEF VoltageReceived, StatusReceived
<1>5. \A m, b : ModeReceived(h, m, b) = h
  BY <1>3 DEF ModeReceived
<1> QED
  BY <1>4, <1>5 DEF ReportReceived, Tpdo1Received

\* Queueing the writes of a profile does not end the process.
LEMMA PendingStatus ==
    ASSUME NEW h, Good(h), NEW n \in 0..Len(ProfileFields), NEW load \in BOOLEAN
    PROVE  WritePendingChanges(h, n, load).status = h.status
<1> DEFINE l == LoadTask(h, load)
           items == ProfileItems(n, l.ses)
           q == SdoQueueAll(l, items)
           c == SdoQueueWrite(q, "copy_task", 0)
<1>1. h \in Process /\ SdoOK(h) /\ 0 \in Nat
  BY DEF Good
<1>2. l \in Process /\ SdoOK(l) /\ l.status = h.status
  <2>1. l = h \/ l = SdoQueueWrite(h, "copy_task", 0)
    BY DEF LoadTask
  <2> HIDE DEF l
  <2> QED
    BY <1>1, <2>1, QueueWriteOK, WordsType DEF Queued
<1>3. \/ WritePendingChanges(h, n, load) = h
      \/ WritePendingChanges(h, n, load) = c
  BY DEF WritePendingChanges
<1> HIDE DEF l
<1>4. items \in Seq(Item) /\ \A i \in 1..Len(items) : items[i].ses = l.ses
  BY <1>2, ProfileItemsType DEF Process
<1> HIDE DEF items
<1>5. q \in Process /\ SdoOK(q) /\ q.status = l.status
  BY <1>2, <1>4, QueueAllOK
<1> HIDE DEF q
<1>6. c.status = q.status
  BY <1>1, <1>5, QueueWriteOK, WordsType DEF Queued
<1> QED
  BY <1>2, <1>3, <1>5, <1>6

\* The writes of a profile do not ask for homing mode.
LEMMA PendingCarries ==
    ASSUME NEW h, Good(h), WireOK(h), NEW n \in 0..Len(ProfileFields),
           NEW load \in BOOLEAN, NEW d \in Drive
    PROVE  Carries(h, WritePendingChanges(h, n, load), d)
<1> DEFINE l == LoadTask(h, load)
           items == ProfileItems(n, l.ses)
           q == SdoQueueAll(l, items)
           c == SdoQueueWrite(q, "copy_task", 0)
<1>1. h \in Process /\ SdoOK(h) /\ 0 \in Nat
  BY DEF Good
<1>2. l \in Process /\ SdoOK(l) /\ Carries(h, l, d)
  <2>1. l = h \/ l = SdoQueueWrite(h, "copy_task", 0)
    BY DEF LoadTask
  <2> HIDE DEF l
  <2>2. CASE l = h
    BY <1>1, <2>2, SentFrame
  <2>3. CASE l = SdoQueueWrite(h, "copy_task", 0)
    BY <1>1, <2>3, WritePushed, QueueWriteOK, WordsType DEF Queued
  <2> QED
    BY <2>1, <2>2, <2>3
<1>3. \/ WritePendingChanges(h, n, load) = h
      \/ WritePendingChanges(h, n, load) = c
  BY DEF WritePendingChanges
<1> HIDE DEF l
<1>4. l.ses \in {0, 1} /\ WireOK(l)
  BY <1>2 DEF Process, Carries, Sent
<1>5. /\ items \in Seq(Item) /\ Len(items) = n
      /\ \A i \in 1..Len(items) : items[i].ses = l.ses
  BY <1>4, ProfileItemsType
<1>6. \A i \in 1..Len(items) : ~ToHoming(items[i])
  <2>1. \A i \in 1..n : items[i].val = 0
    BY DEF ProfileItems
  <2> HIDE DEF items
  <2> QED
    BY <1>5, <2>1 DEF ToHoming, ModeHoming
<1> HIDE DEF items
<1>7. q \in Process /\ SdoOK(q) /\ Carries(l, q, d)
  BY <1>2, <1>4, <1>5, <1>6, QueueAllOK, BatchPushed
<1> HIDE DEF q
<1>8. Carries(q, c, d)
  BY <1>1, <1>7, WritePushed, WordsType DEF Carries, Sent
<1>9. Carries(h, h, d)
  BY SentFrame
<1> QED
  BY <1>2, <1>3, <1>7, <1>8, <1>9, SentChain

\* A client starts a motion.
LEMMA SteadyExecute ==
    ASSUME NEW h, Good(h), NEW d \in Drive, Steady(h, d),
           NEW n \in 0..Len(ProfileFields), NEW load \in BOOLEAN
    PROVE  LET g == ProfileExecute(h, n, load) IN Steady(g, d) /\ SameLink(h, g)
<1> DEFINE w == WritePendingChanges(h, n, load)
           t == SdoQueueWrite(w, "motion_task", 0)
           c == SdoQueueWrite(t, "control", NewSetpoint)
           g == ProfileExecute(h, n, load)
<1>1. CASE h.mp # "ST_MP_PP_IDLE"
  BY <1>1 DEF ProfileExecute, SameLink
<1>2. CASE h.mp = "ST_MP_PP_IDLE"
  <2>1. g = MpHandle(c, "EV_MP_SETPOINT_SET")
    BY <1>2 DEF ProfileExecute
  <2>2. Good(w) /\ SameAboveSdo(h, w) /\ Carries(h, w, d) /\ w.status = h.status
    BY GoodWritePending, PendingCarries, PendingStatus DEF Steady
  <2> HIDE DEF w, g
  <2>3. Good(t) /\ Queued(w, t) /\ Carries(w, t, d)
    BY <2>2, GoodQueueWrite, QueueWriteOK, WritePushed, WordsType
       DEF Good, Carries, Sent
  <2> HIDE DEF t
  <2>4. Good(c) /\ Queued(t, c) /\ Carries(t, c, d)
    BY <2>3, GoodQueueWrite, QueueWriteOK, WritePushed, WordsType
       DEF Good, Carries, Sent
  <2> HIDE DEF c
  <2>5. Carries(h, c, d)
    BY <2>2, <2>3, <2>4, SentChain
  <2>6. SameAboveSdo(h, c) /\ c.status = h.status
    BY <2>2, <2>3, <2>4 DEF Queued, SameAboveSdo
  <2>7. c \in Process /\ SdoOK(c) /\ DsLinked(c) /\ WireOK(c)
    BY <2>4, <2>5 DEF Good, Linked, NetLinked, Carries, Sent
  <2>8. ModeOK(c, d) /\ AckOK(c, d) /\ HomedOK(c, d)
    BY <2>5, <2>6 DEF Steady, ModeOK, AckOK, HomedOK, Carries, Sent, SameAboveSdo
  <2>9. Steady(g, d) /\ SameLink(c, g)
    BY <2>1, <2>7, <2>8, SteadyMp DEF Steady
  <2> QED
    BY <2>6, <2>9 DEF SameLink, SameAboveSdo, g
<1> QED
  BY <1>1, <1>2

-----------------------------------------------------------------------------
\* The invariants of libsled by itself, from SledProofs and its companions.
Sound(h) == Good(h) /\ Handshake(h) /\ UploadOK(h)

(***************************************************************************)
(* The start command is under way only to a drive that is not operational, *)
(* and a drive being configured is not.                                    *)
(***************************************************************************)
NmtOK(h, d) ==
    /\ h.nmt = "NMT_STARTREMOTENODE" =>
          h.net = "ST_NET_STARTREMOTENODE" /\ d.nmt = "EV_NET_PREOPERATIONAL"
    /\ h.net = "ST_NET_PREOPERATIONAL" => d.nmt = "EV_NET_PREOPERATIONAL"

\* The server's side of the invariant: h faces the drive d.
Loop(h, d) ==
    /\ Sound(h) /\ Steady(h, d)
    /\ h.net \notin {"ST_NET_DISABLED", "ST_NET_STOPPED"}
    /\ NmtOK(h, d)

\* What the record holds besides is of no account.
LEMMA SoundFrame ==
    ASSUME NEW h, Sound(h), NEW g \in Process, g.intf = h.intf, SameMachines(h, g)
    PROVE  Sound(g)
<1>1. Good(g)
  BY GoodFrame DEF Sound, SameMachines
<1>2. Handshake(g)
  BY HandshakeFrame DEF Sound, SameMachines
<1>3. UploadOK(g)
  BY UploadFrame DEF Sound, SameMachines
<1> QED
  BY <1>1, <1>2, <1>3 DEF Sound

LEMMA LoopFrame ==
    ASSUME NEW h, NEW d, Loop(h, d), NEW g \in Process, g.intf = h.intf,
           SameMachines(h, g), g.tx = h.tx, g.cb = h.cb, g.nmt = h.nmt
    PROVE  Loop(g, d)
<1>1. Sound(g)
  BY SoundFrame DEF Loop
<1>2. Carries(h, g, d)
  BY SentFrame DEF Loop, Steady, SameMachines
<1>3. SdoOK(g) /\ DsLinked(g)
  BY <1>1 DEF Sound, Good, Linked, NetLinked
<1>4. WireOK(g) /\ ModeOK(g, d) /\ AckOK(g, d) /\ HomedOK(g, d)
  BY <1>2 DEF Loop, Steady, ModeOK, AckOK, HomedOK, Carries, Sent, SameMachines
<1>5. NmtOK(g, d)
  BY DEF Loop, NmtOK, SameMachines
<1> QED
  BY <1>1, <1>3, <1>4, <1>5 DEF Loop, Steady, SameMachines

\* With the network not operational, nothing is said of mode and setpoint.
LEMMA Offline ==
    ASSUME NEW h \in Process, SdoOK(h), NetLinked(h), WireOK(h), NEW d,
           h.net # "ST_NET_OPERATIONAL"
    PROVE  Steady(h, d)
<1>1. h.ds = "ST_DS_DISABLED" /\ h.mp = "ST_MP_DISABLED" /\ DsLinked(h)
  BY DEF NetLinked, DsLinked
<1> QED
  BY <1>1 DEF Steady, ModeOK, AckOK, HomedOK, AfterHoming

LEMMA SoundNet ==
    ASSUME NEW h, Sound(h), NEW e,
           e \notin {"EV_NET_INTF_OPENED", "EV_NET_UPLOAD_COMPLETE"}
    PROVE  /\ Sound(NetHandle(h, e)) /\ NetHandle(h, e) \in Process
           /\ SdoOK(NetHandle(h, e)) /\ NetLinked(NetHandle(h, e))
           /\ NetHandle(h, e).net = NetNext(h.net, e)
<1>1. h \in Process /\ SdoOK(h) /\ NetLinked(h) /\ Good(h) /\ Handshake(h) /\ UploadOK(h)
  BY DEF Sound, Good, Linked
<1>2. Good(NetHandle(h, e)) /\ Handshake(NetHandle(h, e)) /\ UploadOK(NetHandle(h, e))
  BY <1>1, GoodNet, HandshakeNet, UploadNet
<1>3. NetHandle(h, e).net = NetNext(h.net, e)
  BY <1>1, NetHandleOK
<1> QED
  BY <1>2, <1>3 DEF Sound, Good, Linked

\* Entering these states enables SDOs; it may end the process.
LEMMA NetOpens ==
    ASSUME NEW h \in Process, SdoOK(h), NetLinked(h), NEW e,
           NetNext(h.net, e) \in {"ST_NET_PREOPERATIONAL", "ST_NET_OPERATIONAL"},
           NetNext(h.net, e) # h.net
    PROVE  LET g == NetHandle(h, e)
           IN  /\ SdoEnabled(g)
               /\ g.status = h.status \/ (g.status = "exited" /\ Doomed(h))
<1> DEFINE n == NetNext(h.net, e)
           y == [h EXCEPT !.net = n]
           s == SdoHandle(y, "EV_NET_SDO_ENABLED")
           a == [s EXCEPT !.acked = 0]
           items == ConfigItems(s.ses)
           g == NetHandle(h, e)
<1>1. h.net # "ST_NET_OPERATIONAL" /\ n \in NetStates
  BY DEF NetNext, NetStates
<1>2. /\ y \in Process /\ y.sdo = h.sdo /\ y.queue = h.queue /\ y.active = h.active
      /\ y.ses = h.ses /\ y.net = n /\ y.status = h.status /\ y.mp = h.mp
      /\ y.ds = h.ds
  BY <1>1 DEF Process
<1>3. g = NetEnter(y)
  BY <1>1 DEF NetHandle, NetExit
<1> HIDE DEF y, g, n
<1>4. SdoOK(y) /\ DsLinked(y)
  BY <1>2 DEF SdoOK, SdoEnabled, DsLinked, NetLinked
<1>5. /\ s \in Process /\ SdoOK(s) /\ SameAboveSdo(y, s) /\ SdoEnabled(s)
      /\ s.status = h.status \/ (s.status = "exited" /\ Doomed(h))
  <2>1. s \in Process /\ SdoOK(s) /\ SameAboveSdo(y, s) /\ SdoEnabled(s)
    BY <1>2, <1>4, EnableOK
  <2>2. s.status = IF /\ ~SdoEnabled(y)
                      /\ \E i \in 1..Len(y.queue) : HasAbortCallback(y.queue[i])
                      THEN "exited" ELSE y.status
    BY <1>2, EnableExact
  <2>3. ~SdoEnabled(y) => Closed(h)
    BY <1>2 DEF SdoEnabled, Closed, Process, SdoStates
  <2> QED
    BY <1>2, <2>1, <2>2, <2>3 DEF Doomed, WritesWait
<1> HIDE DEF s
<1>6. CASE n = "ST_NET_OPERATIONAL"
  <2>1. g = DsHandle(s, "EV_DS_NET_OPERATIONAL")
    BY <1>2, <1>3, <1>6 DEF NetEnter, s
  <2>2. DsLinked(s)
    BY <1>4, <1>5 DEF DsLinked, SameAboveSdo
  <2> QED
    BY <1>5, <2>1, <2>2, DsHandleOK DEF g
<1>7. CASE n = "ST_NET_PREOPERATIONAL"
  <2>1. g = SdoQueueAll(a, items)
    BY <1>2, <1>3, <1>7 DEF NetEnter, NetQueueSetup, s
  <2>2. /\ a \in Process /\ a.sdo = s.sdo /\ a.queue = s.queue /\ a.active = s.active
        /\ a.ses = s.ses /\ a.status = s.status /\ s.ses \in {0, 1}
    BY <1>5 DEF Process
  <2> HIDE DEF a
  <2>3. SdoOK(a) /\ SdoEnabled(a)
    BY <1>5, <2>2 DEF SdoOK, SdoEnabled
  <2>4. items \in Seq(Item) /\ \A i \in 1..Len(items) : items[i].ses = a.ses
    BY <2>2, ConfigItemsType
  <2> HIDE DEF items
  <2>5. SdoEnabled(g) /\ g.status = a.status
    BY <2>1, <2>2, <2>3, <2>4, QueueAllOK
  <2> QED
    BY <1>5, <2>2, <2>5 DEF g
<1> QED
  BY <1>6, <1>7 DEF n

\* Any other network event leaves the process running.
LEMMA NetExits ==
    ASSUME NEW h \in Process, SdoOK(h), NetLinked(h), NEW e
    PROVE  LET g == NetHandle(h, e)
           IN  g.status = h.status \/ (g.status = "exited" /\ Doomed(h))
<1> DEFINE n == NetNext(h.net, e)
           x == NetExit(h)
           y == [x EXCEPT !.net = n]
           g == NetHandle(h, e)
<1>1. CASE n = h.net
  BY <1>1 DEF NetHandle
<1>2. CASE n # h.net /\ n \in {"ST_NET_PREOPERATIONAL", "ST_NET_OPERATIONAL"}
  BY <1>2, NetOpens
<1>3. CASE n # h.net /\ n \notin {"ST_NET_PREOPERATIONAL", "ST_NET_OPERATIONAL"}
  <2>1. x \in Process /\ SdoOK(x) /\ x.status = h.status
    <3>1. x = h \/ x = DsHandle(h, "EV_DS_NET_INOPERATIONAL")
      BY DEF NetExit
    <3> HIDE DEF x
    <3> QED
      BY <3>1, DsHandleOK DEF NetLinked
  <2>2. g = NetEnter(y)
    BY <1>3 DEF NetHandle
  <2>3. n \in NetStates
    BY DEF NetNext, NetStates, Process
  <2> HIDE DEF x, n, g
  <2>4. /\ y \in Process /\ y.sdo = x.sdo /\ y.queue = x.queue /\ y.active = x.active
        /\ y.ses = x.ses /\ y.net = n /\ y.status = x.status
    BY <2>1, <2>3 DEF Process
  <2> HIDE DEF y
  <2>5. SdoOK(y)
    BY <2>1, <2>4 DEF SdoOK, SdoEnabled
  <2> DEFINE z == SdoHandle(y, "EV_NET_SDO_DISABLED")
  <2>6. z \in Process /\ z.status = y.status
    BY <2>4, <2>5, DisableOK
  <2>7. \/ g = y \/ g = z
        \/ \E c : g = [y EXCEPT !.nmt = c] \/ g = [z EXCEPT !.nmt = c]
    BY <1>3, <2>2, <2>4 DEF NetEnter, SendNmt
  <2> HIDE DEF z
  <2>8. g.status = y.status
    BY <2>4, <2>6, <2>7 DEF Process
  <2> QED
    BY <2>1, <2>4, <2>8 DEF g
<1> QED
  BY <1>1, <1>2, <1>3

\* The link is lost, by silence or because the drive has restarted.
LEMMA LinkLost ==
    ASSUME NEW h, NEW d \in Drive, Loop(h, d),
           NEW e, e \notin {"EV_NET_INTF_OPENED", "EV_NET_UPLOAD_COMPLETE"},
           h.net \in {"ST_NET_PREOPERATIONAL", "ST_NET_OPERATIONAL"},
           NetNext(h.net, e) = "ST_NET_UNKNOWN"
    PROVE  LET g == NetHandle(h, e) IN Loop(g, d) /\ g.status = h.status
<1> DEFINE x == NetExit(h)
           y == [x EXCEPT !.net = "ST_NET_UNKNOWN"]
           z == SdoHandle(y, "EV_NET_SDO_DISABLED")
           g == NetHandle(h, e)
<1>1. h \in Process /\ SdoOK(h) /\ NetLinked(h) /\ DsLinked(h) /\ WireOK(h)
  BY DEF Loop, Sound, Good, Linked, NetLinked, Steady
<1>2. x = h \/ x = DsHandle(h, "EV_DS_NET_INOPERATIONAL")
  BY DEF NetExit
<1>3. Sound(g) /\ g \in Process /\ SdoOK(g) /\ NetLinked(g) /\ g.net = "ST_NET_UNKNOWN"
  BY SoundNet DEF Loop
<1>4. g = NetEnter(y)
  BY DEF NetHandle
<1> HIDE DEF x, g
<1>5. x \in Process /\ SdoOK(x) /\ WireOK(x) /\ x.status = h.status
  <2>1. CASE x = h
    BY <1>1, <2>1, SentFrame
  <2>2. CASE x = DsHandle(h, "EV_DS_NET_INOPERATIONAL")
    BY <1>1, <2>2, DriveDs, DsHandleOK DEF Sent
  <2> QED
    BY <1>2, <2>1, <2>2
<1>6. /\ y \in Process /\ y.net = "ST_NET_UNKNOWN" /\ y.sdo = x.sdo /\ y.tx = x.tx
      /\ y.cb = x.cb /\ y.active = x.active /\ y.queue = x.queue /\ y.ses = x.ses
      /\ y.status = x.status
  BY <1>5 DEF Process, NetStates
<1> HIDE DEF y
<1>7. SdoOK(y)
  BY <1>5, <1>6 DEF SdoOK, SdoEnabled
<1>8. /\ z \in Process /\ z.queue = x.queue /\ z.active = x.active /\ z.tx = x.tx
      /\ z.cb = x.cb /\ z.status = x.status
      /\ z.sdo = IF SdoEnabled(x) THEN "ST_SDO_DISABLED" ELSE x.sdo
  BY <1>6, <1>7, DisableOK, DisableExact DEF SameWords, SdoEnabled
<1>9. g = [z EXCEPT !.nmt = "NMT_ENTERPREOPERATIONAL"]
  BY <1>4, <1>6 DEF NetEnter, SendNmt
<1> HIDE DEF z
<1>10. /\ g.queue = x.queue /\ g.active = x.active /\ g.tx = x.tx /\ g.cb = x.cb
       /\ g.sdo = z.sdo /\ g.status = x.status /\ g.nmt = "NMT_ENTERPREOPERATIONAL"
  BY <1>8, <1>9 DEF Process
<1>11. WireOK(g)
  BY <1>5, <1>8, <1>10 DEF WireOK, SdoEnabled
<1>12. Steady(g, d)
  BY <1>3, <1>11, Offline
<1>13. NmtOK(g, d)
  BY <1>3, <1>10 DEF NmtOK
<1> QED
  BY <1>3, <1>5, <1>10, <1>12, <1>13 DEF Loop, g

\* A drive found operational is told to enter the pre-operational state.
LEMMA LinkFound ==
    ASSUME NEW h, NEW d \in Drive, Loop(h, d), h.net = "ST_NET_UNKNOWN"
    PROVE  LET g == NetHandle(h, "EV_NET_OPERATIONAL")
           IN  Loop(g, d) /\ g.status = h.status
<1> DEFINE e == "EV_NET_OPERATIONAL"
           n == "ST_NET_ENTERPREOPERATIONAL"
           c == "NMT_ENTERPREOPERATIONAL"
           g == NetHandle(h, e)
<1>1. h \in Process /\ SdoOK(h) /\ NetLinked(h) /\ WireOK(h)
  BY DEF Loop, Sound, Good, Linked, Steady
<1>2. NetNext(h.net, e) = n
  BY DEF NetNext
<1>3. Sound(g) /\ g \in Process /\ SdoOK(g) /\ NetLinked(g) /\ g.net = n
  BY <1>2, SoundNet DEF Loop
<1>4. g = [[h EXCEPT !.net = n] EXCEPT !.nmt = c]
  BY <1>1, <1>2 DEF NetHandle, NetExit, NetEnter, SendNmt, Process
<1> HIDE DEF g
<1>5. /\ g.sdo = h.sdo /\ g.tx = h.tx /\ g.cb = h.cb /\ g.active = h.active
      /\ g.queue = h.queue /\ g.nmt = c /\ g.status = h.status
  BY <1>1, <1>4 DEF Process
<1>6. Steady(g, d)
  <2>1. WireOK(g)
    BY <1>1, <1>5 DEF WireOK
  <2> QED
    BY <1>3, <2>1, Offline
<1>7. NmtOK(g, d)
  BY <1>3, <1>5 DEF Loop, NmtOK
<1> QED
  BY <1>3, <1>5, <1>6, <1>7 DEF Loop, g

(***************************************************************************)
(* The drive is pre-operational: the queue of the old session is dropped   *)
(* and the configuration queued.                                           *)
(***************************************************************************)
LEMMA LinkConfigures ==
    ASSUME NEW h, NEW d \in Drive, Loop(h, d), h.tx = <<>>,
           h.net \in {"ST_NET_UNKNOWN", "ST_NET_ENTERPREOPERATIONAL"},
           d.nmt = "EV_NET_PREOPERATIONAL"
    PROVE  LET g == NetHandle(h, "EV_NET_PREOPERATIONAL")
           IN  Loop(g, d)
<1> DEFINE e == "EV_NET_PREOPERATIONAL"
           n == "ST_NET_PREOPERATIONAL"
           y == [h EXCEPT !.net = n]
           s == SdoHandle(y, "EV_NET_SDO_ENABLED")
           a == [s EXCEPT !.acked = 0]
           items == ConfigItems(s.ses)
           g == NetHandle(h, e)
<1>1. h \in Process /\ SdoOK(h) /\ NetLinked(h)
  BY DEF Loop, Sound, Good, Linked
<1>2. NetNext(h.net, e) = n
  BY DEF NetNext
<1>3. Sound(g) /\ g \in Process /\ SdoOK(g) /\ NetLinked(g) /\ g.net = n
  BY <1>2, SoundNet DEF Loop
<1>4. /\ y \in Process /\ y.sdo = h.sdo /\ y.queue = h.queue /\ y.active = h.active
      /\ y.ses = h.ses /\ y.net = n /\ y.tx = h.tx /\ y.status = h.status
      /\ y.nmt = h.nmt
  BY <1>1 DEF Process, NetStates
<1>5. g = SdoQueueAll(a, items)
  <2>1. g = NetEnter(y)
    BY <1>2 DEF NetHandle, NetExit
  <2> HIDE DEF y, g
  <2>2. g = NetQueueSetup(s)
    BY <1>4, <2>1 DEF NetEnter
  <2> QED
    BY <2>2 DEF NetQueueSetup
<1> HIDE DEF y, g
<1>6. SdoOK(y) /\ ~SdoEnabled(y)
  BY <1>1, <1>4 DEF SdoOK, SdoEnabled, NetLinked, SdoNetStates
<1>7. /\ s \in Process /\ SameAboveSdo(y, s) /\ SdoOK(s)
      /\ s.sdo = "ST_SDO_WAITING" /\ s.tx = <<>>
  BY <1>4, <1>6, EnableOK, EnableExact DEF SameWords
<1> HIDE DEF s
<1>8. /\ a \in Process /\ a.sdo = "ST_SDO_WAITING" /\ a.tx = <<>> /\ a.acked = 0
      /\ a.queue = s.queue /\ a.active = s.active /\ a.ses = s.ses
      /\ a.status = s.status /\ a.nmt = h.nmt /\ s.ses \in {0, 1}
  BY <1>4, <1>7 DEF Process, SameAboveSdo
<1> HIDE DEF a
<1>9. SdoOK(a)
  BY <1>7, <1>8 DEF SdoOK, SdoEnabled
<1>10. /\ items \in Seq(Item) /\ Len(items) = Len(Config)
       /\ \A i \in 1..Len(items) : items[i].ses = a.ses
  BY <1>8, ConfigItemsType
<1> HIDE DEF items
<1>11. items # <<>> /\ Len(Config) \in Nat
  BY <1>10, ConfigAssumption
<1>12. Sends(a, g, Head(items)) /\ g.queue = Tail(items)
  BY <1>5, <1>8, <1>9, <1>10, <1>11, QueueAllExact
<1>13. SameAboveSdo(a, g) /\ g.status = a.status
  BY <1>5, <1>8, <1>9, <1>10, QueueAllOK
<1>14. WireOK(g)
  BY <1>8, <1>10, <1>11, <1>12, SendLands
<1>15. Steady(g, d)
  BY <1>3, <1>14, Offline
<1>16. NmtOK(g, d)
  BY <1>3, <1>8, <1>13 DEF Loop, NmtOK, SameAboveSdo
<1> QED
  BY <1>3, <1>15, <1>16 DEF Loop, g

(***************************************************************************)
(* The drive has started: the DS402 machine asks for its state.  An SDO    *)
(* machine in error is enabled again.                                      *)
(***************************************************************************)
LEMMA LinkStarts ==
    ASSUME NEW h, NEW d \in Drive, Loop(h, d), SdoEnabled(h) \/ h.tx = <<>>,
           h.net = "ST_NET_STARTREMOTENODE", d.nmt = "EV_NET_OPERATIONAL"
    PROVE  LET g == NetHandle(h, "EV_NET_OPERATIONAL")
           IN  Loop(g, d)
<1> DEFINE e == "EV_NET_OPERATIONAL"
           n == "ST_NET_OPERATIONAL"
           y == [h EXCEPT !.net = n]
           s == SdoHandle(y, "EV_NET_SDO_ENABLED")
           g == NetHandle(h, e)
<1>1. h \in Process /\ SdoOK(h) /\ NetLinked(h) /\ WireOK(h)
  BY DEF Loop, Sound, Good, Linked, Steady
<1>2. NetNext(h.net, e) = n
  BY DEF NetNext
<1>3. Sound(g) /\ g \in Process /\ SdoOK(g) /\ NetLinked(g) /\ g.net = n
  BY <1>2, SoundNet DEF Loop
<1>4. /\ y \in Process /\ y.sdo = h.sdo /\ y.queue = h.queue /\ y.active = h.active
      /\ y.ses = h.ses /\ y.net = n /\ y.tx = h.tx
      /\ y.nmt = h.nmt /\ y.cb = h.cb /\ y.cw = h.cw /\ y.mp = h.mp /\ y.ds = h.ds
  BY <1>1 DEF Process, NetStates
<1>5. g = DsHandle(s, "EV_DS_NET_OPERATIONAL")
  <2>1. g = NetEnter(y)
    BY <1>2 DEF NetHandle, NetExit
  <2> HIDE DEF y, g
  <2> QED
    BY <1>4, <2>1 DEF NetEnter
<1> HIDE DEF y, g
<1>6. SdoOK(y) /\ DsLinked(y) /\ WireOK(y) /\ y.ds = "ST_DS_DISABLED"
  BY <1>1, <1>4 DEF SdoOK, SdoEnabled, DsLinked, NetLinked, WireOK
<1>7. s \in Process /\ SdoOK(s) /\ SameAboveSdo(y, s)
  BY <1>4, <1>6, EnableOK
<1>8. WireOK(s)
  <2>1. CASE SdoEnabled(y)
    BY <1>4, <1>6, <2>1, EnableExact
  <2>2. CASE ~SdoEnabled(y)
    <3>1. h.tx = <<>> /\ s.tx = y.tx
      BY <1>4, <2>2, EnableExact DEF SameWords, SdoEnabled
    <3> QED
      BY <1>4, <3>1 DEF WireOK
  <2> QED
    BY <2>1, <2>2
<1> HIDE DEF s
<1>9. DsLinked(s) /\ s.ds = "ST_DS_DISABLED" /\ s.nmt = h.nmt
  BY <1>4, <1>6, <1>7 DEF DsLinked, SameAboveSdo
<1>10. /\ Sent(s, g, d) /\ SameAboveDs(s, g)
       /\ g.ds = DsNext(s.ds, "EV_DS_NET_OPERATIONAL") /\ DsLinked(g)
  BY <1>5, <1>7, <1>8, <1>9, DriveDs, DsHandleOK
<1>11. g.ds = "ST_DS_UNKNOWN" /\ g.mp = "ST_MP_DISABLED"
  BY <1>9, <1>10 DEF DsNext, DsLinked
<1>12. Steady(g, d)
  BY <1>3, <1>10, <1>11
     DEF Steady, ModeOK, AckOK, HomedOK, AfterHoming, Sent
<1>13. NmtOK(g, d)
  BY <1>3, <1>9, <1>10 DEF Loop, NmtOK, SameAboveDs
<1> QED
  BY <1>3, <1>12, <1>13 DEF Loop, g

\* The NMT state the drive reports, unless it opens a session on a busy wire.
LEMMA LoopNmt ==
    ASSUME NEW h, NEW d \in Drive, Loop(h, d),
           LET g == NetHandle(h, d.nmt)
           IN  ~SdoEnabled(h) /\ SdoEnabled(g) => h.tx = <<>>
    PROVE  Loop(NetHandle(h, d.nmt), d)
<1> DEFINE g == NetHandle(h, d.nmt)
<1>1. /\ h \in Process /\ d.nmt \in {"EV_NET_PREOPERATIONAL", "EV_NET_OPERATIONAL"}
      /\ h.net \in NetStates \ {"ST_NET_DISABLED", "ST_NET_STOPPED"}
      /\ SdoOK(h) /\ NetLinked(h)
  BY DEF Loop, Sound, Good, Linked, Steady, Process, Drive
<1>2. CASE NetNext(h.net, d.nmt) = h.net
  <2>1. g = h
    BY <1>2 DEF NetHandle
  <2> QED
    BY <2>1
<1>3. CASE h.net = "ST_NET_UNKNOWN" /\ d.nmt = "EV_NET_OPERATIONAL"
  BY <1>3, LinkFound
<1>4. CASE /\ h.net \in {"ST_NET_UNKNOWN", "ST_NET_ENTERPREOPERATIONAL"}
           /\ d.nmt = "EV_NET_PREOPERATIONAL"
  <2>1. ~SdoEnabled(h)
    BY <1>1, <1>4 DEF NetLinked, SdoNetStates
  <2>2. NetNext(h.net, d.nmt) = "ST_NET_PREOPERATIONAL" /\ h.net # "ST_NET_PREOPERATIONAL"
    BY <1>4 DEF NetNext
  <2>3. h.tx = <<>>
    BY <1>1, <2>1, <2>2, NetOpens
  <2> QED
    BY <1>4, <2>3, LinkConfigures
<1>5. CASE h.net = "ST_NET_STARTREMOTENODE" /\ d.nmt = "EV_NET_OPERATIONAL"
  <2>1. NetNext(h.net, d.nmt) = "ST_NET_OPERATIONAL" /\ h.net # "ST_NET_OPERATIONAL"
    BY <1>5 DEF NetNext
  <2>2. SdoEnabled(h) \/ h.tx = <<>>
    BY <1>1, <2>1, NetOpens
  <2> QED
    BY <1>5, <2>2, LinkStarts
<1>6. CASE h.net = "ST_NET_OPERATIONAL" /\ d.nmt = "EV_NET_PREOPERATIONAL"
  <2>1. NetNext(h.net, d.nmt) = "ST_NET_UNKNOWN"
    BY <1>6 DEF NetNext
  <2> QED
    BY <1>6, <2>1, LinkLost
<1>7. \/ NetNext(h.net, d.nmt) = h.net
      \/ h.net = "ST_NET_UNKNOWN" /\ d.nmt = "EV_NET_OPERATIONAL"
      \/ /\ h.net \in {"ST_NET_UNKNOWN", "ST_NET_ENTERPREOPERATIONAL"}
         /\ d.nmt = "EV_NET_PREOPERATIONAL"
      \/ h.net = "ST_NET_STARTREMOTENODE" /\ d.nmt = "EV_NET_OPERATIONAL"
      \/ h.net = "ST_NET_OPERATIONAL" /\ d.nmt = "EV_NET_PREOPERATIONAL"
  BY <1>1 DEF NetNext, NetStates
<1> QED
  BY <1>2, <1>3, <1>4, <1>5, <1>6, <1>7

-----------------------------------------------------------------------------
\* The callback of the active item counts it, and the last one starts the drive.
LEMMA ConfirmedExact ==
    ASSUME NEW h \in Process
    PROVE  LET c == ItemConfirmed(h)
               last == h.active.cb = "final" /\ h.net = "ST_NET_PREOPERATIONAL"
           IN  /\ c.sdo = h.sdo /\ c.queue = h.queue /\ c.tx = h.tx /\ c.cb = h.cb
               /\ c.cw = h.cw /\ c.ds = h.ds /\ c.mp = h.mp /\ c.status = h.status
               /\ c.acked = IF h.active.cb \in {"config", "final"} THEN h.acked + 1
                                                                   ELSE h.acked
               /\ last => /\ c.net = "ST_NET_STARTREMOTENODE"
                          /\ c.nmt = "NMT_STARTREMOTENODE"
               /\ ~last => c.net = h.net /\ c.nmt = h.nmt
<1> DEFINE k == [h EXCEPT !.acked = @ + 1]
           y == [k EXCEPT !.net = "ST_NET_STARTREMOTENODE"]
           s == [y EXCEPT !.nmt = "NMT_STARTREMOTENODE"]
           e == "EV_NET_UPLOAD_COMPLETE"
           c == ItemConfirmed(h)
           last == h.active.cb = "final" /\ h.net = "ST_NET_PREOPERATIONAL"
<1>1. /\ k.sdo = h.sdo /\ k.queue = h.queue /\ k.tx = h.tx /\ k.cb = h.cb
      /\ k.cw = h.cw /\ k.ds = h.ds /\ k.mp = h.mp /\ k.status = h.status
      /\ k.acked = h.acked + 1 /\ k.net = h.net /\ k.nmt = h.nmt
  BY DEF Process
<1>2. /\ s.sdo = h.sdo /\ s.queue = h.queue /\ s.tx = h.tx /\ s.cb = h.cb
      /\ s.cw = h.cw /\ s.ds = h.ds /\ s.mp = h.mp /\ s.status = h.status
      /\ s.acked = h.acked + 1 /\ s.net = "ST_NET_STARTREMOTENODE"
      /\ s.nmt = "NMT_STARTREMOTENODE" /\ y.net = "ST_NET_STARTREMOTENODE"
  BY DEF Process
<1>3. CASE last
  <2>1. c = NetHandle(k, e)
    BY <1>3 DEF ItemConfirmed
  <2>2. NetNext(k.net, e) = "ST_NET_STARTREMOTENODE" /\ NetExit(k) = k /\ k.net # "ST_NET_STARTREMOTENODE"
    BY <1>1, <1>3 DEF NetNext, NetExit
  <2> HIDE DEF k, c
  <2>3. c = NetEnter(y)
    BY <2>1, <2>2 DEF NetHandle
  <2> HIDE DEF y
  <2>4. c = s
    BY <1>2, <2>3 DEF NetEnter, SendNmt
  <2> HIDE DEF s
  <2> QED
    BY <1>2, <1>3, <2>4 DEF c
<1>4. CASE ~last /\ h.active.cb = "final"
  <2>1. NetNext(k.net, e) = k.net
    BY <1>1, <1>4 DEF NetNext
  <2>2. c = k
    BY <1>4, <2>1 DEF ItemConfirmed, NetHandle
  <2> HIDE DEF k
  <2> QED
    BY <1>1, <1>4, <2>2
<1>5. CASE h.active.cb = "config"
  <2>1. c = k
    BY <1>5 DEF ItemConfirmed
  <2> HIDE DEF k
  <2> QED
    BY <1>1, <1>5, <2>1
<1>6. CASE h.active.cb \notin {"config", "final"}
  <2>1. c = h
    BY <1>6 DEF ItemConfirmed
  <2> QED
    BY <1>6, <2>1
<1> QED
  BY <1>3, <1>4, <1>5, <1>6

LEMMA SoundDispatch ==
    ASSUME NEW h, Sound(h), NEW r \in Frame, NEW answer
    PROVE  Sound(DispatchSdo(h, r, answer))
BY GoodDispatch, HandshakeDispatch, UploadDispatch DEF Sound

\* An answer finds the request it belongs to.
LEMMA AnswerMatches ==
    ASSUME NEW h \in Process, WireOK(h), h.tx # <<>>
    PROVE  LET f == [h EXCEPT !.tx = Tail(@)]
               r == Head(h.tx)
           IN  /\ f \in Process /\ f.tx = <<>> /\ f.intf = h.intf /\ f.nmt = h.nmt
               /\ f.cb = h.cb /\ f.status = h.status /\ SameMachines(h, f)
               /\ r = FrameOf(h.active) /\ r \in Frame /\ h.active \in Item
               /\ r.op = h.active.op /\ r.ob = h.active.ob
               /\ f.cb = r.op /\ f.cb # "none"
               /\ h.sdo \in {"ST_SDO_SENDING", "ST_SDO_DISABLED"}
<1> DEFINE rest == Tail(h.tx)
           f == [h EXCEPT !.tx = rest]
           r == FrameOf(h.active)
<1>1. /\ h.active # NoSdo /\ h.tx = <<r>> /\ h.cb = h.active.op
      /\ h.sdo \in {"ST_SDO_SENDING", "ST_SDO_DISABLED"}
  BY DEF WireOK
<1>2. h.active \in Item
  BY <1>1 DEF Process
<1>3. r \in Frame /\ r.op = h.active.op /\ r.ob = h.active.ob /\ h.active.op # "none"
  BY <1>2 DEF Item, Frame, FrameOf
<1> HIDE DEF r
<1>4. Head(h.tx) = r /\ rest = <<>> /\ rest \in Seq(Frame)
  BY <1>1, <1>3
<1> HIDE DEF rest
<1>5. /\ f \in Process /\ f.tx = rest /\ f.intf = h.intf /\ f.nmt = h.nmt
      /\ f.cb = h.cb /\ f.status = h.status /\ SameMachines(h, f)
  BY <1>4 DEF Process, SameMachines
<1> HIDE DEF f
<1> QED
  BY <1>1, <1>2, <1>3, <1>4, <1>5 DEF f, rest, r

(***************************************************************************)
(* The drive has taken the request and its confirmation arrives: the       *)
(* server's next step is for the drive as it now is.                       *)
(***************************************************************************)
LEMMA LoopConfirm ==
    ASSUME NEW h, NEW d \in Drive, Loop(h, d), h.tx # <<>>
    PROVE  LET g == DispatchSdo([h EXCEPT !.tx = Tail(@)], Head(h.tx), "confirm")
           IN  Loop(g, DriveTakes(d, Head(h.tx))) /\ g.status = h.status
<1> DEFINE f == [h EXCEPT !.tx = Tail(@)]
           r == Head(h.tx)
           c == ItemConfirmed(f)
           g == DispatchSdo(f, r, "confirm")
           t == DriveTakes(d, h.active)
           q == h.queue
<1>1. /\ h \in Process /\ SdoOK(h) /\ NetLinked(h) /\ WireOK(h) /\ Sound(h)
      /\ Steady(h, d) /\ q \in Seq(Item) /\ UploadOK(h)
  BY DEF Loop, Sound, Good, Linked, Steady, Process
<1>2. /\ f \in Process /\ f.tx = <<>> /\ f.intf = h.intf /\ f.nmt = h.nmt
      /\ f.cb = h.cb /\ f.status = h.status /\ SameMachines(h, f)
      /\ r = FrameOf(h.active) /\ r \in Frame /\ h.active \in Item
      /\ r.op = h.active.op /\ r.ob = h.active.ob
      /\ f.cb = r.op /\ f.cb # "none"
      /\ h.sdo \in {"ST_SDO_SENDING", "ST_SDO_DISABLED"}
  BY <1>1, AnswerMatches
<1> HIDE DEF f, r
<1>3. Sound(f) /\ Sound(g)
  BY <1>1, <1>2, SoundFrame, SoundDispatch
<1>4. PICK e \in {"EV_SDO_READ_RESPONSE", "EV_SDO_WRITE_RESPONSE"} :
         g = SdoFinish(c, e)
  <2>1. f.active # NoSdo /\ f.active.op = r.op /\ f.active.ob = r.ob
    BY <1>2 DEF SameMachines, Item, NoSdo
  <2>2. g = SdoConfirmCallback(f, r)
    BY <1>2 DEF DispatchSdo
  <2> HIDE DEF g
  <2> QED
    BY <2>1, <2>2 DEF SdoConfirmCallback
<1>5. Good(c)
  BY <1>3, GoodConfirmed DEF Sound
<1> DEFINE last == h.active.cb = "final" /\ h.net = "ST_NET_PREOPERATIONAL"
<1>6. /\ c.sdo = h.sdo /\ c.queue = q /\ c.tx = <<>>
      /\ c.cw = h.cw /\ c.ds = h.ds /\ c.mp = h.mp /\ c.status = h.status
      /\ c.acked = IF h.active.cb \in {"config", "final"} THEN h.acked + 1 ELSE h.acked
      /\ last => /\ c.net = "ST_NET_STARTREMOTENODE"
                 /\ c.nmt = "NMT_STARTREMOTENODE"
      /\ ~last => c.net = h.net /\ c.nmt = h.nmt
  BY <1>2, ConfirmedExact DEF SameMachines
<1> HIDE DEF c, g
<1>7. c \in Process /\ SdoOK(c)
  BY <1>5 DEF Good
<1>8. SameAboveSdo(c, g) /\ g.status = c.status /\ g \in Process
  BY <1>4, <1>7, FinishOK
<1> DEFINE next == h.sdo = "ST_SDO_SENDING" /\ q # <<>>
<1>9. /\ next => Sends(c, g, Head(q)) /\ g.queue = Tail(q)
      /\ ~next => /\ g.active = NoSdo /\ g.queue = q /\ SameWords(c, g)
                  /\ h.sdo # "ST_SDO_SENDING" => g.sdo = h.sdo
                  /\ h.sdo = "ST_SDO_SENDING" => g.sdo = "ST_SDO_WAITING"
  BY <1>4, <1>6, <1>7, FinishExact
<1>10. t \in Drive /\ t.nmt = d.nmt /\ t.homed = d.homed
  BY <1>2, TakesFacts
<1> HIDE DEF t
<1>11. h.sdo = "ST_SDO_SENDING" =>
          /\ h.mp \in AfterHoming => EndsPP(q, t.mode)
          /\ h.ds \notin {"ST_DS_DISABLED", "ST_DS_UNKNOWN"} =>
                (t.ack => h.cw = NewSetpoint)
  <2>1. h.sdo = "ST_SDO_SENDING" => Taken(h, d) = t /\ Alive(h)
    BY DEF Taken, Alive, t
  <2> QED
    BY <1>1, <2>1 DEF Steady, ModeOK, AckOK, HoldsPP, AckSeen
<1>12. g.mp = h.mp /\ g.ds = h.ds
  BY <1>6, <1>8 DEF SameAboveSdo
<1>13. WireOK(g) /\ ModeOK(g, t) /\ AckOK(g, t)
  <2>1. CASE next
    <3>1. /\ WireOK(g)
          /\ EndsPP(q, t.mode) => HoldsPP(g, t)
          /\ (t.ack => c.cw = NewSetpoint) => AckSeen(g, t)
      BY <1>1, <1>6, <1>9, <1>10, <2>1, SendLands
    <3> QED
      BY <1>6, <1>11, <1>12, <2>1, <3>1 DEF ModeOK, AckOK
  <2>2. CASE h.sdo = "ST_SDO_SENDING" /\ q = <<>>
    <3>1. /\ g.sdo = "ST_SDO_WAITING" /\ g.tx = <<>> /\ g.cw = h.cw /\ g.queue = q
          /\ Taken(g, t) = t
      BY <1>6, <1>9, <2>2 DEF SameWords, Taken
    <3> QED
      BY <1>11, <1>12, <2>2, <3>1 DEF WireOK, ModeOK, AckOK, HoldsPP, AckSeen
  <2>3. CASE h.sdo = "ST_SDO_DISABLED"
    <3>1. g.sdo = "ST_SDO_DISABLED" /\ g.tx = <<>>
      BY <1>6, <1>9, <2>3 DEF SameWords
    <3> QED
      BY <3>1 DEF WireOK, ModeOK, AckOK, Alive
  <2> QED
    BY <1>2, <2>1, <2>2, <2>3
<1>14. Steady(g, t)
  <2>1. HomedOK(g, t)
    BY <1>1, <1>10, <1>12 DEF Steady, HomedOK
  <2> QED
    BY <1>3, <1>13, <2>1 DEF Steady, Sound, Good, Linked, NetLinked
<1>15. g.net = c.net /\ g.nmt = c.nmt /\ g.acked = c.acked
  BY <1>8 DEF SameAboveSdo
<1>16. NmtOK(g, t) /\ g.net \notin {"ST_NET_DISABLED", "ST_NET_STOPPED"}
  BY <1>6, <1>10, <1>15 DEF Loop, NmtOK
<1>17. DriveTakes(d, r) = t
  BY <1>2, TakesFrame DEF t
<1> QED
  BY <1>3, <1>6, <1>8, <1>14, <1>16, <1>17 DEF Loop, g, f, r

\* The drive refuses a request without callbacks: the SDO machine rests.
LEMMA LoopRefuse ==
    ASSUME NEW h, NEW d \in Drive, Loop(h, d), h.tx # <<>>,
           ~HasAbortCallback(h.active)
    PROVE  LET g == DispatchSdo([h EXCEPT !.tx = Tail(@)], Head(h.tx), "abort")
           IN  Loop(g, d) /\ g.status = h.status
<1> DEFINE f == [h EXCEPT !.tx = Tail(@)]
           r == Head(h.tx)
           e == "EV_SDO_ABORT_RESPONSE"
           g == DispatchSdo(f, r, "abort")
<1>1. h \in Process /\ WireOK(h) /\ Sound(h) /\ Steady(h, d) /\ UploadOK(h)
  BY DEF Loop, Sound, Good, Steady
<1>2. /\ f \in Process /\ f.tx = <<>> /\ f.intf = h.intf /\ f.nmt = h.nmt
      /\ f.cb = h.cb /\ f.status = h.status /\ SameMachines(h, f)
      /\ r \in Frame /\ h.active \in Item
      /\ r.op = h.active.op /\ r.ob = h.active.ob
      /\ f.cb = r.op /\ f.cb # "none"
      /\ h.sdo \in {"ST_SDO_SENDING", "ST_SDO_DISABLED"}
  BY <1>1, AnswerMatches
<1> HIDE DEF f, r
<1>3. Sound(f) /\ Sound(g)
  BY <1>1, <1>2, SoundFrame, SoundDispatch
<1>4. g = SdoFinish(f, e)
  <2>1. f.active # NoSdo /\ f.active.ob = r.ob /\ ~HasAbortCallback(f.active)
    BY <1>2 DEF SameMachines, Item, NoSdo
  <2>2. g = SdoAbortCallback(f, r)
    BY <1>2 DEF DispatchSdo
  <2> HIDE DEF g
  <2> QED
    BY <2>1, <2>2 DEF SdoAbortCallback
<1> HIDE DEF g
<1>5. SdoOK(f)
  BY <1>3 DEF Sound, Good
<1>6. SameAboveSdo(f, g) /\ g.status = f.status
  BY <1>2, <1>4, <1>5, FinishOK
<1>7. /\ g.queue = f.queue /\ SameWords(f, g)
      /\ f.sdo # "ST_SDO_SENDING" => g.sdo = f.sdo
      /\ f.sdo = "ST_SDO_SENDING" => g.sdo = "ST_SDO_ERROR"
  BY <1>2, <1>4, <1>5, FinishExact
<1>8. /\ g.tx = <<>> /\ g.sdo \in {"ST_SDO_ERROR", "ST_SDO_DISABLED"}
      /\ g.mp = h.mp /\ g.net = h.net /\ g.nmt = h.nmt /\ g.queue = h.queue
  BY <1>2, <1>6, <1>7 DEF SameMachines, SameWords, SameAboveSdo
<1>9. WireOK(g) /\ ~Alive(g)
  BY <1>8 DEF WireOK, Alive
<1>10. Steady(g, d)
  BY <1>1, <1>3, <1>8, <1>9
     DEF Steady, Sound, Good, Linked, NetLinked, ModeOK, AckOK, HomedOK
<1>11. NmtOK(g, d)
  BY <1>8 DEF Loop, NmtOK
<1> QED
  BY <1>2, <1>3, <1>6, <1>8, <1>10, <1>11 DEF Loop, g, f, r

-----------------------------------------------------------------------------
\* The drive as seen through the request it is about to take.
LEMMA TakesAlike ==
    ASSUME NEW d \in Drive, NEW t \in Drive, t.mode = d.mode, NEW x \in Item
    PROVE  /\ DriveTakes(t, x).mode = DriveTakes(d, x).mode
           /\ t.ds = d.ds /\ t.ack = d.ack =>
                 DriveTakes(t, x).ack = DriveTakes(d, x).ack
<1>1. CASE x.ob = "control"
  <2>1. DriveTakes(d, x) = DriveTakesWord(d, x.val) /\ DriveTakes(t, x) = DriveTakesWord(t, x.val)
    BY <1>1 DEF DriveTakes
  <2>2. \A k \in Drive : /\ DriveTakesWord(k, x.val).mode = k.mode
                         /\ DriveTakesWord(k, x.val).ack =
                               (/\ k.ds = "EV_DS_OPERATION_ENABLED" /\ k.mode = "pp"
                                /\ x.val = NewSetpoint)
    BY DEF DriveTakesWord, Drive
  <2> QED
    BY <2>1, <2>2
<1>2. CASE x.ob = "mode"
  BY <1>2 DEF DriveTakes, Drive
<1>3. CASE x.ob = "clear_fault"
  BY <1>3 DEF DriveTakes, Drive
<1>4. CASE x.ob \notin {"control", "mode", "clear_fault"}
  BY <1>4 DEF DriveTakes
<1> QED
  BY <1>1, <1>2, <1>3, <1>4

(***************************************************************************)
(* The drive changes by itself: its mode stays, a setpoint stays pending   *)
(* or its state is not OPERATION_ENABLED, and it stays homed.              *)
(***************************************************************************)
LEMMA LoopDrive ==
    ASSUME NEW h, NEW d \in Drive, Loop(h, d), NEW t \in Drive, Acks(t),
           t.mode = d.mode,
           (t.ds = d.ds /\ t.ack = d.ack) \/ t.ds # "EV_DS_OPERATION_ENABLED",
           HomedOK(h, t), NmtOK(h, t)
    PROVE  Loop(h, t)
<1>1. h \in Process /\ SdoOK(h) /\ Steady(h, d)
  BY DEF Loop, Steady
<1>2. h.sdo = "ST_SDO_SENDING" => h.active \in Item
  BY <1>1 DEF SdoOK, Process
<1>3. Taken(h, t).mode = Taken(h, d).mode
  BY <1>2, TakesAlike DEF Taken
<1>4. AckSeen(h, d) => AckSeen(h, t)
  <2>1. CASE t.ds = d.ds /\ t.ack = d.ack
    BY <1>2, <2>1, TakesAlike DEF Taken, AckSeen
  <2>2. CASE t.ds # "EV_DS_OPERATION_ENABLED"
    BY <1>1, <2>2, NotEnabledNotPending
  <2> QED
    BY <2>1, <2>2
<1>5. Steady(h, t)
  BY <1>1, <1>3, <1>4 DEF Steady, ModeOK, AckOK, HoldsPP
<1> QED
  BY <1>5 DEF Loop

(***************************************************************************)
(* The request on the wire is lost: what the drive made of it does not     *)
(* matter until the link is set up again.                                  *)
(***************************************************************************)
LEMMA LoopLose ==
    ASSUME NEW h, NEW d, Loop(h, d), h.tx # <<>>, NEW t,
           t.nmt = d.nmt, t.homed = d.homed
    PROVE  LET g == [h EXCEPT !.tx = Tail(@)] IN Loop(g, t) /\ g.status = h.status
<1> DEFINE g == [h EXCEPT !.tx = Tail(@)]
<1>1. h \in Process /\ WireOK(h)
  BY DEF Loop, Steady
<1>2. /\ g \in Process /\ g.tx = <<>> /\ g.intf = h.intf /\ g.nmt = h.nmt
      /\ g.status = h.status /\ SameMachines(h, g)
      /\ h.sdo \in {"ST_SDO_SENDING", "ST_SDO_DISABLED"}
  BY <1>1, AnswerMatches
<1> HIDE DEF g
<1>3. Sound(g)
  BY <1>2, SoundFrame DEF Loop
<1>4. WireOK(g) /\ ~Alive(g)
  BY <1>2 DEF WireOK, Alive, SameMachines
<1>5. Steady(g, t)
  BY <1>2, <1>3, <1>4 DEF Loop, Steady, Sound, Good, Linked, NetLinked, ModeOK,
     AckOK, HomedOK, SameMachines
<1>6. NmtOK(g, t)
  BY <1>2 DEF Loop, NmtOK, SameMachines
<1> QED
  BY <1>2, <1>3, <1>5, <1>6 DEF Loop, SameMachines, g

\* The drive restarts with nothing on the bus.
LEMMA LoopRestart ==
    ASSUME NEW h, NEW d, Loop(h, d)
    PROVE  LET g == [h EXCEPT !.tx = <<>>, !.nmt = "none"]
           IN  Loop(g, PowerOn) /\ g.status = h.status
<1> DEFINE g == [h EXCEPT !.tx = <<>>, !.nmt = "none"]
<1>1. h \in Process /\ SdoOK(h) /\ <<>> \in Seq(Frame)
  BY DEF Loop, Steady
<1>2. /\ g \in Process /\ g.tx = <<>> /\ g.intf = h.intf /\ g.nmt = "none"
      /\ g.status = h.status /\ SameMachines(h, g)
  BY <1>1 DEF Process, NmtCommands, SameMachines
<1> HIDE DEF g
<1>3. Sound(g)
  BY <1>2, SoundFrame DEF Loop
<1>4. /\ PowerOn.mode = "pp" /\ PowerOn.ack = FALSE
      /\ PowerOn.nmt = "EV_NET_PREOPERATIONAL"
  BY DEF PowerOn
<1>5. Alive(g) => /\ g.sdo = "ST_SDO_WAITING" /\ g.queue = <<>>
                  /\ Taken(g, PowerOn) = PowerOn
  BY <1>1, <1>2 DEF Alive, SdoOK, Taken, SameMachines
<1>6. EndsPP(<<>>, "pp")
  BY DEF EndsPP
<1>7. ModeOK(g, PowerOn) /\ AckOK(g, PowerOn)
  BY <1>4, <1>5, <1>6 DEF ModeOK, AckOK, HoldsPP, AckSeen
<1>8. Steady(g, PowerOn)
  BY <1>2, <1>3, <1>4, <1>7
     DEF Steady, Sound, Good, Linked, NetLinked, HomedOK, WireOK
<1>9. NmtOK(g, PowerOn)
  BY <1>2, <1>4 DEF Loop, NmtOK, SameMachines
<1> QED
  BY <1>2, <1>3, <1>8, <1>9 DEF Loop, SameMachines, g

\* The handlers keep the invariants of libsled, and these leave it running.
LEMMA SoundReport ==
    ASSUME NEW h, Sound(h), NEW d \in Drive
    PROVE  LET g == ReportReceived(h, d) IN Sound(g) /\ g.status = h.status
<1> DEFINE bit == IF d.mode = "homing" THEN d.homed ELSE d.ack
           x == StatusReceived(h, d.ds)
           y == VoltageReceived(x, d.voltage)
           g == ReportReceived(h, d)
           Fit(k) == k \in Process /\ SdoOK(k) /\ DsLinked(k) /\ k.status = h.status
<1>1. /\ d.ds \in StatusWords /\ d.voltage \in BOOLEAN /\ d.mode \in DriveModes
      /\ bit \in BOOLEAN
  BY DEF Drive, StatusWords, DriveModes
<1>2. g = Tpdo1Received(h, d.ds, d.voltage, d.mode, bit)
  BY DEF ReportReceived
<1>3. Sound(g)
  <2> HIDE DEF g, bit
  <2> QED
    BY <1>1, <1>2, GoodTpdo1, HandshakeTpdo1, UploadTpdo1 DEF Sound
<1>4. Fit(x)
  <2>1. x = h \/ x = DsHandle(h, d.ds)
    BY DEF StatusReceived
  <2> HIDE DEF x
  <2> QED
    BY <2>1, DsHandleOK DEF Sound, Good, Linked, NetLinked
<1>5. g = ModeReceived(y, d.mode, bit)
  BY <1>2 DEF Tpdo1Received
<1> HIDE DEF x
<1>6. Fit(y)
  <2>1. \E e : y = DsHandle(x, e)
    BY DEF VoltageReceived
  <2> HIDE DEF y
  <2> QED
    BY <1>4, <2>1, DsHandleOK
<1> HIDE DEF y, g, bit
<1>7. g.status = h.status
  <2>1. g = y \/ \E e, k : g = MpHandle(MpHandle(y, e), k)
    BY <1>5 DEF ModeReceived
  <2>2. ASSUME NEW e, NEW k
        PROVE  MpHandle(MpHandle(y, e), k).status = h.status
    <3>1. LET m == MpHandle(y, e) IN m \in Process /\ SdoOK(m) /\ m.status = h.status
      BY <1>6, MpHandleOK
    <3> QED
      BY <3>1, MpHandleOK
  <2> QED
    BY <1>6, <2>1, <2>2
<1> QED
  BY <1>3, <1>7 DEF g

LEMMA SoundExecute ==
    ASSUME NEW h, Sound(h), NEW n \in 0..Len(ProfileFields), NEW load \in BOOLEAN
    PROVE  LET g == ProfileExecute(h, n, load) IN Sound(g) /\ g.status = h.status
<1> DEFINE w == WritePendingChanges(h, n, load)
           t == SdoQueueWrite(w, "motion_task", 0)
           c == SdoQueueWrite(t, "control", NewSetpoint)
           g == ProfileExecute(h, n, load)
<1>1. Sound(g)
  BY GoodExecute, HandshakeExecute, UploadExecute DEF Sound
<1>2. g = h \/ g = MpHandle(c, "EV_MP_SETPOINT_SET")
  BY DEF ProfileExecute
<1>3. w \in Process /\ SdoOK(w) /\ w.status = h.status
  BY GoodWritePending, PendingStatus DEF Sound, Good
<1> HIDE DEF w, g
<1>4. t \in Process /\ SdoOK(t) /\ t.status = h.status
  <2>1. "motion_task" \in Object /\ 0 \in Nat
    BY WordsType
  <2>2. Queued(w, t)
    BY <1>3, <2>1, QueueWriteOK
  <2> QED
    BY <1>3, <2>2 DEF Queued
<1> HIDE DEF t
<1>5. c \in Process /\ SdoOK(c) /\ c.status = h.status
  BY <1>4, QueueWriteOK, WordsType DEF Queued
<1> HIDE DEF c
<1>6. g.status = h.status
  BY <1>2, <1>5, MpHandleOK
<1> QED
  BY <1>1, <1>6 DEF g

LEMMA SoundPending ==
    ASSUME NEW h, Sound(h), NEW n \in 0..Len(ProfileFields), NEW load \in BOOLEAN
    PROVE  LET g == WritePendingChanges(h, n, load) IN Sound(g) /\ g.status = h.status
<1> DEFINE g == WritePendingChanges(h, n, load)
<1>1. Good(g) /\ SameAboveSdo(h, g) /\ g.status = h.status
  BY GoodWritePending, PendingStatus DEF Sound
<1>2. Passes(h, g)
  BY PendingWords DEF Sound, Handshake
<1>3. UploadOK(g)
  BY UploadWritePending DEF Sound
<1> HIDE DEF g
<1>4. Handshake(g)
  BY <1>1, <1>2, HandshakePasses DEF Sound, SameAboveSdo
<1> QED
  BY <1>1, <1>3, <1>4 DEF Sound, g

(***************************************************************************)
(* An answer ends the process only if it does not belong to the active     *)
(* item, or if it refuses an item with callbacks.                          *)
(***************************************************************************)
LEMMA DispatchExits ==
    ASSUME NEW h, Sound(h), NEW r \in Frame, NEW answer \in {"confirm", "abort"}
    PROVE  LET g == DispatchSdo(h, r, answer)
           IN  \/ g.status \in {h.status, "aborted"}
               \/ g.status = "exited" /\ answer = "abort" /\ HasAbortCallback(h.active)
<1> DEFINE a == [h EXCEPT !.status = "aborted"]
           x == [h EXCEPT !.status = "exited"]
           c == ItemConfirmed(h)
           g == DispatchSdo(h, r, answer)
<1>1. h \in Process /\ SdoOK(h) /\ Good(h)
  BY DEF Sound, Good
<1>2. a.status = "aborted" /\ x.status = "exited"
  BY <1>1 DEF Process
<1>3. c \in Process /\ SdoOK(c) /\ c.status = h.status
  BY <1>1, GoodConfirmed, ConfirmedExact DEF Good
<1> HIDE DEF a, x, c
<1>4. /\ SdoFinish(c, "EV_SDO_READ_RESPONSE").status = h.status
      /\ SdoFinish(c, "EV_SDO_WRITE_RESPONSE").status = h.status
      /\ SdoFinish(h, "EV_SDO_ABORT_RESPONSE").status = h.status
  BY <1>1, <1>3, FinishOK
<1>5. SdoConfirmCallback(h, r).status \in {h.status, "aborted"}
  BY <1>2, <1>4 DEF SdoConfirmCallback, a, c
<1>6. \/ SdoAbortCallback(h, r).status \in {h.status, "aborted"}
      \/ SdoAbortCallback(h, r).status = "exited" /\ HasAbortCallback(h.active)
  BY <1>2, <1>4 DEF SdoAbortCallback, a, x
<1>7. \/ g = h
      \/ g = SdoConfirmCallback(h, r)
      \/ g = SdoAbortCallback(h, r) /\ answer = "abort"
  BY DEF DispatchSdo
<1> HIDE DEF g
<1> QED
  BY <1>5, <1>6, <1>7 DEF g

\* A status report.
LEMMA LoopReport ==
    ASSUME NEW h, NEW d \in Drive, Acks(d), Loop(h, d)
    PROVE  LET g == ReportReceived(h, d) IN Loop(g, d) /\ g.status = h.status
<1> DEFINE g == ReportReceived(h, d)
<1>1. Sound(h) /\ Steady(h, d) /\ NetLinked(h)
  BY DEF Loop, Sound, Good, Linked
<1>2. CASE h.net # "ST_NET_OPERATIONAL"
  <2>1. h.ds = "ST_DS_DISABLED" /\ h.mp = "ST_MP_DISABLED"
    BY <1>1, <1>2 DEF NetLinked, DsLinked
  <2> QED
    BY <2>1, ReportIgnored
<1>3. CASE h.net = "ST_NET_OPERATIONAL"
  <2>1. Steady(g, d) /\ SameLink(h, g)
    BY <1>1, SteadyReport
  <2>4. Sound(g)
    BY <1>1, SoundReport
  <2> HIDE DEF g
  <2>5. NmtOK(g, d)
    BY <1>3, <2>1 DEF Loop, NmtOK, SameLink
  <2> QED
    BY <1>3, <2>1, <2>4, <2>5 DEF Loop, SameLink, g
<1> QED
  BY <1>2, <1>3

\* A motion command of a client.
LEMMA LoopExecute ==
    ASSUME NEW h, NEW d \in Drive, Loop(h, d), h.mp = "ST_MP_PP_IDLE",
           NEW n \in 0..Len(ProfileFields), NEW load \in BOOLEAN
    PROVE  LET g == ProfileExecute(h, n, load) IN Loop(g, d) /\ g.status = h.status
<1> DEFINE g == ProfileExecute(h, n, load)
<1>1. Sound(h) /\ Good(h) /\ Steady(h, d) /\ NetLinked(h)
  BY DEF Loop, Sound, Good, Linked
<1>2. h.net = "ST_NET_OPERATIONAL"
  BY <1>1 DEF NetLinked, DsLinked
<1>3. Steady(g, d) /\ SameLink(h, g)
  BY <1>1, SteadyExecute
<1>4. Sound(g)
  BY <1>1, GoodExecute, HandshakeExecute, UploadExecute DEF Sound
<1> HIDE DEF g
<1>5. NmtOK(g, d)
  BY <1>2, <1>3 DEF Loop, NmtOK, SameLink
<1> QED
  BY <1>2, <1>3, <1>4, <1>5 DEF Loop, SameLink, g

\* The NMT command is gone from the bus.
LEMMA LoopSilent ==
    ASSUME NEW h, NEW d, Loop(h, d)
    PROVE  LET g == [h EXCEPT !.nmt = "none"]
           IN  Loop(g, d) /\ NmtOK(g, d) /\ g.status = h.status
<1> DEFINE g == [h EXCEPT !.nmt = "none"]
<1>1. h \in Process /\ WireOK(h)
  BY DEF Loop, Steady
<1>2. /\ g \in Process /\ g.intf = h.intf /\ SameMachines(h, g) /\ g.tx = h.tx
      /\ g.cb = h.cb /\ g.status = h.status /\ g.nmt = "none"
  BY <1>1 DEF Process, NmtCommands, SameMachines
<1> HIDE DEF g
<1>3. Sound(g)
  BY <1>2, SoundFrame DEF Loop
<1>4. Carries(h, g, d)
  BY <1>1, <1>2, SentFrame DEF SameMachines
<1>5. WireOK(g) /\ ModeOK(g, d) /\ AckOK(g, d) /\ HomedOK(g, d)
  BY <1>2, <1>4 DEF Loop, Steady, ModeOK, AckOK, HomedOK, Carries, Sent, SameMachines
<1>6. NmtOK(g, d)
  BY <1>2 DEF Loop, NmtOK, SameMachines
<1> QED
  BY <1>2, <1>3, <1>5, <1>6
     DEF Loop, Steady, Sound, Good, Linked, NetLinked, SameMachines, g

\* Profiles are written, whatever state the machines are in.
LEMMA LoopPending ==
    ASSUME NEW h, NEW d \in Drive, Loop(h, d),
           NEW n \in 0..Len(ProfileFields), NEW load \in BOOLEAN
    PROVE  Loop(WritePendingChanges(h, n, load), d)
<1> DEFINE g == WritePendingChanges(h, n, load)
<1>1. Sound(h) /\ Good(h) /\ Steady(h, d) /\ WireOK(h)
  BY DEF Loop, Sound, Steady
<1>2. Sound(g)
  BY <1>1, SoundPending
<1>3. SameAboveSdo(h, g) /\ Carries(h, g, d)
  BY <1>1, GoodWritePending, PendingCarries
<1> HIDE DEF g
<1>4. WireOK(g) /\ ModeOK(g, d) /\ AckOK(g, d) /\ HomedOK(g, d)
  BY <1>1, <1>3 DEF Steady, ModeOK, AckOK, HomedOK, Carries, Sent, SameAboveSdo
<1>5. Steady(g, d)
  BY <1>2, <1>4 DEF Steady, Sound, Good, Linked, NetLinked
<1>6. NmtOK(g, d) /\ g.net = h.net
  BY <1>3 DEF Loop, NmtOK, SameAboveSdo
<1> QED
  BY <1>2, <1>5, <1>6 DEF Loop, g

-----------------------------------------------------------------------------
(***************************************************************************)
(* The inductive invariant of the closed loop.  What concerns the process  *)
(* alone holds throughout; what relates it to the drive holds until an     *)
(* answer has outlived its session.                                        *)
(***************************************************************************)
Known(h, u) == Doomed(h) => "writes" \in u

LInv == /\ drive \in Drive /\ Acks(drive)
        /\ Sound(host) /\ Known(host, hurt) /\ StaysUp
        /\ "late" \notin hurt => Loop(host, drive)

\* A callback that ends the process leaves the rest as it was.
LEMMA SoundSettle ==
    ASSUME Sound(host), NEW g, Sound(g)
    PROVE  Sound(Settle(g))
BY GoodSettle, HandshakeSettle, UploadSettle DEF Sound, IInv, SInv, UInv

LEMMA LoopSettle ==
    ASSUME NEW d, Loop(host, d), NEW g, g \in Process, g.status # "running"
    PROVE  Loop(Settle(g), d)
<1> DEFINE x == [host EXCEPT !.status = g.status]
<1>1. Settle(g) = x
  BY DEF Settle
<1>2. host \in Process /\ g.status \in {"running", "exited", "aborted"}
  BY DEF Loop, Steady, Process
<1>3. /\ x \in Process /\ x.intf = host.intf /\ SameMachines(host, x)
      /\ x.tx = host.tx /\ x.cb = host.cb /\ x.nmt = host.nmt
  BY <1>2 DEF Process, SameMachines
<1> HIDE DEF x
<1> QED
  BY <1>1, <1>3, LoopFrame

\* What a handler that leaves the status alone, or ends the process, may do.
LEMMA SettleStatus ==
    ASSUME host \in Process, NEW g
    PROVE  Settle(g).status = g.status
BY DEF Settle, Process

\* What is noted of a step.
LEMMA Noted ==
    ASSUME NEW kinds, Note(kinds)
    PROVE  /\ hurt \subseteq hurt' /\ kinds \subseteq hurt'
           /\ Known(host', hurt')
           /\ Closed(host) /\ ~Closed(host') /\ host.tx # <<>> => "late" \in hurt'
BY DEF Note, Known

\* The drive refuses a request with callbacks: the process exits.
LEMMA RefuseExits ==
    ASSUME NEW h, NEW d, Loop(h, d), h.tx # <<>>, HasAbortCallback(h.active)
    PROVE  LET g == DispatchSdo([h EXCEPT !.tx = Tail(@)], Head(h.tx), "abort")
           IN  g \in Process /\ g.status = "exited"
<1> DEFINE f == [h EXCEPT !.tx = Tail(@)]
           r == Head(h.tx)
           x == [f EXCEPT !.status = "exited"]
           g == DispatchSdo(f, r, "abort")
<1>1. h \in Process /\ WireOK(h)
  BY DEF Loop, Steady
<1>2. /\ f \in Process /\ SameMachines(h, f) /\ h.active \in Item
      /\ r.ob = h.active.ob /\ f.cb # "none"
  BY <1>1, AnswerMatches
<1> HIDE DEF f, r
<1>3. f.active # NoSdo /\ f.active.ob = r.ob /\ HasAbortCallback(f.active)
  BY <1>2 DEF SameMachines, Item, NoSdo
<1>4. g = x
  BY <1>2, <1>3 DEF DispatchSdo, SdoAbortCallback
<1>5. x \in Process /\ x.status = "exited"
  BY <1>2 DEF Process
<1> QED
  BY <1>4, <1>5 DEF f, r

\* A request leaves the wire.
LEMMA WireTail ==
    ASSUME NEW h \in Process, h.tx # <<>>
    PROVE  LET f == [h EXCEPT !.tx = Tail(@)]
           IN  /\ f \in Process /\ f.intf = h.intf /\ SameMachines(h, f)
               /\ f.status = h.status /\ Head(h.tx) \in Frame
<1>1. h.tx \in Seq(Frame)
  BY DEF Process
<1>2. Head(h.tx) \in Frame /\ Tail(h.tx) \in Seq(Frame)
  BY <1>1
<1> QED
  BY <1>2 DEF Process, SameMachines

LEMMA LoopInitial == LoopInit => LInv
<1> SUFFICES ASSUME LoopInit PROVE LInv
  OBVIOUS
<1> DEFINE o == [Created EXCEPT !.intf = "ST_INTF_OPENING"]
           i == [o EXCEPT !.handle = TRUE, !.reading = TRUE]
           j == [i EXCEPT !.intf = "ST_INTF_OPENED"]
           y == [j EXCEPT !.net = "ST_NET_UNKNOWN"]
           g == [y EXCEPT !.nmt = "NMT_ENTERPREOPERATIONAL"]
<1>1. host = g
  <2>1. /\ Created.intf = "ST_INTF_CLOSED" /\ i.intf = "ST_INTF_OPENING"
        /\ j.intf = "ST_INTF_OPENED" /\ j.net = "ST_NET_DISABLED"
        /\ y.net = "ST_NET_UNKNOWN" /\ y.sdo = "ST_SDO_DISABLED"
    BY DEF Created
  <2>2. /\ IntfNext("ST_INTF_CLOSED", "EV_INTF_OPEN") = "ST_INTF_OPENING"
        /\ IntfNext("ST_INTF_OPENING", "EV_INTF_OPENED") = "ST_INTF_OPENED"
    BY DEF IntfNext
  <2>3. IntfOpen(Created, TRUE) = IntfHandleDone(i, "EV_INTF_OPENED")
    BY <2>1, <2>2 DEF IntfOpen
  <2> HIDE DEF i
  <2>4. IntfHandleDone(i, "EV_INTF_OPENED") = NetHandle(j, "EV_NET_INTF_OPENED")
    BY <2>1, <2>2 DEF IntfHandleDone
  <2> HIDE DEF j
  <2>5. NetHandle(j, "EV_NET_INTF_OPENED") = NetEnter(y)
    BY <2>1 DEF NetHandle, NetNext, NetExit
  <2> HIDE DEF y
  <2>6. SdoHandle(y, "EV_NET_SDO_DISABLED") = y
    BY <2>1 DEF SdoHandle, SdoNext
  <2>7. NetEnter(y) = g
    BY <2>1, <2>6 DEF NetEnter, SendNmt
  <2> QED
    BY <2>3, <2>4, <2>5, <2>7 DEF LoopInit
<1>2. Init
  BY DEF LoopInit, Init
<1>3. Sound(host)
  BY <1>2, GoodInit, HandshakeInit, UploadInit DEF Sound, IInv
<1>4. /\ host.net = "ST_NET_UNKNOWN" /\ host.nmt = "NMT_ENTERPREOPERATIONAL"
      /\ host.tx = <<>> /\ host.queue = <<>> /\ host.status = "running"
  BY <1>1 DEF Created
<1>5. drive \in Drive /\ Acks(drive)
  <2> DEFINE t == [PowerOn EXCEPT !.nmt = "EV_NET_OPERATIONAL"]
  <2>1. PowerOn \in Drive /\ PowerOn.ack = FALSE
    BY DEF PowerOn, Drive
  <2>2. t \in Drive /\ t.ack = FALSE
    BY <2>1 DEF Drive
  <2> QED
    BY <2>1, <2>2 DEF LoopInit, Acks
<1>6. Steady(host, drive)
  BY <1>3, <1>4, Offline DEF Sound, Good, Linked, WireOK
<1>7. NmtOK(host, drive) /\ ~Doomed(host)
  BY <1>4 DEF NmtOK, Doomed, WritesWait
<1> QED
  BY <1>3, <1>4, <1>5, <1>6, <1>7 DEF LInv, Loop, Known, StaysUp

\* What the process alone owes to the invariant.
Alone == /\ Sound(host) /\ Known(host, hurt)
         /\ host.status = "exited" => hurt \cap {"writes", "refused"} # {}

\* One step of the proof per action.
LEMMA AloneStep ==
    ASSUME LInv, [LoopNext]_allVars
    PROVE  Alone' /\ drive' \in Drive /\ Acks(drive') /\ hurt \subseteq hurt'
<1>0. /\ drive \in Drive /\ Acks(drive) /\ Sound(host) /\ Known(host, hurt)
      /\ host \in Process /\ SdoOK(host) /\ NetLinked(host) /\ Alone
  BY DEF LInv, Alone, StaysUp, Sound, Good, Linked
<1>1. ASSUME NEW g, NEW kinds, Sound(g), host' = Settle(g), Note(kinds),
             \/ g.status \in {host.status, "aborted"}
             \/ g.status = "exited" /\ (Doomed(host) \/ "refused" \in kinds)
      PROVE  Alone' /\ hurt \subseteq hurt'
  <2>1. Sound(host') /\ host'.status = g.status
    BY <1>0, <1>1, SoundSettle, SettleStatus
  <2>2. hurt \subseteq hurt' /\ kinds \subseteq hurt' /\ Known(host', hurt')
    BY <1>1, Noted
  <2>3. host'.status = "exited" => hurt' \cap {"writes", "refused"} # {}
    BY <1>0, <1>1, <2>1, <2>2 DEF Alone, Known
  <2> QED
    BY <2>1, <2>2, <2>3 DEF Alone
<1>2. ASSUME Sound(host'), host'.status = host.status, Known(host', hurt'),
             hurt \subseteq hurt'
      PROVE  Alone'
  BY <1>0, <1>2 DEF Alone
<1>3. CASE DriveAnswers
  <2> DEFINE f == [host EXCEPT !.tx = Tail(@)]
             r == Head(host.tx)
             g == DispatchSdo(f, r, "confirm")
  <2>1. host.tx # <<>> /\ drive' = DriveTakes(drive, r) /\ host' = Settle(g) /\ Note({})
    BY <1>3 DEF DriveAnswers
  <2>2. /\ f \in Process /\ f.intf = host.intf /\ SameMachines(host, f)
        /\ f.status = host.status /\ r \in Frame
    BY <1>0, <2>1, WireTail
  <2> HIDE DEF f, r
  <2>3. Sound(g) /\ g.status \in {host.status, "aborted"}
    BY <1>0, <2>2, SoundFrame, SoundDispatch, DispatchExits
  <2> HIDE DEF g
  <2>4. drive' \in Drive /\ Acks(drive')
    BY <1>0, <2>1, <2>2, TakesFacts
  <2> QED
    BY <1>1, <2>1, <2>3, <2>4
<1>4. CASE DriveTakesNmt
  <2> DEFINE m == IF host.nmt = "NMT_STARTREMOTENODE" THEN "EV_NET_OPERATIONAL"
                                                      ELSE "EV_NET_PREOPERATIONAL"
             t == [drive EXCEPT !.nmt = m]
             g == [host EXCEPT !.nmt = "none"]
  <2>1. drive' = t /\ host' = g /\ hurt' = hurt
    BY <1>4 DEF DriveTakesNmt
  <2>2. t \in Drive /\ t.ds = drive.ds /\ t.ack = drive.ack
    BY <1>0 DEF Drive
  <2>3. /\ g \in Process /\ g.intf = host.intf /\ SameMachines(host, g)
        /\ g.status = host.status
    BY <1>0 DEF Process, NmtCommands, SameMachines
  <2> HIDE DEF t, g
  <2>4. Sound(g) /\ Known(g, hurt)
    BY <1>0, <2>3, SoundFrame DEF Known, Doomed, Closed, WritesWait, SameMachines
  <2> QED
    BY <1>0, <1>2, <2>1, <2>2, <2>3, <2>4 DEF Acks
<1>5. CASE Heartbeat
  <2> DEFINE k == NetHandle(host, drive.nmt)
             g == [k EXCEPT !.quiet = FALSE]
  <2>1. drive' = drive /\ host' = Settle(NmtReceived(host, drive.nmt)) /\ Note({})
    BY <1>5 DEF Heartbeat
  <2>2. NmtReceived(host, drive.nmt) = g
    BY <1>0 DEF NmtReceived, Drive
  <2>3. /\ Sound(k) /\ k \in Process
        /\ k.status = host.status \/ (k.status = "exited" /\ Doomed(host))
    BY <1>0, SoundNet, NetExits DEF Drive
  <2> HIDE DEF k
  <2>4. g \in Process /\ g.intf = k.intf /\ SameMachines(k, g) /\ g.status = k.status
    BY <2>3 DEF Process, SameMachines
  <2> HIDE DEF g
  <2>5. Sound(g)
    BY <2>3, <2>4, SoundFrame
  <2> QED
    BY <1>0, <1>1, <2>1, <2>2, <2>3, <2>4, <2>5
<1>6. CASE StatusReport
  <2>1. drive' = drive /\ host' = Settle(ReportReceived(host, drive)) /\ Note({})
    BY <1>6 DEF StatusReport
  <2> QED
    BY <1>0, <1>1, <2>1, SoundReport
<1>7. CASE HomingDone
  <2>1. /\ drive' = [drive EXCEPT !.homed = TRUE, !.homing = FALSE]
        /\ host' = host /\ hurt' = hurt
    BY <1>7 DEF HomingDone
  <2>2. drive' \in Drive /\ Acks(drive')
    BY <1>0, <2>1 DEF Drive, Acks
  <2> QED
    BY <1>0, <1>2, <2>1, <2>2
<1>8. CASE VoltageLost
  <2>1. drive' = [drive EXCEPT !.voltage = FALSE] /\ host' = host /\ Note({})
    BY <1>8 DEF VoltageLost, Upset
  <2>2. drive' \in Drive /\ Acks(drive')
    BY <1>0, <2>1 DEF Drive, Acks
  <2> QED
    BY <1>0, <1>2, <2>1, <2>2, Noted
<1>9. CASE VoltageBack
  <2>1. drive' = [drive EXCEPT !.voltage = TRUE] /\ host' = host /\ hurt' = hurt
    BY <1>9 DEF VoltageBack
  <2>2. drive' \in Drive /\ Acks(drive')
    BY <1>0, <2>1 DEF Drive, Acks
  <2> QED
    BY <1>0, <1>2, <2>1, <2>2
<1>10. CASE Fault
  <2>1. /\ drive' = [drive EXCEPT !.ds = "EV_DS_FAULT", !.homing = FALSE, !.ack = FALSE]
        /\ host' = host /\ \E kinds : Note(kinds)
    BY <1>10 DEF Fault, Upset
  <2>2. drive' \in Drive /\ Acks(drive')
    BY <1>0, <2>1 DEF Drive, Acks
  <2> QED
    BY <1>0, <1>2, <2>1, <2>2, Noted
<1>11. CASE Restart
  <2> DEFINE g == [host EXCEPT !.tx = <<>>, !.nmt = "none"]
  <2>1. drive' = PowerOn /\ host' = g /\ \E kinds : Note(kinds)
    BY <1>11 DEF Restart, Upset
  <2>2. <<>> \in Seq(Frame)
    OBVIOUS
  <2>3. /\ g \in Process /\ g.intf = host.intf /\ SameMachines(host, g)
        /\ g.status = host.status
    BY <1>0, <2>2 DEF Process, NmtCommands, SameMachines
  <2>4. PowerOn \in Drive /\ Acks(PowerOn)
    BY DEF PowerOn, Drive, Acks
  <2> HIDE DEF g
  <2> QED
    BY <1>0, <1>2, <2>1, <2>3, <2>4, SoundFrame, Noted
<1>12. CASE WatchdogFires
  <2> DEFINE g == NetHandle(host, "EV_NET_WATCHDOG_FAILED")
  <2>1. drive' = drive /\ host' = Settle(g) /\ Note({})
    BY <1>12 DEF WatchdogFires, Upset
  <2>2. /\ Sound(g)
        /\ g.status = host.status \/ (g.status = "exited" /\ Doomed(host))
    BY <1>0, SoundNet, NetExits
  <2> HIDE DEF g
  <2> QED
    BY <1>0, <1>1, <2>1, <2>2
<1>13. CASE SdoLost
  <2> DEFINE g == [host EXCEPT !.tx = Tail(@)]
             t == DriveTakes(drive, Head(host.tx))
  <2>1. host.tx # <<>> /\ drive' \in {drive, t} /\ host' = g /\ Note({"sdo"})
    BY <1>13 DEF SdoLost, Upset
  <2>2. /\ g \in Process /\ g.intf = host.intf /\ SameMachines(host, g)
        /\ g.status = host.status /\ Head(host.tx) \in Frame
    BY <1>0, <2>1, WireTail
  <2>3. t \in Drive /\ Acks(t)
    BY <1>0, <2>2, TakesFacts
  <2> HIDE DEF g, t
  <2> QED
    BY <1>0, <1>2, <2>1, <2>2, <2>3, SoundFrame, Noted
<1>14. CASE NmtLost
  <2> DEFINE g == [host EXCEPT !.nmt = "none"]
  <2>1. drive' = drive /\ host' = g /\ Note({"nmt"})
    BY <1>14 DEF NmtLost, Upset
  <2>2. /\ g \in Process /\ g.intf = host.intf /\ SameMachines(host, g)
        /\ g.status = host.status
    BY <1>0 DEF Process, NmtCommands, SameMachines
  <2> HIDE DEF g
  <2> QED
    BY <1>0, <1>2, <2>1, <2>2, SoundFrame, Noted
<1>15. CASE SdoRefused
  <2> DEFINE f == [host EXCEPT !.tx = Tail(@)]
             r == Head(host.tx)
             g == DispatchSdo(f, r, "abort")
             kinds == IF HasAbortCallback(host.active) THEN {"refused"} ELSE {"sdo"}
  <2>1. host.tx # <<>> /\ drive' = drive /\ host' = Settle(g) /\ Note(kinds)
    BY <1>15 DEF SdoRefused, Upset
  <2>2. /\ f \in Process /\ f.intf = host.intf /\ SameMachines(host, f)
        /\ f.status = host.status /\ r \in Frame
    BY <1>0, <2>1, WireTail
  <2> HIDE DEF f, r
  <2>3. /\ Sound(g)
        /\ \/ g.status \in {f.status, "aborted"}
           \/ g.status = "exited" /\ HasAbortCallback(f.active)
    BY <1>0, <2>2, SoundFrame, SoundDispatch, DispatchExits
  <2> HIDE DEF g
  <2>4. HasAbortCallback(f.active) => "refused" \in kinds
    BY <2>2 DEF SameMachines
  <2> HIDE DEF kinds
  <2> QED
    BY <1>0, <1>1, <2>1, <2>2, <2>3, <2>4
<1>16. CASE ClientExecutes
  <2>1. PICK n \in 0..Len(ProfileFields), load \in BOOLEAN :
            host' = Settle(ProfileExecute(host, n, load))
    BY <1>16 DEF ClientExecutes
  <2>2. drive' = drive /\ Note({})
    BY <1>16 DEF ClientExecutes
  <2> QED
    BY <1>0, <1>1, <2>1, <2>2, SoundExecute
<1>17. CASE ClientStops
  <2>1. PICK n \in 1..Len(ProfileFields), load \in BOOLEAN :
            host' = Settle(WritePendingChanges(host, n, load))
    BY <1>17 DEF ClientStops
  <2>2. drive' = drive /\ Note({}) /\ n \in 0..Len(ProfileFields)
    BY <1>17, FieldsAssumption DEF ClientStops, Upset
  <2> QED
    BY <1>0, <1>1, <2>1, <2>2, SoundPending
<1>18. CASE UNCHANGED allVars
  BY <1>0, <1>2, <1>18 DEF allVars
<1> QED
  BY <1>3, <1>4, <1>5, <1>6, <1>7, <1>8, <1>9, <1>10, <1>11, <1>12, <1>13, <1>14,
     <1>15, <1>16, <1>17, <1>18 DEF LoopNext

\* What the drive and the process make of it until an answer is late.
LEMMA LoopKept ==
    ASSUME LInv, [LoopNext]_allVars, hurt \subseteq hurt', "late" \notin hurt'
    PROVE  Loop(host', drive') /\ host'.status # "aborted"
<1>0. /\ drive \in Drive /\ Acks(drive) /\ Loop(host, drive)
      /\ host \in Process /\ WireOK(host) /\ HomedOK(host, drive)
      /\ NmtOK(host, drive) /\ SdoOK(host) /\ NetLinked(host)
      /\ host.status # "aborted"
  BY DEF LInv, StaysUp, Loop, Steady, Sound, Good, Linked
<1>1. ASSUME NEW g, Running, g.status = host.status, host' = Settle(g)
      PROVE  host' = g
  BY <1>1 DEF Settle, Running
<1>2. ASSUME NEW g, g \in Process, g.status = "exited", host' = Settle(g), drive' = drive
      PROVE  Loop(host', drive') /\ host'.status # "aborted"
  BY <1>0, <1>2, LoopSettle, SettleStatus
<1>3. CASE DriveAnswers
  <2> DEFINE g == DispatchSdo([host EXCEPT !.tx = Tail(@)], Head(host.tx), "confirm")
             t == DriveTakes(drive, Head(host.tx))
  <2>1. Running /\ host.tx # <<>> /\ drive' = t /\ host' = Settle(g)
    BY <1>3 DEF DriveAnswers
  <2>2. Loop(g, t) /\ g.status = host.status
    BY <1>0, <2>1, LoopConfirm
  <2> HIDE DEF g, t
  <2> QED
    BY <1>0, <1>1, <2>1, <2>2
<1>4. CASE DriveTakesNmt
  <2> DEFINE m == IF host.nmt = "NMT_STARTREMOTENODE" THEN "EV_NET_OPERATIONAL"
                                                      ELSE "EV_NET_PREOPERATIONAL"
             t == [drive EXCEPT !.nmt = m]
             g == [host EXCEPT !.nmt = "none"]
  <2>1. host.nmt # "none" /\ drive' = t /\ host' = g
    BY <1>4 DEF DriveTakesNmt
  <2>2. /\ t \in Drive /\ t.nmt = m /\ t.mode = drive.mode /\ t.ds = drive.ds
        /\ t.ack = drive.ack /\ t.homed = drive.homed
    BY <1>0 DEF Drive
  <2>3. /\ SameMachines(host, g) /\ g.status = host.status /\ g.nmt = "none"
    BY <1>0 DEF Process, SameMachines
  <2>4. Loop(g, drive)
    BY <1>0, LoopSilent
  <2> HIDE DEF t, g
  <2>5. Acks(t)
    BY <1>0, <2>2 DEF Acks
  <2>6. HomedOK(g, t)
    <3>1. CASE host.nmt = "NMT_STARTREMOTENODE"
      <4>1. host.mp = "ST_MP_DISABLED"
        BY <1>0, <3>1 DEF NmtOK, Loop, Sound, Good, Linked, NetLinked, DsLinked
      <4> QED
        BY <2>3, <4>1 DEF HomedOK, AfterHoming, SameMachines
    <3>2. CASE host.nmt # "NMT_STARTREMOTENODE"
      BY <1>0, <2>2, <2>3, <3>2 DEF HomedOK, SameMachines
    <3> QED
      BY <3>1, <3>2
  <2>7. ~(host.nmt = "NMT_STARTREMOTENODE" /\ host.net = "ST_NET_PREOPERATIONAL")
    BY <1>0 DEF NmtOK
  <2>8. NmtOK(g, t)
    BY <2>2, <2>3, <2>7 DEF NmtOK, SameMachines
  <2> QED
    BY <1>0, <2>1, <2>2, <2>3, <2>4, <2>5, <2>6, <2>8, LoopDrive
<1>5. CASE Heartbeat
  <2> DEFINE k == NetHandle(host, drive.nmt)
             g == [k EXCEPT !.quiet = FALSE]
  <2>1. /\ Running /\ drive' = drive /\ Note({})
        /\ host' = Settle(NmtReceived(host, drive.nmt))
    BY <1>5 DEF Heartbeat
  <2>2. NmtReceived(host, drive.nmt) = g
    BY <1>0 DEF NmtReceived, Drive
  <2>3. /\ k \in Process
        /\ k.status = host.status \/ (k.status = "exited" /\ Doomed(host))
    BY <1>0, SoundNet, NetExits DEF Drive, Loop
  <2>4. ASSUME k.status = host.status, ~SdoEnabled(host), SdoEnabled(k)
        PROVE  host.tx = <<>>
    <3>1. host' = g
      BY <1>1, <2>1, <2>2, <2>3, <2>4 DEF Process
    <3>2. host'.sdo = k.sdo
      BY <2>3, <3>1 DEF Process
    <3>3. Closed(host) /\ ~Closed(host')
      BY <1>0, <2>4, <3>2 DEF Closed, SdoEnabled, Process, SdoStates
    <3> QED
      BY <2>1, <3>3, Noted
  <2>5. CASE k.status = host.status
    <3>1. Loop(k, drive)
      BY <1>0, <2>4, <2>5, LoopNmt
    <3> HIDE DEF k
    <3>2. /\ g \in Process /\ g.intf = k.intf /\ SameMachines(k, g) /\ g.tx = k.tx
          /\ g.cb = k.cb /\ g.nmt = k.nmt /\ g.status = k.status
      BY <2>3 DEF Process, SameMachines
    <3> HIDE DEF g
    <3>3. Loop(g, drive)
      BY <3>1, <3>2, LoopFrame
    <3> QED
      BY <1>0, <1>1, <2>1, <2>2, <2>5, <3>2, <3>3
  <2>6. CASE k.status = "exited"
    <3> HIDE DEF k
    <3>1. g \in Process /\ g.status = "exited"
      BY <2>3, <2>6 DEF Process
    <3> HIDE DEF g
    <3> QED
      BY <1>2, <2>1, <2>2, <3>1
  <2> QED
    BY <2>3, <2>5, <2>6
<1>6. CASE StatusReport
  <2> DEFINE g == ReportReceived(host, drive)
  <2>1. Running /\ host' = Settle(g) /\ drive' = drive
    BY <1>6 DEF StatusReport
  <2>2. Loop(g, drive) /\ g.status = host.status
    BY <1>0, LoopReport
  <2> HIDE DEF g
  <2> QED
    BY <1>0, <1>1, <2>1, <2>2
<1>7. CASE HomingDone
  <2> DEFINE t == [drive EXCEPT !.homed = TRUE, !.homing = FALSE]
  <2>1. drive' = t /\ host' = host
    BY <1>7 DEF HomingDone
  <2>2. /\ t \in Drive /\ t.nmt = drive.nmt /\ t.mode = drive.mode /\ t.ds = drive.ds
        /\ t.ack = drive.ack /\ t.homed = TRUE
    BY <1>0 DEF Drive
  <2> HIDE DEF t
  <2>3. Acks(t) /\ HomedOK(host, t) /\ NmtOK(host, t)
    BY <1>0, <2>2 DEF Acks, HomedOK, NmtOK
  <2> QED
    BY <1>0, <2>1, <2>2, <2>3, LoopDrive
<1>8. ASSUME NEW b \in BOOLEAN, drive' = [drive EXCEPT !.voltage = b], host' = host
      PROVE  Loop(host', drive') /\ host'.status # "aborted"
  <2> DEFINE t == [drive EXCEPT !.voltage = b]
  <2>1. /\ t \in Drive /\ t.nmt = drive.nmt /\ t.mode = drive.mode /\ t.ds = drive.ds
        /\ t.ack = drive.ack /\ t.homed = drive.homed /\ drive' = t
    BY <1>0, <1>8 DEF Drive
  <2> HIDE DEF t
  <2>2. Acks(t) /\ HomedOK(host, t) /\ NmtOK(host, t)
    BY <1>0, <2>1 DEF Acks, HomedOK, NmtOK
  <2> QED
    BY <1>0, <1>8, <2>1, <2>2, LoopDrive
<1>9. CASE VoltageLost
  BY <1>8, <1>9 DEF VoltageLost
<1>10. CASE VoltageBack
  BY <1>8, <1>10 DEF VoltageBack
<1>11. CASE Fault
  <2> DEFINE t == [drive EXCEPT !.ds = "EV_DS_FAULT", !.homing = FALSE, !.ack = FALSE]
  <2>1. drive' = t /\ host' = host
    BY <1>11 DEF Fault
  <2>2. /\ t \in Drive /\ t.nmt = drive.nmt /\ t.mode = drive.mode
        /\ t.ds = "EV_DS_FAULT" /\ t.ack = FALSE /\ t.homed = drive.homed
    BY <1>0 DEF Drive
  <2> HIDE DEF t
  <2>3. Acks(t) /\ HomedOK(host, t) /\ NmtOK(host, t)
    BY <1>0, <2>2 DEF Acks, HomedOK, NmtOK
  <2> QED
    BY <1>0, <2>1, <2>2, <2>3, LoopDrive
<1>12. CASE Restart
  BY <1>0, <1>12, LoopRestart DEF Restart
<1>13. CASE WatchdogFires
  <2> DEFINE g == NetHandle(host, "EV_NET_WATCHDOG_FAILED")
  <2>1. /\ Running /\ host.net \in {"ST_NET_PREOPERATIONAL", "ST_NET_OPERATIONAL"}
        /\ host' = Settle(g) /\ drive' = drive
    BY <1>13 DEF WatchdogFires
  <2>2. NetNext(host.net, "EV_NET_WATCHDOG_FAILED") = "ST_NET_UNKNOWN"
    BY <2>1 DEF NetNext
  <2>3. Loop(g, drive) /\ g.status = host.status
    BY <1>0, <2>1, <2>2, LinkLost
  <2> HIDE DEF g
  <2> QED
    BY <1>0, <1>1, <2>1, <2>3
<1>14. CASE SdoLost
  <2> DEFINE g == [host EXCEPT !.tx = Tail(@)]
             t == DriveTakes(drive, Head(host.tx))
  <2>1. host.tx # <<>> /\ drive' \in {drive, t} /\ host' = g
    BY <1>14 DEF SdoLost
  <2>2. t.nmt = drive.nmt /\ t.homed = drive.homed
    BY <1>0, <2>1, WireTail, TakesFacts
  <2> HIDE DEF t
  <2>3. drive'.nmt = drive.nmt /\ drive'.homed = drive.homed
    BY <1>0, <2>1, <2>2
  <2>4. Loop(g, drive') /\ g.status = host.status
    BY <1>0, <2>1, <2>3, LoopLose
  <2> HIDE DEF g
  <2> QED
    BY <1>0, <2>1, <2>4
<1>15. CASE NmtLost
  BY <1>0, <1>15, LoopSilent DEF NmtLost
<1>16. CASE SdoRefused
  <2> DEFINE g == DispatchSdo([host EXCEPT !.tx = Tail(@)], Head(host.tx), "abort")
  <2>1. Running /\ host.tx # <<>> /\ host' = Settle(g) /\ drive' = drive
    BY <1>16 DEF SdoRefused
  <2>2. CASE HasAbortCallback(host.active)
    <3>1. g \in Process /\ g.status = "exited"
      BY <1>0, <2>1, <2>2, RefuseExits
    <3> HIDE DEF g
    <3> QED
      BY <1>2, <2>1, <3>1
  <2>3. CASE ~HasAbortCallback(host.active)
    <3>1. Loop(g, drive) /\ g.status = host.status
      BY <1>0, <2>1, <2>3, LoopRefuse
    <3> HIDE DEF g
    <3> QED
      BY <1>0, <1>1, <2>1, <3>1
  <2> QED
    BY <2>2, <2>3
<1>17. CASE ClientExecutes
  <2>1. PICK n \in 0..Len(ProfileFields), load \in BOOLEAN :
            host' = Settle(ProfileExecute(host, n, load))
    BY <1>17 DEF ClientExecutes
  <2>2. Running /\ host.mp = "ST_MP_PP_IDLE" /\ drive' = drive
    BY <1>17 DEF ClientExecutes
  <2>3. LET g == ProfileExecute(host, n, load)
        IN  Loop(g, drive) /\ g.status = host.status
    BY <1>0, <2>2, LoopExecute
  <2> QED
    BY <1>0, <1>1, <2>1, <2>2, <2>3
<1>18. CASE ClientStops
  <2>1. PICK n \in 1..Len(ProfileFields), load \in BOOLEAN :
            host' = Settle(WritePendingChanges(host, n, load))
    BY <1>18 DEF ClientStops
  <2>2. Running /\ drive' = drive /\ n \in 0..Len(ProfileFields)
    BY <1>18, FieldsAssumption DEF ClientStops
  <2>3. LET g == WritePendingChanges(host, n, load)
        IN  Loop(g, drive) /\ g.status = host.status
    BY <1>0, <2>2, LoopPending, SoundPending DEF Loop
  <2> QED
    BY <1>0, <1>1, <2>1, <2>2, <2>3
<1>19. CASE UNCHANGED allVars
  BY <1>0, <1>19 DEF allVars
<1> QED
  BY <1>3, <1>4, <1>5, <1>6, <1>7, <1>9, <1>10, <1>11, <1>12, <1>13, <1>14, <1>15,
     <1>16, <1>17, <1>18, <1>19 DEF LoopNext

\* The two together, whichever action is taken.
LEMMA LoopStep ==
    ASSUME LInv, [LoopNext]_allVars
    PROVE  LInv'
<1>1. /\ Alone' /\ drive' \in Drive /\ Acks(drive') /\ hurt \subseteq hurt'
  BY AloneStep
<1>2. "late" \notin hurt' => Loop(host', drive') /\ host'.status # "aborted"
  BY <1>1, LoopKept
<1>3. StaysUp'
  BY <1>1, <1>2 DEF Alone, StaysUp
<1> QED
  BY <1>1, <1>2, <1>3 DEF LInv, Alone, Acks

\* Every step of the process, the drive, the bus and the clients keeps LInv.
THEOREM LoopInvariance == LoopSpec => []LInv
<1>1. LoopInit => LInv
  BY LoopInitial
<1>2. LInv /\ [LoopNext]_allVars => LInv'
  BY LoopStep
<1> QED
  BY <1>1, <1>2, PTL DEF LoopSpec

(***************************************************************************)
(* What ends the process while the CAN device works.  It exits only if     *)
(* writes of the configuration or of a profile were waiting while SDOs     *)
(* were disabled or in error (the abort callbacks of mch_net.cc and        *)
(* sled_profile.cc, called when mch_sdo.cc drops its queue), or if the     *)
(* drive refused such a write; an assertion of mch_sdo.cc fails only if an *)
(* SDO session was opened while a request of an earlier one was still to   *)
(* be answered.                                                            *)
(***************************************************************************)
THEOREM StaysUpHolds == LoopSpec => []StaysUp
<1>1. LInv => StaysUp
  BY DEF LInv
<1> QED
  BY <1>1, LoopInvariance, PTL

(***************************************************************************)
(* When the server is ready for a motion command (mch_mp.cc, PP_IDLE) and  *)
(* nothing is in flight, an enabled drive is homed, in profile-position    *)
(* mode, and has no setpoint pending, whatever was lost, refused or upset  *)
(* before, as long as no answer outlived its SDO session.                  *)
(***************************************************************************)
THEOREM ReadyIsTrueHolds == LoopSpec => []("late" \notin hurt => ReadyIsTrue)
<1>1. LInv => ("late" \notin hurt => ReadyIsTrue)
  <2> SUFFICES ASSUME LInv, "late" \notin hurt, host.mp = "ST_MP_PP_IDLE",
                      host.sdo = "ST_SDO_WAITING", drive.nmt = "EV_NET_OPERATIONAL"
               PROVE  drive.homed /\ drive.mode = "pp" /\ ~drive.ack
    BY DEF ReadyIsTrue
  <2>1. /\ Steady(host, drive) /\ Handshake(host) /\ host.queue = <<>>
        /\ host.ds = "ST_DS_OPERATION_ENABLED"
    BY DEF LInv, Loop, Sound, Steady, SdoOK, DsLinked
  <2>2. Alive(host) /\ Taken(host, drive) = drive
    BY DEF Alive, Taken
  <2>3. drive.homed /\ EndsPP(<<>>, drive.mode) /\ (drive.ack => host.cw = NewSetpoint)
    BY <2>1, <2>2
       DEF Steady, HomedOK, ModeOK, AckOK, HoldsPP, AckSeen, AfterHoming
  <2>4. drive.mode = "pp"
    BY <2>3 DEF EndsPP
  <2>5. host.cw \in EnabledWithBitClear
    <3>1. LastWord(<<>>, host.cw, EnabledWithBitClear)
      BY <2>1 DEF Handshake, BitClearStates, Allows
    <3>2. Len(<<>>) + 1 - 1 = 0
      OBVIOUS
    <3> QED
      BY <3>1, <3>2 DEF LastWord, WordBefore
  <2>6. host.cw # NewSetpoint
    BY <2>5 DEF EnabledWithBitClear, NewSetpoint, EnableOperation, ClearSetpoint
  <2> QED
    BY <2>3, <2>4, <2>6
<1> QED
  BY <1>1, LoopInvariance, PTL
=============================================================================
