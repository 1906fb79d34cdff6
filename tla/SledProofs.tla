----------------------------- MODULE SledProofs -----------------------------
(***************************************************************************)
(* Proofs about Sled, for every configuration, profile and bound.          *)
(*                                                                         *)
(* A callback is a nest of handlers, so the argument follows the layers:   *)
(* for each handler a lemma says what it keeps (the type, the discipline   *)
(* of the SDO machine) and which fields it leaves alone, under what holds  *)
(* where it is called, which may be in the middle of a cascade.            *)
(***************************************************************************)
EXTENDS Sled, SequenceTheorems, TLAPS

SdoEnabled(h) == h.sdo \in {"ST_SDO_WAITING", "ST_SDO_SENDING"}

\* NoLostWakeup and NoStaleCommand of a process record.
SdoOK(h) ==
    /\ h.sdo = "ST_SDO_WAITING" => h.queue = <<>>
    /\ h.sdo = "ST_SDO_SENDING" => h.active # NoSdo /\ h.active.ses = h.ses
    /\ SdoEnabled(h) => \A i \in 1..Len(h.queue) : h.queue[i].ses = h.ses

\* The fields the SDO machine leaves alone.
SameAboveSdo(h, g) ==
    /\ g.intf = h.intf /\ g.handle = h.handle /\ g.reading = h.reading
    /\ g.net = h.net /\ g.ds = h.ds /\ g.mp = h.mp /\ g.nmt = h.nmt
    /\ g.quiet = h.quiet /\ g.measured = h.measured /\ g.acked = h.acked

-----------------------------------------------------------------------------
\* Sending an item keeps the type and touches only the request side.
LEMMA SdoSendType ==
    ASSUME NEW h \in Process, NEW sdo \in Item
    PROVE  /\ SdoSend(h, sdo) \in Process
           /\ SameAboveSdo(h, SdoSend(h, sdo))
           /\ SdoSend(h, sdo).queue = h.queue
           /\ SdoSend(h, sdo).active = h.active
           /\ SdoSend(h, sdo).sdo = h.sdo
           /\ SdoSend(h, sdo).ses = h.ses
           /\ SdoSend(h, sdo).status = h.status
<1> DEFINE tx == IF Len(h.tx) < MaxTx
                    THEN Append(h.tx, FrameOf(sdo)) ELSE h.tx
           cw == IF sdo.ob = "control" THEN sdo.val ELSE h.cw
           bad == h.badStart \/ (/\ sdo.ob = "control"
                                 /\ sdo.val = NewSetpoint
                                 /\ h.cw \notin EnabledWithBitClear)
<1>0. h.tx \in Seq(Frame) /\ FrameOf(sdo) \in Frame
  BY DEF Process, Item, Frame, FrameOf
<1>1. tx \in Seq(Frame)
  BY <1>0
<1>2. cw \in Nat
  BY DEF Process, Item
<1>3. bad \in BOOLEAN
  BY DEF Process
<1>4. sdo.op \in {"none", "read", "write"}
  BY DEF Item
<1>5. SdoSend(h, sdo) = [h EXCEPT !.cb = sdo.op, !.tx = tx, !.cw = cw,
                                  !.badStart = bad]
  BY DEF SdoSend, Process
<1> HIDE DEF tx, cw, bad
<1>6. [h EXCEPT !.cb = sdo.op, !.tx = tx, !.cw = cw, !.badStart = bad] \in Process
  BY <1>1, <1>2, <1>3, <1>4 DEF Process
<1>7. SameAboveSdo(h, SdoSend(h, sdo))
  BY <1>5 DEF Process, SameAboveSdo
<1>8. /\ SdoSend(h, sdo).queue = h.queue /\ SdoSend(h, sdo).active = h.active
      /\ SdoSend(h, sdo).sdo = h.sdo /\ SdoSend(h, sdo).ses = h.ses
      /\ SdoSend(h, sdo).status = h.status
  BY <1>5 DEF Process
<1> QED
  BY <1>5, <1>6, <1>7, <1>8

\* Entering SENDING makes an item of this session the active one.
LEMMA EnterSendingOK ==
    ASSUME NEW h \in Process, h.queue # <<>>, h.sdo = "ST_SDO_SENDING",
           \A i \in 1..Len(h.queue) : h.queue[i].ses = h.ses
    PROVE  /\ SdoEnterSending(h) \in Process
           /\ SameAboveSdo(h, SdoEnterSending(h))
           /\ SdoEnterSending(h).sdo = "ST_SDO_SENDING"
           /\ SdoOK(SdoEnterSending(h))
           /\ SdoEnterSending(h).status = h.status
<1> DEFINE item == Head(h.queue)
           rest == Tail(h.queue)
           leak == h.leaked \/ HasAbortCallback(h.active)
           g == [h EXCEPT !.active = item, !.queue = rest, !.leaked = leak]
<1>1. h.queue \in Seq(Item)
  BY DEF Process
<1>2. item \in Item /\ rest \in Seq(Item) /\ item.ses = h.ses
  BY <1>1
<1>3. \A i \in 1..Len(rest) : rest[i].ses = h.ses
  BY <1>1
<1>4. leak \in BOOLEAN
  BY DEF Process, HasAbortCallback
<1>5. item # NoSdo
  BY <1>2 DEF Item, NoSdo
<1>6. SdoEnterSending(h) = SdoSend(g, item)
  BY DEF SdoEnterSending, Process
<1> HIDE DEF item, rest, leak
<1>7. /\ g \in Process /\ SameAboveSdo(h, g) /\ g.sdo = "ST_SDO_SENDING"
      /\ g.active = item /\ g.queue = rest /\ g.ses = h.ses /\ g.status = h.status
  BY <1>2, <1>4 DEF Process, SameAboveSdo
<1> HIDE DEF g
<1>8. /\ SdoSend(g, item) \in Process
      /\ SameAboveSdo(g, SdoSend(g, item))
      /\ SdoSend(g, item).queue = rest
      /\ SdoSend(g, item).active = item
      /\ SdoSend(g, item).sdo = "ST_SDO_SENDING"
      /\ SdoSend(g, item).ses = h.ses
      /\ SdoSend(g, item).status = h.status
  BY <1>2, <1>7, SdoSendType
<1>9. SdoOK(SdoSend(g, item))
  BY <1>2, <1>3, <1>5, <1>8 DEF SdoOK
<1> QED
  BY <1>6, <1>7, <1>8, <1>9 DEF SameAboveSdo

\* EV_SDO_ITEM_AVAILABLE keeps the SDO machine in order, wherever it is.
LEMMA ItemAvailable ==
    ASSUME NEW h \in Process, h.queue # <<>>,
           SdoEnabled(h) => \A i \in 1..Len(h.queue) : h.queue[i].ses = h.ses,
           h.sdo = "ST_SDO_SENDING" => h.active # NoSdo /\ h.active.ses = h.ses
    PROVE  LET g == SdoHandle(h, "EV_SDO_ITEM_AVAILABLE")
           IN  /\ g \in Process /\ SameAboveSdo(h, g) /\ SdoOK(g)
               /\ SdoEnabled(g) <=> SdoEnabled(h)
               /\ g.status = h.status
<1> DEFINE f == [h EXCEPT !.sdo = "ST_SDO_SENDING"]
<1>1. CASE h.sdo = "ST_SDO_WAITING"
  <2>1. SdoHandle(h, "EV_SDO_ITEM_AVAILABLE") = SdoEnterSending(f)
    BY <1>1 DEF SdoHandle, SdoNext, SdoExit, SdoEnter, Process
  <2>2. /\ f \in Process /\ f.queue = h.queue /\ f.ses = h.ses
        /\ f.sdo = "ST_SDO_SENDING" /\ SameAboveSdo(h, f) /\ f.status = h.status
    BY DEF Process, SdoStates, SameAboveSdo
  <2> HIDE DEF f
  <2> QED
    BY <1>1, <2>1, <2>2, EnterSendingOK DEF SameAboveSdo, SdoEnabled
<1>2. CASE h.sdo # "ST_SDO_WAITING"
  <2>1. SdoHandle(h, "EV_SDO_ITEM_AVAILABLE") = h
    BY <1>2 DEF SdoHandle, SdoNext
  <2> QED
    BY <1>2, <2>1 DEF SameAboveSdo, SdoOK
<1> QED
  BY <1>1, <1>2

\* Queueing one item, in any state of the SDO machine.
LEMMA QueueOK ==
    ASSUME NEW h \in Process, SdoOK(h), NEW op \in {"read", "write"},
           NEW ob \in Object, NEW val \in Nat, NEW cb \in Callbacks
    PROVE  LET g == SdoQueue(h, op, ob, val, cb)
           IN  /\ g \in Process /\ SameAboveSdo(h, g) /\ SdoOK(g)
               /\ SdoEnabled(g) <=> SdoEnabled(h)
               /\ g.status = h.status
<1> DEFINE item == [op |-> op, ob |-> ob, val |-> val, cb |-> cb, ses |-> h.ses]
           f == [h EXCEPT !.queue = Append(@, item)]
<1>1. item \in Item /\ item.ses = h.ses /\ h.queue \in Seq(Item)
  BY DEF Item, Process
<1> HIDE DEF item
<1>2. /\ Append(h.queue, item) \in Seq(Item) /\ Append(h.queue, item) # <<>>
      /\ SdoEnabled(h) => \A i \in 1..Len(Append(h.queue, item)) :
                              Append(h.queue, item)[i].ses = h.ses
  BY <1>1 DEF SdoOK
<1>3. /\ f \in Process /\ SameAboveSdo(h, f) /\ f.queue = Append(h.queue, item)
      /\ f.sdo = h.sdo /\ f.active = h.active /\ f.ses = h.ses
      /\ f.status = h.status
  BY <1>2 DEF Process, SameAboveSdo
<1>4. SdoQueue(h, op, ob, val, cb) = SdoHandle(f, "EV_SDO_ITEM_AVAILABLE")
  BY DEF SdoQueue, Process, item
<1> HIDE DEF f
<1> QED
  BY <1>2, <1>3, <1>4, ItemAvailable, SMTT(30) DEF SdoOK, SameAboveSdo, SdoEnabled

\* Queueing a batch, in any state of the SDO machine.
LEMMA QueueAllOK ==
    ASSUME NEW h \in Process, SdoOK(h), NEW items \in Seq(Item),
           \A i \in 1..Len(items) : items[i].ses = h.ses
    PROVE  LET g == SdoQueueAll(h, items)
           IN  /\ g \in Process /\ SameAboveSdo(h, g) /\ SdoOK(g)
               /\ SdoEnabled(g) <=> SdoEnabled(h)
               /\ g.status = h.status
<1> DEFINE q == h.queue \o items
           f == [h EXCEPT !.queue = q]
<1>1. CASE items = <<>>
  BY <1>1 DEF SdoQueueAll, SameAboveSdo
<1>2. CASE items # <<>>
  <2>1. h.queue \in Seq(Item)
    BY DEF Process
  <2>2. q \in Seq(Item) /\ q # <<>> /\ Len(q) = Len(h.queue) + Len(items)
    BY <2>1, <1>2
  <2>3. SdoEnabled(h) => \A i \in 1..Len(q) : q[i].ses = h.ses
    <3> SUFFICES ASSUME SdoEnabled(h), NEW i \in 1..Len(q)
                 PROVE  q[i].ses = h.ses
      OBVIOUS
    <3>1. CASE i <= Len(h.queue)
      BY <2>1, <3>1 DEF SdoOK
    <3>2. CASE i > Len(h.queue)
      <4>1. i - Len(h.queue) \in 1..Len(items) /\ q[i] = items[i - Len(h.queue)]
        BY <2>1, <2>2, <3>2
      <4> QED
        BY <4>1
    <3> QED
      BY <3>1, <3>2, <2>1, <2>2
  <2> HIDE DEF q
  <2>4. /\ f \in Process /\ SameAboveSdo(h, f) /\ f.queue = q
        /\ f.sdo = h.sdo /\ f.active = h.active /\ f.ses = h.ses
        /\ f.status = h.status
    BY <2>2 DEF Process, SameAboveSdo
  <2>5. SdoQueueAll(h, items) = SdoHandle(f, "EV_SDO_ITEM_AVAILABLE")
    BY <1>2 DEF SdoQueueAll, Process, q
  <2> HIDE DEF f
  <2> QED
    BY <2>2, <2>3, <2>4, <2>5, ItemAvailable, SMTT(30) DEF SdoOK, SameAboveSdo, SdoEnabled
<1> QED
  BY <1>1, <1>2

\* Sending does not look at the queue.
LEMMA SendAlike ==
    ASSUME NEW f \in Process, NEW q \in Seq(Item), NEW sdo \in Item
    PROVE  SdoSend([f EXCEPT !.queue = q], sdo) = [SdoSend(f, sdo) EXCEPT !.queue = q]
<1> DEFINE g == [f EXCEPT !.queue = q]
           tx == IF Len(f.tx) < MaxTx
                    THEN Append(f.tx, FrameOf(sdo)) ELSE f.tx
           cw == IF sdo.ob = "control" THEN sdo.val ELSE f.cw
           bad == f.badStart \/ (/\ sdo.ob = "control"
                                 /\ sdo.val = NewSetpoint
                                 /\ f.cw \notin EnabledWithBitClear)
<1>1. SdoSend(f, sdo) = [f EXCEPT !.cb = sdo.op, !.tx = tx, !.cw = cw,
                                  !.badStart = bad]
  BY DEF SdoSend, Process
<1>2. g.tx = f.tx /\ g.cw = f.cw /\ g.badStart = f.badStart /\ g \in Process
  BY DEF Process
<1> HIDE DEF g
<1>3. SdoSend(g, sdo) = [g EXCEPT !.cb = sdo.op, !.tx = tx, !.cw = cw,
                                  !.badStart = bad]
  BY <1>2 DEF SdoSend, Process
<1> HIDE DEF tx, cw, bad
<1>4. [g EXCEPT !.cb = sdo.op, !.tx = tx, !.cw = cw, !.badStart = bad] =
      [[f EXCEPT !.cb = sdo.op, !.tx = tx, !.cw = cw, !.badStart = bad]
          EXCEPT !.queue = q]
  BY DEF g, Process
<1> QED
  BY <1>1, <1>3, <1>4 DEF g

\* Appending to a concatenation appends to its second part.
LEMMA AppendConcat ==
    \A q, s \in Seq(Item) : \A x \in Item : Append(q \o s, x) = q \o Append(s, x)
<1> SUFFICES ASSUME NEW q \in Seq(Item), NEW s \in Seq(Item), NEW x \in Item
             PROVE  Append(q \o s, x) = q \o Append(s, x)
  OBVIOUS
<1>1. <<x>> \in Seq(Item) /\ q \o s \in Seq(Item)
  BY ConcatProperties
<1>2. Append(q \o s, x) = (q \o s) \o <<x>>
  BY <1>1, AppendIsConcat
<1>3. Append(s, x) = s \o <<x>>
  BY AppendIsConcat
<1>4. (q \o s) \o <<x>> = q \o (s \o <<x>>)
  BY <1>1, ConcatAssociative
<1> QED
  BY <1>2, <1>3, <1>4

(***************************************************************************)
(* Queueing a batch and raising EV_SDO_ITEM_AVAILABLE once, as SdoQueueAll *)
(* does, is the same as queueing its items one by one, as the loop of      *)
(* mch_net_queue_setup and the profile writes do: one more item queued     *)
(* after a batch is the batch with that item at its end.                   *)
(***************************************************************************)
THEOREM BatchIsIterated ==
    ASSUME NEW h \in Process, SdoOK(h), NEW items \in Seq(Item), items # <<>>,
           NEW x \in Item
    PROVE  SdoQueueAll(h, Append(items, x)) =
               LET g == SdoQueueAll(h, items)
               IN  SdoHandle([g EXCEPT !.queue = Append(@, x)],
                             "EV_SDO_ITEM_AVAILABLE")
<1> DEFINE more == Append(items, x)
           g == SdoQueueAll(h, items)
<1>1. h.queue \in Seq(Item) /\ more \in Seq(Item) /\ more # <<>>
  BY SMTT(30) DEF Process
<1>2. SdoQueueAll(h, more) = SdoHandle([h EXCEPT !.queue = @ \o more],
                                       "EV_SDO_ITEM_AVAILABLE")
  BY <1>1 DEF SdoQueueAll
<1>3. g = SdoHandle([h EXCEPT !.queue = @ \o items], "EV_SDO_ITEM_AVAILABLE")
  BY DEF SdoQueueAll
<1>4. CASE h.sdo # "ST_SDO_WAITING"
  <2>1. \A f : f.sdo = h.sdo => SdoHandle(f, "EV_SDO_ITEM_AVAILABLE") = f
    BY <1>4 DEF SdoHandle, SdoNext
  <2>2. g = [h EXCEPT !.queue = @ \o items]
    BY <1>3, <2>1 DEF Process
  <2>3. SdoQueueAll(h, more) = [h EXCEPT !.queue = @ \o more]
    BY <1>2, <2>1 DEF Process
  <2>5. Append(h.queue \o items, x) = h.queue \o more
    BY <1>1, AppendConcat, Zenon
  <2>6. [g EXCEPT !.queue = Append(@, x)] = [h EXCEPT !.queue = @ \o more]
    BY <2>2, <2>5 DEF Process
  <2> QED
    BY <2>1, <2>3, <2>6 DEF Process
<1>5. CASE h.sdo = "ST_SDO_WAITING"
  <2> DEFINE Sent(q) == SdoEnterSending([h EXCEPT !.queue = q,
                                                  !.sdo = "ST_SDO_SENDING"])
  <2>1. h.queue \o items = items /\ h.queue \o more = more
    BY <1>1, <1>5, ConcatEmptySeq DEF SdoOK
  <2>2. \A q \in Seq(Item) :
           SdoHandle([h EXCEPT !.queue = q], "EV_SDO_ITEM_AVAILABLE") = Sent(q)
    BY <1>5, ZenonT(60) DEF SdoHandle, SdoNext, SdoExit, SdoEnter, Process
  <2>3. g = Sent(items) /\ SdoQueueAll(h, more) = Sent(more)
    BY <1>1, <1>2, <1>3, <2>1, <2>2 DEF Process
  <2>4. Head(more) = Head(items) /\ Tail(more) = Append(Tail(items), x)
    BY HeadTailAppend, Zenon
  <2> DEFINE item == Head(items)
             rest == Tail(items)
             leak == h.leaked \/ HasAbortCallback(h.active)
             f == [h EXCEPT !.sdo = "ST_SDO_SENDING", !.active = item,
                            !.queue = rest, !.leaked = leak]
             k == [f EXCEPT !.queue = Append(rest, x)]
             a == Sent(items)
             b == Sent(more)
  <2>5. item \in Item /\ rest \in Seq(Item) /\ Append(rest, x) \in Seq(Item)
    OBVIOUS
  <2>6. a = SdoSend(f, item)
    BY DEF SdoEnterSending, Process
  <2>7. b = SdoSend(k, item)
    BY <2>4 DEF SdoEnterSending, Process
  <2> HIDE DEF a, b, item, rest
  <2>8. f \in Process /\ f.queue = rest /\ f.sdo = "ST_SDO_SENDING"
    BY <2>5 DEF Process, SdoStates, HasAbortCallback
  <2> HIDE DEF f
  <2>9. b = [a EXCEPT !.queue = Append(rest, x)]
    BY <2>5, <2>6, <2>7, <2>8, SendAlike, ZenonT(30)
  <2>10. a.queue = rest /\ a \in Process
         /\ a.sdo = "ST_SDO_SENDING"
    BY <2>5, <2>6, <2>8, SdoSendType
  <2>11. b = [a EXCEPT !.queue = Append(@, x)]
    BY <2>9, <2>10
  <2>12. b.sdo = "ST_SDO_SENDING"
    BY <2>9, <2>10 DEF Process
  <2>13. SdoHandle(b, "EV_SDO_ITEM_AVAILABLE") = b
    BY <2>12 DEF SdoHandle, SdoNext
  <2>14. g = a /\ SdoQueueAll(h, more) = b
    BY <2>3 DEF a, b
  <2> QED
    BY <2>11, <2>13, <2>14
<1> QED
  BY <1>4, <1>5

\* EV_NET_SDO_ENABLED: a queue left over is dropped and a session begins.
LEMMA EnableOK ==
    ASSUME NEW h \in Process, SdoOK(h)
    PROVE  LET g == SdoHandle(h, "EV_NET_SDO_ENABLED")
           IN  /\ g \in Process /\ SameAboveSdo(h, g) /\ SdoOK(g)
               /\ SdoEnabled(g)
<1> DEFINE status == IF \E i \in 1..Len(h.queue) : HasAbortCallback(h.queue[i])
                        THEN "exited" ELSE h.status
           f == [h EXCEPT !.queue = <<>>, !.status = status, !.ses = 1 - @,
                          !.sdo = "ST_SDO_WAITING"]
<1>1. CASE SdoEnabled(h)
  <2>1. SdoHandle(h, "EV_NET_SDO_ENABLED") = h
    BY <1>1 DEF SdoHandle, SdoNext, SdoEnabled
  <2> QED
    BY <1>1, <2>1 DEF SameAboveSdo
<1>2. CASE ~SdoEnabled(h)
  <2>1. h.sdo \in {"ST_SDO_DISABLED", "ST_SDO_ERROR"}
    BY <1>2 DEF Process, SdoStates, SdoEnabled
  <2>2. SdoNext(h.sdo, "EV_NET_SDO_ENABLED") = "ST_SDO_WAITING"
    BY <2>1 DEF SdoNext
  <2>3. [SdoExit(h) EXCEPT !.sdo = "ST_SDO_WAITING"] = f
    BY <2>1 DEF SdoExit, SdoClearQueue, Process
  <2>4. status \in {"running", "exited", "aborted"}
    BY DEF Process
  <2>0. 1 - h.ses \in {0, 1} /\ <<>> \in Seq(Item)
    BY DEF Process
  <2> HIDE DEF status
  <2>5. /\ f \in Process /\ f.queue = <<>> /\ f.sdo = "ST_SDO_WAITING"
        /\ SameAboveSdo(h, f)
    BY <2>0, <2>4 DEF Process, SameAboveSdo, SdoStates
  <2> HIDE DEF f
  <2>6. SdoHandle(h, "EV_NET_SDO_ENABLED") = f
    BY <2>1, <2>2, <2>3, <2>5 DEF SdoHandle, SdoEnter, SdoEnterWaiting
  <2> QED
    BY <2>5, <2>6 DEF SdoOK, SdoEnabled
<1> QED
  BY <1>1, <1>2

\* EV_NET_SDO_DISABLED leaves the SDO machine disabled or in error.
LEMMA DisableOK ==
    ASSUME NEW h \in Process, SdoOK(h)
    PROVE  LET g == SdoHandle(h, "EV_NET_SDO_DISABLED")
           IN  /\ g \in Process /\ SameAboveSdo(h, g) /\ SdoOK(g)
               /\ ~SdoEnabled(g)
               /\ g.status = h.status
<1> DEFINE f == [h EXCEPT !.sdo = "ST_SDO_DISABLED"]
<1>1. CASE SdoEnabled(h)
  <2>1. SdoHandle(h, "EV_NET_SDO_DISABLED") = f
    BY <1>1 DEF SdoHandle, SdoNext, SdoEnabled, SdoExit, SdoEnter, Process
  <2>2. f \in Process /\ SameAboveSdo(h, f) /\ f.sdo = "ST_SDO_DISABLED"
        /\ f.status = h.status
    BY DEF Process, SameAboveSdo, SdoStates
  <2> HIDE DEF f
  <2> QED
    BY <2>1, <2>2 DEF SdoOK, SdoEnabled
<1>2. CASE ~SdoEnabled(h)
  <2>1. SdoHandle(h, "EV_NET_SDO_DISABLED") = h
    BY <1>2 DEF SdoHandle, SdoNext, SdoEnabled
  <2> QED
    BY <1>2, <2>1 DEF SameAboveSdo
<1> QED
  BY <1>1, <1>2

\* An answer clears the active item before the next one is sent.
LEMMA FinishOK ==
    ASSUME NEW h \in Process, SdoOK(h),
           NEW e \in {"EV_SDO_READ_RESPONSE", "EV_SDO_WRITE_RESPONSE",
                      "EV_SDO_ABORT_RESPONSE"}
    PROVE  LET g == SdoFinish(h, e)
           IN  /\ g \in Process /\ SameAboveSdo(h, g) /\ SdoOK(g)
               /\ SdoEnabled(g) => SdoEnabled(h)
               /\ g.status = h.status
<1> DEFINE f == [h EXCEPT !.active = NoSdo]
           w == [f EXCEPT !.sdo = "ST_SDO_WAITING"]
           s == [w EXCEPT !.sdo = "ST_SDO_SENDING"]
           x == [f EXCEPT !.sdo = "ST_SDO_ERROR"]
<1>1. /\ f \in Process /\ SameAboveSdo(h, f) /\ f.sdo = h.sdo /\ f.queue = h.queue
      /\ f.active = NoSdo /\ f.ses = h.ses /\ f.status = h.status
  BY DEF Process, SameAboveSdo
<1>2. SdoFinish(h, e) = SdoHandle(f, e)
  BY DEF SdoFinish
<1> HIDE DEF f
<1>3. CASE h.sdo # "ST_SDO_SENDING"
  <2>1. SdoHandle(f, e) = f
    BY <1>1, <1>3 DEF SdoHandle, SdoNext
  <2> QED
    BY <1>1, <1>2, <1>3, <2>1 DEF SdoOK, SdoEnabled
<1>4. CASE h.sdo = "ST_SDO_SENDING" /\ e = "EV_SDO_ABORT_RESPONSE"
  <2>1. SdoHandle(f, e) = x
    BY <1>1, <1>4 DEF SdoHandle, SdoNext, SdoExit, SdoEnter, Process
  <2>2. /\ x \in Process /\ SameAboveSdo(f, x) /\ x.sdo = "ST_SDO_ERROR"
        /\ x.status = f.status
    BY <1>1, ZenonT(60) DEF Process, SameAboveSdo, SdoStates
  <2> HIDE DEF x
  <2> QED
    BY <1>1, <1>2, <2>1, <2>2 DEF SdoOK, SdoEnabled, SameAboveSdo
<1>5. CASE h.sdo = "ST_SDO_SENDING" /\ e # "EV_SDO_ABORT_RESPONSE"
  <2>1. SdoHandle(f, e) = SdoEnterWaiting(w)
    BY <1>1, <1>5 DEF SdoHandle, SdoNext, SdoExit, SdoEnter, Process
  <2>2. /\ w \in Process /\ SameAboveSdo(f, w) /\ w.sdo = "ST_SDO_WAITING"
        /\ w.queue = f.queue /\ w.ses = f.ses /\ w.status = f.status
    BY <1>1, ZenonT(60) DEF Process, SameAboveSdo, SdoStates
  <2>3. /\ s \in Process /\ SameAboveSdo(w, s) /\ s.sdo = "ST_SDO_SENDING"
        /\ s.queue = w.queue /\ s.ses = w.ses /\ s.status = w.status
    BY <1>1, ZenonT(60) DEF Process, SameAboveSdo, SdoStates
  <2>4. CASE h.queue = <<>>
    <3>1. SdoHandle(f, e) = w
      BY <2>1, <2>2, <2>4, <1>1 DEF SdoEnterWaiting
    <3> HIDE DEF w
    <3> QED
      BY <1>1, <1>2, <1>5, <2>2, <2>4, <3>1 DEF SdoOK, SdoEnabled, SameAboveSdo
  <2>5. CASE h.queue # <<>>
    <3>1. SdoHandle(f, e) = SdoEnterSending(s)
      BY <2>1, <2>2, <2>5, <1>1 DEF SdoEnterWaiting, SdoNext
    <3>2. \A i \in 1..Len(s.queue) : s.queue[i].ses = s.ses
      BY <1>1, <1>5, <2>2, <2>3 DEF SdoOK, SdoEnabled
    <3> HIDE DEF s, w
    <3>3. /\ SdoEnterSending(s) \in Process
          /\ SameAboveSdo(s, SdoEnterSending(s))
          /\ SdoOK(SdoEnterSending(s))
          /\ SdoEnterSending(s).status = s.status
      BY <1>1, <2>2, <2>3, <2>5, <3>2, EnterSendingOK
    <3> QED
      BY <1>1, <1>2, <1>5, <2>2, <2>3, <3>1, <3>3 DEF SdoEnabled, SameAboveSdo
  <2> QED
    BY <2>4, <2>5
<1> QED
  BY <1>3, <1>4, <1>5

-----------------------------------------------------------------------------
\* What a handler of the motion-profile machine leaves alone.
SameAboveMp(h, g) ==
    /\ g.intf = h.intf /\ g.handle = h.handle /\ g.reading = h.reading
    /\ g.net = h.net /\ g.ds = h.ds /\ g.nmt = h.nmt
    /\ g.quiet = h.quiet /\ g.measured = h.measured /\ g.acked = h.acked

\* g is what queueing leaves of h.
Queued(h, g) ==
    /\ g \in Process /\ SameAboveSdo(h, g) /\ SdoOK(g)
    /\ SdoEnabled(g) <=> SdoEnabled(h)
    /\ g.status = h.status

\* Queueing nothing is a special case of queueing.
LEMMA NothingQueued ==
    ASSUME NEW h \in Process, SdoOK(h)
    PROVE  Queued(h, h)
BY DEF Queued, SameAboveSdo

\* A write without callbacks.
LEMMA QueueWriteOK ==
    ASSUME NEW h \in Process, SdoOK(h), NEW ob \in Object, NEW val \in Nat
    PROVE  Queued(h, SdoQueueWrite(h, ob, val))
BY QueueOK DEF SdoQueueWrite, Callbacks, Queued

\* A read without callbacks.
LEMMA QueueReadOK ==
    ASSUME NEW h \in Process, SdoOK(h), NEW ob \in Object
    PROVE  Queued(h, SdoQueueRead(h, ob))
BY QueueOK DEF SdoQueueRead, Callbacks, Queued

\* The objects and words the machines write are of the right type.
LEMMA WordsType ==
    /\ "control" \in Object /\ "mode" \in Object /\ "clear_fault" \in Object
    /\ "motion_task" \in Object /\ "copy_task" \in Object /\ "light" \in Object
    /\ Shutdown \in Nat /\ SwitchOn \in Nat /\ EnableOperation \in Nat
    /\ ClearSetpoint \in Nat /\ NewSetpoint \in Nat
    /\ ModeHoming \in Nat /\ ModePP \in Nat
BY DEF Shutdown, SwitchOn, EnableOperation, ClearSetpoint, NewSetpoint,
       ModeHoming, ModePP, Object

\* The motion machine only changes its own state and queues writes.
LEMMA MpHandleOK ==
    ASSUME NEW h \in Process, SdoOK(h), NEW e
    PROVE  LET g == MpHandle(h, e)
           IN  /\ g \in Process /\ SameAboveMp(h, g) /\ SdoOK(g)
               /\ g.mp = MpNext(h.mp, e)
               /\ SdoEnabled(g) <=> SdoEnabled(h)
               /\ g.status = h.status
<1> DEFINE n == MpNext(h.mp, e)
           x == MpExit(h)
           y == [x EXCEPT !.mp = n]
<1>1. CASE n = h.mp
  BY <1>1 DEF MpHandle, SameAboveMp
<1>2. CASE n # h.mp
  <2>1. n \in MpStates
    BY DEF MpNext, MpStates, Process
  <2>0. Queued(h, x)
    <3>1. x = h \/ x = SdoQueueWrite(h, "control", ClearSetpoint)
      BY DEF MpExit
    <3> QED
      BY <3>1, QueueWriteOK, NothingQueued, WordsType
  <2>2. /\ x \in Process /\ SameAboveSdo(h, x) /\ SdoOK(x)
        /\ SdoEnabled(x) <=> SdoEnabled(h)
        /\ x.status = h.status
    BY <2>0 DEF Queued
  <2>3. MpHandle(h, e) = MpEnter(y)
    BY <1>2 DEF MpHandle
  <2> HIDE DEF n, x
  <2>4. /\ y \in Process /\ SameAboveMp(x, y) /\ y.mp = n
        /\ y.sdo = x.sdo /\ y.queue = x.queue /\ y.active = x.active
        /\ y.ses = x.ses /\ y.status = x.status
    BY <2>1, <2>2 DEF Process, SameAboveMp
  <2> HIDE DEF y
  <2>5. SdoOK(y) /\ (SdoEnabled(y) <=> SdoEnabled(x))
    BY <2>2, <2>4 DEF SdoOK, SdoEnabled
  <2>6. Queued(y, MpEnter(y))
    <3>1. \/ MpEnter(y) = y
          \/ MpEnter(y) = SdoQueueWrite(y, "mode", ModeHoming)
          \/ MpEnter(y) = SdoQueueWrite(y, "mode", ModePP)
          \/ MpEnter(y) = SdoQueueWrite(y, "control", NewSetpoint)
          \/ MpEnter(y) = SdoQueueWrite(y, "control", ClearSetpoint)
      BY DEF MpEnter
    <3> QED
      BY <2>4, <2>5, <3>1, QueueWriteOK, NothingQueued, WordsType
  <2> QED
    BY <2>2, <2>3, <2>4, <2>5, <2>6 DEF SameAboveSdo, SameAboveMp, Queued, n
<1> QED
  BY <1>1, <1>2

-----------------------------------------------------------------------------
\* What a handler of the DS402 machine leaves alone, and what links it to mp.
SameAboveDs(h, g) ==
    /\ g.intf = h.intf /\ g.handle = h.handle /\ g.reading = h.reading
    /\ g.net = h.net /\ g.nmt = h.nmt
    /\ g.quiet = h.quiet /\ g.measured = h.measured /\ g.acked = h.acked

DsLinked(h) == h.ds = "ST_DS_OPERATION_ENABLED" <=> h.mp # "ST_MP_DISABLED"

\* The drive machine takes the motion machine along with it.
LEMMA DsHandleOK ==
    ASSUME NEW h \in Process, SdoOK(h), DsLinked(h), NEW e
    PROVE  LET g == DsHandle(h, e)
           IN  /\ g \in Process /\ SameAboveDs(h, g) /\ SdoOK(g) /\ DsLinked(g)
               /\ g.ds = DsNext(h.ds, e)
               /\ g.ds = h.ds => g.mp = h.mp
               /\ g.ds # h.ds /\ g.ds = "ST_DS_OPERATION_ENABLED" =>
                     g.mp = "ST_MP_SWITCH_MODE_HOMING"
               /\ SdoEnabled(g) <=> SdoEnabled(h)
               /\ g.status = h.status
<1> DEFINE n == DsNext(h.ds, e)
           x == DsExit(h)
           y == [x EXCEPT !.ds = n]
<1>1. CASE n = h.ds
  BY <1>1 DEF DsHandle, SameAboveDs
<1>2. CASE n # h.ds
  <2>1. n \in DsStates
    BY DEF DsNext, DsStates, Process
  <2>2. /\ x \in Process /\ SameAboveMp(h, x) /\ SdoOK(x)
        /\ x.mp = "ST_MP_DISABLED"
        /\ SdoEnabled(x) <=> SdoEnabled(h)
        /\ x.status = h.status
    <3>1. CASE h.ds = "ST_DS_OPERATION_ENABLED"
      <4>1. MpNext(h.mp, "EV_MP_DS_INOPERATIONAL") = "ST_MP_DISABLED"
        BY <3>1 DEF DsLinked, MpNext
      <4> QED
        BY <3>1, <4>1, MpHandleOK DEF DsExit
    <3>2. CASE h.ds # "ST_DS_OPERATION_ENABLED"
      BY <3>2 DEF DsExit, DsLinked, SameAboveMp
    <3> QED
      BY <3>1, <3>2
  <2>3. DsHandle(h, e) = DsEnter(y)
    BY <1>2 DEF DsHandle
  <2> HIDE DEF n, x
  <2>4. /\ y \in Process /\ SameAboveDs(x, y) /\ y.ds = n /\ y.mp = x.mp
        /\ y.sdo = x.sdo /\ y.queue = x.queue /\ y.active = x.active
        /\ y.ses = x.ses /\ y.status = x.status
    BY <2>1, <2>2 DEF Process, SameAboveDs
  <2> HIDE DEF y
  <2>5. SdoOK(y) /\ (SdoEnabled(y) <=> SdoEnabled(x))
    BY <2>2, <2>4 DEF SdoOK, SdoEnabled
  <2>6. LET g == DsEnter(y)
        IN  /\ g \in Process /\ SameAboveDs(y, g) /\ SdoOK(g) /\ DsLinked(g)
            /\ g.ds = n
            /\ n = "ST_DS_OPERATION_ENABLED" => g.mp = "ST_MP_SWITCH_MODE_HOMING"
            /\ SdoEnabled(g) <=> SdoEnabled(y)
            /\ g.status = y.status
    <3>1. CASE n = "ST_DS_OPERATION_ENABLED"
      <4>1. DsEnter(y) = MpHandle(y, "EV_MP_DS_OPERATIONAL")
        BY <2>4, <3>1 DEF DsEnter
      <4>2. MpNext(y.mp, "EV_MP_DS_OPERATIONAL") = "ST_MP_SWITCH_MODE_HOMING"
        BY <2>2, <2>4 DEF MpNext
      <4> QED
        BY <2>4, <2>5, <3>1, <4>1, <4>2, MpHandleOK
           DEF SameAboveMp, SameAboveDs, DsLinked
    <3>2. CASE n # "ST_DS_OPERATION_ENABLED"
      <4>1. Queued(y, DsEnter(y))
        <5>1. \/ DsEnter(y) = y
              \/ DsEnter(y) = SdoQueueWrite(y, "control", Shutdown)
              \/ DsEnter(y) = SdoQueueWrite(y, "control", SwitchOn)
              \/ DsEnter(y) = SdoQueueWrite(y, "control", EnableOperation)
              \/ DsEnter(y) = SdoQueueRead(y, "clear_fault")
          BY <2>4, <3>2 DEF DsEnter
        <5> QED
          BY <2>4, <2>5, <5>1, QueueWriteOK, QueueReadOK, NothingQueued, WordsType
      <4> QED
        BY <2>2, <2>4, <3>2, <4>1 DEF Queued, SameAboveSdo, SameAboveDs, DsLinked
    <3> QED
      BY <3>1, <3>2
  <2> QED
    BY <1>2, <2>2, <2>3, <2>4, <2>5, <2>6 DEF SameAboveMp, SameAboveDs, n
<1> QED
  BY <1>1, <1>2

-----------------------------------------------------------------------------
\* What a handler of the network machine leaves alone, and what links it down.
SameAboveNet(h, g) ==
    /\ g.intf = h.intf /\ g.handle = h.handle /\ g.reading = h.reading
    /\ g.quiet = h.quiet /\ g.measured = h.measured

SdoNetStates == {"ST_NET_PREOPERATIONAL", "ST_NET_STARTREMOTENODE",
                 "ST_NET_OPERATIONAL"}

NetLinked(h) ==
    /\ DsLinked(h)
    /\ h.net = "ST_NET_OPERATIONAL" <=> h.ds # "ST_DS_DISABLED"
    /\ SdoEnabled(h) => h.net \in SdoNetStates

\* The configuration is a sequence of items of the current session.
LEMMA ConfigItemsType ==
    ASSUME NEW ses \in {0, 1}
    PROVE  LET items == ConfigItems(ses)
           IN  /\ items \in Seq(Item) /\ Len(items) = Len(Config)
               /\ \A i \in 1..Len(items) :
                     items[i].ses = ses /\ items[i].ob = Config[i]
<1>1. Len(Config) \in Nat
  BY ConfigAssumption
<1>2. \A i \in 1..Len(Config) :
         [op |-> "write", ob |-> Config[i], val |-> i,
          cb |-> IF i = Len(Config) THEN "final" ELSE "config", ses |-> ses] \in Item
  BY <1>1 DEF Item, Object, Callbacks
<1>3. ConfigItems(ses) \in [1..Len(Config) -> Item]
  BY <1>2 DEF ConfigItems
<1>4. ConfigItems(ses) \in Seq(Item) /\ Len(ConfigItems(ses)) = Len(Config)
  BY <1>1, <1>3
<1>5. \A i \in 1..Len(Config) :
         ConfigItems(ses)[i].ses = ses /\ ConfigItems(ses)[i].ob = Config[i]
  BY DEF ConfigItems
<1> QED
  BY <1>4, <1>5

\* mch_net_queue_setup keeps everything but the queue and the count.
LEMMA QueueSetupOK ==
    ASSUME NEW h \in Process, SdoOK(h)
    PROVE  LET g == NetQueueSetup(h)
           IN  /\ g \in Process /\ SdoOK(g) /\ SameAboveNet(h, g)
               /\ g.net = h.net /\ g.ds = h.ds /\ g.mp = h.mp
               /\ SdoEnabled(g) <=> SdoEnabled(h)
<1> DEFINE f == [h EXCEPT !.acked = 0]
<1>1. /\ f \in Process /\ SameAboveNet(h, f) /\ f.net = h.net /\ f.ds = h.ds
      /\ f.mp = h.mp /\ f.sdo = h.sdo /\ f.queue = h.queue /\ f.active = h.active
      /\ f.ses = h.ses
  BY DEF Process, SameAboveNet
<1>2. NetQueueSetup(h) = SdoQueueAll(f, ConfigItems(h.ses))
  BY DEF NetQueueSetup
<1> HIDE DEF f
<1>3. SdoOK(f) /\ (SdoEnabled(f) <=> SdoEnabled(h)) /\ h.ses \in {0, 1}
  BY <1>1 DEF SdoOK, SdoEnabled, Process
<1>4. LET g == SdoQueueAll(f, ConfigItems(h.ses))
      IN  /\ g \in Process /\ SameAboveSdo(f, g) /\ SdoOK(g)
          /\ SdoEnabled(g) <=> SdoEnabled(f)
  <2>1. /\ ConfigItems(h.ses) \in Seq(Item)
        /\ \A i \in 1..Len(ConfigItems(h.ses)) : ConfigItems(h.ses)[i].ses = f.ses
    BY <1>1, <1>3, ConfigItemsType
  <2> QED
    BY <1>1, <1>3, <2>1, QueueAllOK
<1> QED
  BY <1>1, <1>2, <1>3, <1>4 DEF SameAboveSdo, SameAboveNet

\* An NMT command changes nothing else.
LEMMA SendNmtOK ==
    ASSUME NEW h \in Process, SdoOK(h), NEW c \in NmtCommands
    PROVE  LET g == SendNmt(h, c)
           IN  /\ g \in Process /\ SdoOK(g) /\ SameAboveNet(h, g)
               /\ g.net = h.net /\ g.ds = h.ds /\ g.mp = h.mp
               /\ SdoEnabled(g) <=> SdoEnabled(h)
<1> DEFINE g == [h EXCEPT !.nmt = c]
<1>1. /\ g \in Process /\ SameAboveNet(h, g) /\ g.net = h.net /\ g.ds = h.ds
      /\ g.mp = h.mp /\ g.sdo = h.sdo /\ g.queue = h.queue /\ g.active = h.active
      /\ g.ses = h.ses
  BY DEF Process, SameAboveNet
<1> HIDE DEF g
<1>2. SdoOK(g) /\ (SdoEnabled(g) <=> SdoEnabled(h))
  BY <1>1 DEF SdoOK, SdoEnabled
<1> QED
  BY <1>1, <1>2 DEF SendNmt, g

(***************************************************************************)
(* Entering a network state, with the machines below as on_exit left them. *)
(***************************************************************************)
LEMMA NetEnterOK ==
    ASSUME NEW h \in Process, SdoOK(h), h.mp = "ST_MP_DISABLED",
           h.ds = "ST_DS_DISABLED",
           h.net \in {"ST_NET_STARTREMOTENODE", "ST_NET_ENTERPREOPERATIONAL"}
              /\ SdoEnabled(h) => h.net = "ST_NET_STARTREMOTENODE"
    PROVE  LET g == NetEnter(h)
           IN  /\ g \in Process /\ SdoOK(g) /\ NetLinked(g)
               /\ g.net = h.net /\ SameAboveNet(h, g)
               /\ g.mp = "ST_MP_DISABLED"
<1> DEFINE d == SdoHandle(h, "EV_NET_SDO_DISABLED")
           u == SdoHandle(h, "EV_NET_SDO_ENABLED")
           g == NetEnter(h)
<1>1. /\ d \in Process /\ SdoOK(d) /\ ~SdoEnabled(d) /\ SameAboveSdo(h, d)
  BY DisableOK
<1>2. /\ u \in Process /\ SdoOK(u) /\ SdoEnabled(u) /\ SameAboveSdo(h, u)
  BY EnableOK
<1>3. "NMT_ENTERPREOPERATIONAL" \in NmtCommands /\ "NMT_STARTREMOTENODE" \in NmtCommands
  BY DEF NmtCommands
<1> HIDE DEF d, u
<1>4. CASE h.net = "ST_NET_DISABLED"
  <2>1. g = d
    BY <1>4 DEF NetEnter, d
  <2> QED
    BY <1>1, <1>4, <2>1 DEF NetLinked, DsLinked, SameAboveSdo, SameAboveNet
<1>5. CASE h.net \in {"ST_NET_UNKNOWN", "ST_NET_STOPPED"}
  <2>1. \/ g = SendNmt(d, "NMT_ENTERPREOPERATIONAL")
        \/ g = SendNmt(d, "NMT_STARTREMOTENODE")
    BY <1>5 DEF NetEnter, d
  <2>2. /\ g \in Process /\ SdoOK(g) /\ SameAboveNet(d, g)
        /\ g.net = d.net /\ g.ds = d.ds /\ g.mp = d.mp
        /\ SdoEnabled(g) <=> SdoEnabled(d)
    BY <1>1, <1>3, <2>1, SendNmtOK
  <2> QED
    BY <1>1, <1>5, <2>2 DEF NetLinked, DsLinked, SameAboveSdo, SameAboveNet
<1>6. CASE h.net \in {"ST_NET_STARTREMOTENODE", "ST_NET_ENTERPREOPERATIONAL"}
  <2>1. \/ g = SendNmt(h, "NMT_ENTERPREOPERATIONAL")
        \/ g = SendNmt(h, "NMT_STARTREMOTENODE")
    BY <1>6 DEF NetEnter
  <2>2. /\ g \in Process /\ SdoOK(g) /\ SameAboveNet(h, g)
        /\ g.net = h.net /\ g.ds = h.ds /\ g.mp = h.mp
        /\ SdoEnabled(g) <=> SdoEnabled(h)
    BY <1>3, <2>1, SendNmtOK
  <2> QED
    BY <1>6, <2>2 DEF NetLinked, DsLinked, SdoNetStates
<1>7. CASE h.net = "ST_NET_OPERATIONAL"
  <2>1. g = DsHandle(u, "EV_DS_NET_OPERATIONAL")
    BY <1>7 DEF NetEnter, u
  <2>2. DsLinked(u) /\ DsNext(u.ds, "EV_DS_NET_OPERATIONAL") = "ST_DS_UNKNOWN"
    BY <1>2 DEF DsLinked, DsNext, SameAboveSdo
  <2>3. /\ g \in Process /\ SameAboveDs(u, g) /\ SdoOK(g) /\ DsLinked(g)
        /\ g.ds = "ST_DS_UNKNOWN"
    BY <1>2, <2>1, <2>2, DsHandleOK
  <2> QED
    BY <1>2, <1>7, <2>3
       DEF NetLinked, DsLinked, SdoNetStates, SameAboveSdo, SameAboveDs, SameAboveNet
<1>8. CASE h.net = "ST_NET_PREOPERATIONAL"
  <2>1. g = NetQueueSetup(u)
    BY <1>8 DEF NetEnter, u
  <2>2. /\ g \in Process /\ SdoOK(g) /\ SameAboveNet(u, g)
        /\ g.net = u.net /\ g.ds = u.ds /\ g.mp = u.mp
    BY <1>2, <2>1, QueueSetupOK
  <2> QED
    BY <1>2, <1>8, <2>2
       DEF NetLinked, DsLinked, SdoNetStates, SameAboveSdo, SameAboveNet
<1> QED
  BY <1>4, <1>5, <1>6, <1>7, <1>8 DEF Process, NetStates

\* The network machine takes the SDO and drive machines along with it.
LEMMA NetHandleOK ==
    ASSUME NEW h \in Process, SdoOK(h), NetLinked(h), NEW e
    PROVE  LET g == NetHandle(h, e)
           IN  /\ g \in Process /\ SdoOK(g) /\ NetLinked(g)
               /\ g.net = NetNext(h.net, e) /\ SameAboveNet(h, g)
               /\ g.net = h.net => g = h
               /\ g.net # h.net => g.mp = "ST_MP_DISABLED"
<1> DEFINE n == NetNext(h.net, e)
           x == NetExit(h)
           y == [x EXCEPT !.net = n]
<1>1. CASE n = h.net
  BY <1>1 DEF NetHandle, SameAboveNet
<1>2. CASE n # h.net
  <2>1. n \in NetStates
    BY DEF NetNext, NetStates, Process
  <2>2. /\ x \in Process /\ SdoOK(x) /\ SameAboveDs(h, x)
        /\ x.ds = "ST_DS_DISABLED" /\ x.mp = "ST_MP_DISABLED"
        /\ SdoEnabled(x) <=> SdoEnabled(h)
    <3>1. CASE h.net = "ST_NET_OPERATIONAL"
      <4>1. DsNext(h.ds, "EV_DS_NET_INOPERATIONAL") = "ST_DS_DISABLED"
        BY <3>1 DEF NetLinked, DsNext
      <4>2. x = DsHandle(h, "EV_DS_NET_INOPERATIONAL")
        BY <3>1 DEF NetExit
      <4> QED
        BY <4>1, <4>2, DsHandleOK DEF NetLinked, DsLinked
    <3>2. CASE h.net # "ST_NET_OPERATIONAL"
      BY <3>2 DEF NetExit, NetLinked, DsLinked, SameAboveDs
    <3> QED
      BY <3>1, <3>2
  <2>3. NetHandle(h, e) = NetEnter(y)
    BY <1>2 DEF NetHandle
  <2>4. n = "ST_NET_STARTREMOTENODE" => h.net = "ST_NET_PREOPERATIONAL"
    BY <1>2 DEF NetNext
  <2>5. n = "ST_NET_ENTERPREOPERATIONAL" => h.net = "ST_NET_UNKNOWN"
    BY <1>2 DEF NetNext
  <2> HIDE DEF x
  <2>6. /\ y \in Process /\ SameAboveNet(x, y) /\ y.net = n /\ y.mp = x.mp
        /\ y.ds = x.ds /\ y.sdo = x.sdo /\ y.queue = x.queue
        /\ y.active = x.active /\ y.ses = x.ses
    BY <2>1, <2>2 DEF Process, SameAboveNet
  <2> HIDE DEF y
  <2>7. SdoOK(y) /\ (SdoEnabled(y) <=> SdoEnabled(x))
    BY <2>2, <2>6 DEF SdoOK, SdoEnabled
  <2>8. SdoEnabled(y) => n # "ST_NET_ENTERPREOPERATIONAL"
    BY <2>2, <2>5, <2>7 DEF NetLinked, SdoNetStates
  <2>9. LET g == NetEnter(y)
        IN  /\ g \in Process /\ SdoOK(g) /\ NetLinked(g)
            /\ g.net = y.net /\ SameAboveNet(y, g)
            /\ g.mp = "ST_MP_DISABLED"
    <3>1. y.net \in {"ST_NET_STARTREMOTENODE", "ST_NET_ENTERPREOPERATIONAL"}
             /\ SdoEnabled(y) => y.net = "ST_NET_STARTREMOTENODE"
      BY <2>6, <2>8
    <3> QED
      BY <2>2, <2>6, <2>7, <3>1, NetEnterOK
  <2> QED
    BY <1>2, <2>2, <2>3, <2>6, <2>9 DEF SameAboveDs, SameAboveNet
<1> QED
  BY <1>1, <1>2

-----------------------------------------------------------------------------
\* The invariant the theorems rest on: the type, the SDO machine, the links.
Linked(h) ==
    /\ NetLinked(h)
    /\ h.net # "ST_NET_DISABLED" => h.intf = "ST_INTF_OPENED"

Good(h) == h \in Process /\ SdoOK(h) /\ Linked(h)

IInv == Good(host)

\* Network events other than the opening keep the invariant.
LEMMA GoodNet ==
    ASSUME NEW h, Good(h), NEW e, e # "EV_NET_INTF_OPENED"
    PROVE  Good(NetHandle(h, e))
<1>1. h.net = "ST_NET_DISABLED" => NetNext(h.net, e) = "ST_NET_DISABLED"
  BY DEF NetNext
<1> QED
  BY <1>1, NetHandleOK DEF Good, Linked, SameAboveNet

\* Events of the drive status keep the invariant.
LEMMA GoodDs ==
    ASSUME NEW h, Good(h),
           NEW e, e \notin {"EV_DS_NET_OPERATIONAL", "EV_DS_NET_INOPERATIONAL"}
    PROVE  Good(DsHandle(h, e))
<1> DEFINE g == DsHandle(h, e)
<1>1. /\ g \in Process /\ SameAboveDs(h, g) /\ SdoOK(g) /\ DsLinked(g)
      /\ g.ds = DsNext(h.ds, e)
      /\ SdoEnabled(g) <=> SdoEnabled(h)
  BY DsHandleOK DEF Good, Linked, NetLinked
<1>2. h.ds = "ST_DS_DISABLED" <=> DsNext(h.ds, e) = "ST_DS_DISABLED"
  BY DEF DsNext
<1> HIDE DEF g
<1>3. Good(g)
  BY <1>1, <1>2 DEF Good, Linked, NetLinked, SameAboveDs
<1> QED
  BY <1>3 DEF g

\* Events of the motion status keep the invariant.
LEMMA GoodMp ==
    ASSUME NEW h, Good(h),
           NEW e, e \notin {"EV_MP_DS_OPERATIONAL", "EV_MP_DS_INOPERATIONAL"}
    PROVE  Good(MpHandle(h, e))
<1> DEFINE g == MpHandle(h, e)
<1>1. /\ g \in Process /\ SameAboveMp(h, g) /\ SdoOK(g)
      /\ g.mp = MpNext(h.mp, e)
      /\ SdoEnabled(g) <=> SdoEnabled(h)
  BY MpHandleOK DEF Good
<1>2. h.mp = "ST_MP_DISABLED" <=> MpNext(h.mp, e) = "ST_MP_DISABLED"
  BY DEF MpNext
<1> HIDE DEF g
<1>3. Good(g)
  BY <1>1, <1>2 DEF Good, Linked, NetLinked, DsLinked, SameAboveMp
<1> QED
  BY <1>3 DEF g

\* What the SDO machine may do by itself keeps the invariant.
LEMMA GoodSdo ==
    ASSUME NEW h, Good(h), NEW g \in Process, SameAboveSdo(h, g), SdoOK(g),
           SdoEnabled(g) => SdoEnabled(h)
    PROVE  Good(g)
BY DEF Good, Linked, NetLinked, DsLinked, SameAboveSdo

\* Writes by clients keep the invariant.
LEMMA GoodQueueWrite ==
    ASSUME NEW h, Good(h), NEW ob \in Object, NEW val \in Nat
    PROVE  Good(SdoQueueWrite(h, ob, val))
<1>1. Queued(h, SdoQueueWrite(h, ob, val))
  BY QueueWriteOK DEF Good
<1> QED
  BY <1>1, GoodSdo DEF Queued

\* Fields no link depends on.
LEMMA GoodFrame ==
    ASSUME NEW h, Good(h), NEW g \in Process,
           g.intf = h.intf, g.net = h.net, g.ds = h.ds, g.mp = h.mp,
           g.sdo = h.sdo, g.queue = h.queue, g.active = h.active, g.ses = h.ses
    PROVE  Good(g)
BY DEF Good, Linked, NetLinked, DsLinked, SdoOK, SdoEnabled

\* The callback of a confirmed item keeps the invariant.
LEMMA GoodConfirmed ==
    ASSUME NEW h, Good(h)
    PROVE  Good(ItemConfirmed(h))
<1> DEFINE k == [h EXCEPT !.acked = @ + 1]
<1>1. h \in Process
  BY DEF Good
<1>2. /\ k \in Process /\ k.intf = h.intf /\ k.net = h.net /\ k.ds = h.ds
      /\ k.mp = h.mp /\ k.sdo = h.sdo /\ k.queue = h.queue
      /\ k.active = h.active /\ k.ses = h.ses
  BY <1>1, SMTT(30) DEF Process
<1>3. \/ ItemConfirmed(h) = k \/ ItemConfirmed(h) = h
      \/ ItemConfirmed(h) = NetHandle(k, "EV_NET_UPLOAD_COMPLETE")
  BY DEF ItemConfirmed
<1> HIDE DEF k
<1> QED
  BY <1>2, <1>3, GoodFrame, GoodNet

\* An answer to an SDO keeps the invariant, callbacks included.
LEMMA GoodDispatch ==
    ASSUME NEW h, Good(h), NEW r \in Frame, NEW answer
    PROVE  Good(DispatchSdo(h, r, answer))
<1> DEFINE a == [h EXCEPT !.status = "aborted"]
           x == [h EXCEPT !.status = "exited"]
<1>1. Good(a) /\ Good(x)
  <2>1. h \in Process
    BY DEF Good
  <2>2. /\ a \in Process /\ a.intf = h.intf /\ a.net = h.net /\ a.ds = h.ds
        /\ a.mp = h.mp /\ a.sdo = h.sdo /\ a.queue = h.queue
        /\ a.active = h.active /\ a.ses = h.ses
    BY <2>1 DEF Process
  <2>3. /\ x \in Process /\ x.intf = h.intf /\ x.net = h.net /\ x.ds = h.ds
        /\ x.mp = h.mp /\ x.sdo = h.sdo /\ x.queue = h.queue
        /\ x.active = h.active /\ x.ses = h.ses
    BY <2>1 DEF Process
  <2> HIDE DEF a, x
  <2> QED
    BY <2>2, <2>3, GoodFrame
<1>2. Good(ItemConfirmed(h))
  BY GoodConfirmed
<1>3. \A f, e : Good(f) /\ e \in {"EV_SDO_READ_RESPONSE", "EV_SDO_WRITE_RESPONSE",
                                  "EV_SDO_ABORT_RESPONSE"} => Good(SdoFinish(f, e))
  <2> SUFFICES ASSUME NEW f, Good(f),
                      NEW e \in {"EV_SDO_READ_RESPONSE", "EV_SDO_WRITE_RESPONSE",
                                 "EV_SDO_ABORT_RESPONSE"}
               PROVE  Good(SdoFinish(f, e))
    OBVIOUS
  <2>1. f \in Process /\ SdoOK(f)
    BY DEF Good
  <2> QED
    BY <2>1, FinishOK, GoodSdo
<1>4. Good(SdoConfirmCallback(h, r))
  <2>1. \/ SdoConfirmCallback(h, r) = a
        \/ SdoConfirmCallback(h, r) = SdoFinish(ItemConfirmed(h), "EV_SDO_READ_RESPONSE")
        \/ SdoConfirmCallback(h, r) = SdoFinish(ItemConfirmed(h), "EV_SDO_WRITE_RESPONSE")
    BY DEF SdoConfirmCallback
  <2> HIDE DEF a
  <2> QED
    BY <1>1, <1>2, <1>3, <2>1
<1>5. Good(SdoAbortCallback(h, r))
  <2>1. \/ SdoAbortCallback(h, r) = a \/ SdoAbortCallback(h, r) = x
        \/ SdoAbortCallback(h, r) = SdoFinish(h, "EV_SDO_ABORT_RESPONSE")
    BY DEF SdoAbortCallback
  <2> HIDE DEF a, x
  <2> QED
    BY <1>1, <1>3, <2>1
<1>6. \/ DispatchSdo(h, r, answer) = h
      \/ DispatchSdo(h, r, answer) = SdoConfirmCallback(h, r)
      \/ DispatchSdo(h, r, answer) = SdoAbortCallback(h, r)
  BY DEF DispatchSdo
<1> QED
  BY <1>4, <1>5, <1>6

-----------------------------------------------------------------------------
\* The interface machine touches none of the fields of the machines above it.
SameMachines(h, g) ==
    /\ g.net = h.net /\ g.sdo = h.sdo /\ g.ds = h.ds /\ g.mp = h.mp
    /\ g.queue = h.queue /\ g.active = h.active /\ g.ses = h.ses
    /\ g.acked = h.acked /\ g.cw = h.cw /\ g.badStart = h.badStart

(***************************************************************************)
(* intf_close, whether or not CAN_Close succeeds: nothing but the device   *)
(* changes, or the network machine hears of the closing, in CLOSED.        *)
(***************************************************************************)
LEMMA CloseCases ==
    ASSUME NEW h \in Process, NEW ok \in BOOLEAN
    PROVE  LET c == IntfClose(h, ok)
           IN  \/ c \in Process /\ SameMachines(h, c) /\ c.intf = h.intf
               \/ \E j \in Process : /\ SameMachines(h, j)
                                     /\ j.intf = "ST_INTF_CLOSED"
                                     /\ c = NetHandle(j, "EV_NET_INTF_CLOSED")
<1> DEFINE g == [h EXCEPT !.reading = FALSE]
           f == [g EXCEPT !.handle = FALSE]
           i == [f EXCEPT !.intf = "ST_INTF_CLOSING"]
           j == [i EXCEPT !.intf = "ST_INTF_CLOSED"]
<1>1. /\ g \in Process /\ SameMachines(h, g) /\ g.intf = h.intf
      /\ f \in Process /\ SameMachines(h, f) /\ f.intf = h.intf
  BY DEF Process, SameMachines
<1>2. j \in Process /\ SameMachines(h, j) /\ j.intf = "ST_INTF_CLOSED"
  BY DEF Process, SameMachines, IntfStates
<1>3. IntfClose(h, ok) = g \/ IntfClose(h, ok) = IntfHandleClose(f)
  BY DEF IntfClose
<1>4. IntfHandleDone(i, "EV_INTF_CLOSED") = NetHandle(j, "EV_NET_INTF_CLOSED")
  <2>1. i.intf = "ST_INTF_CLOSING"
    BY DEF Process
  <2>2. IntfNext(i.intf, "EV_INTF_CLOSED") = "ST_INTF_CLOSED"
    BY <2>1 DEF IntfNext
  <2> HIDE DEF i
  <2> QED
    BY <1>2, <2>1, <2>2 DEF IntfHandleDone
<1>5. \/ IntfHandleClose(f) = f
      \/ IntfHandleClose(f) = IntfHandleDone(i, "EV_INTF_CLOSED")
  <2>1. \/ IntfNext(f.intf, "EV_INTF_CLOSE") = f.intf
        \/ IntfNext(f.intf, "EV_INTF_CLOSE") = "ST_INTF_CLOSING"
    BY DEF IntfNext
  <2> HIDE DEF f
  <2> QED
    BY <2>1 DEF IntfHandleClose
<1> HIDE DEF g, f, i, j
<1> QED
  BY <1>1, <1>2, <1>3, <1>4, <1>5

(***************************************************************************)
(* sled_create: the device does not open and nothing else happens, or the  *)
(* network machine hears of the opening, in OPENED.                        *)
(***************************************************************************)
LEMMA OpenCases ==
    ASSUME NEW ok \in BOOLEAN
    PROVE  LET c == IntfOpen(Created, ok)
           IN  \/ c \in Process /\ SameMachines(Created, c)
               \/ \E j \in Process : /\ SameMachines(Created, j)
                                     /\ j.intf = "ST_INTF_OPENED"
                                     /\ c = NetHandle(j, "EV_NET_INTF_OPENED")
<1> DEFINE g == [Created EXCEPT !.intf = "ST_INTF_OPENING"]
           f == [g EXCEPT !.handle = TRUE, !.reading = TRUE]
           j == [f EXCEPT !.intf = "ST_INTF_OPENED"]
<1>1. Created \in Process
  <2>1. <<>> \in Seq(Item) /\ <<>> \in Seq(Frame)
    OBVIOUS
  <2> QED
    BY <2>1 DEF Created, Process, IntfStates, NetStates, SdoStates, DsStates,
                MpStates, NmtCommands
<1>2. /\ g \in Process /\ SameMachines(Created, g) /\ g.intf = "ST_INTF_OPENING"
      /\ j \in Process /\ SameMachines(Created, j) /\ j.intf = "ST_INTF_OPENED"
      /\ f.intf = "ST_INTF_OPENING"
  BY <1>1 DEF Process, SameMachines, IntfStates
<1>3. IntfOpen(Created, ok) = IF ok THEN IntfHandleDone(f, "EV_INTF_OPENED")
                                    ELSE IntfHandleDone(g, "EV_INTF_CLOSED")
  BY DEF IntfOpen, IntfNext, Created
<1>4. IntfHandleDone(f, "EV_INTF_OPENED") = NetHandle(j, "EV_NET_INTF_OPENED")
  <2>1. IntfNext(f.intf, "EV_INTF_OPENED") = "ST_INTF_OPENED"
    BY <1>2 DEF IntfNext
  <2> HIDE DEF f
  <2> QED
    BY <1>2, <2>1 DEF IntfHandleDone
<1>5. IntfHandleDone(g, "EV_INTF_CLOSED") = g
  BY <1>2 DEF IntfHandleDone, IntfNext
<1> HIDE DEF g, f, j
<1> QED
  BY <1>2, <1>3, <1>4, <1>5

\* Records alike in the machines are alike in their discipline and links.
LEMMA MachinesAlike ==
    ASSUME NEW h, SdoOK(h), NetLinked(h), NEW g, SameMachines(h, g)
    PROVE  SdoOK(g) /\ NetLinked(g)
BY DEF SameMachines, SdoOK, SdoEnabled, NetLinked, DsLinked

\* intf_close keeps the invariant.
LEMMA GoodClose ==
    ASSUME NEW h, Good(h), NEW ok \in BOOLEAN
    PROVE  Good(IntfClose(h, ok))
<1> DEFINE c == IntfClose(h, ok)
<1>1. h \in Process /\ SdoOK(h) /\ NetLinked(h)
  BY DEF Good, Linked
<1>2. CASE c \in Process /\ SameMachines(h, c) /\ c.intf = h.intf
  BY <1>2, GoodFrame DEF SameMachines
<1>3. CASE \E j \in Process : /\ SameMachines(h, j) /\ j.intf = "ST_INTF_CLOSED"
                              /\ c = NetHandle(j, "EV_NET_INTF_CLOSED")
  <2>1. PICK j \in Process : /\ SameMachines(h, j)
                             /\ c = NetHandle(j, "EV_NET_INTF_CLOSED")
    BY <1>3
  <2>2. NetNext(j.net, "EV_NET_INTF_CLOSED") = "ST_NET_DISABLED"
    BY DEF NetNext
  <2> HIDE DEF c
  <2> QED
    BY <1>1, <2>1, <2>2, MachinesAlike, NetHandleOK DEF Good, Linked, c
<1> QED
  BY <1>1, <1>2, <1>3, CloseCases

\* The machines as sled_create leaves them satisfy the invariant.
LEMMA GoodInit == Init => IInv
<1> SUFFICES ASSUME NEW ok \in BOOLEAN PROVE Good(IntfOpen(Created, ok))
  BY DEF Init, IInv
<1> DEFINE c == IntfOpen(Created, ok)
<1>1. /\ Created.net = "ST_NET_DISABLED" /\ Created.sdo = "ST_SDO_DISABLED"
      /\ Created.ds = "ST_DS_DISABLED" /\ Created.mp = "ST_MP_DISABLED"
  BY DEF Created
<1>2. SdoOK(Created) /\ NetLinked(Created)
  BY <1>1 DEF NetLinked, DsLinked, SdoOK, SdoEnabled
<1>3. CASE c \in Process /\ SameMachines(Created, c)
  BY <1>1, <1>2, <1>3, MachinesAlike DEF Good, Linked, SameMachines
<1>4. CASE \E j \in Process : /\ SameMachines(Created, j)
                              /\ j.intf = "ST_INTF_OPENED"
                              /\ c = NetHandle(j, "EV_NET_INTF_OPENED")
  <2>1. PICK j \in Process : /\ SameMachines(Created, j)
                             /\ j.intf = "ST_INTF_OPENED"
                             /\ c = NetHandle(j, "EV_NET_INTF_OPENED")
    BY <1>4
  <2> HIDE DEF c
  <2>2. SdoOK(j) /\ NetLinked(j)
    BY <1>2, <2>1, MachinesAlike
  <2> QED
    BY <2>1, <2>2, NetHandleOK DEF Good, Linked, SameAboveNet, c
<1> QED
  BY <1>3, <1>4, OpenCases

-----------------------------------------------------------------------------
\* A callback cut short by the end of the process leaves the rest as it was.
LEMMA GoodSettle ==
    ASSUME IInv, NEW h, Good(h)
    PROVE  Good(Settle(h))
<1> DEFINE g == [host EXCEPT !.status = h.status]
<1>1. /\ g \in Process /\ g.intf = host.intf /\ g.net = host.net /\ g.ds = host.ds
      /\ g.mp = host.mp /\ g.sdo = host.sdo /\ g.queue = host.queue
      /\ g.active = host.active /\ g.ses = host.ses
  BY DEF IInv, Good, Process
<1>2. Settle(h) = h \/ Settle(h) = g
  BY DEF Settle
<1> HIDE DEF g
<1> QED
  BY <1>1, <1>2, GoodFrame DEF IInv

\* An NMT report keeps the invariant.
LEMMA GoodNmt ==
    ASSUME NEW h, Good(h), NEW s \in NmtReports
    PROVE  Good(NmtReceived(h, s))
<1> DEFINE k == IF s = "other" THEN h ELSE NetHandle(h, s)
           g == [k EXCEPT !.quiet = FALSE]
<1>1. s # "EV_NET_INTF_OPENED"
  BY DEF NmtReports
<1>2. Good(k)
  BY <1>1, GoodNet
<1>3. NmtReceived(h, s) = g
  BY DEF NmtReceived
<1> HIDE DEF k
<1>4. /\ g \in Process /\ g.intf = k.intf /\ g.net = k.net /\ g.ds = k.ds
      /\ g.mp = k.mp /\ g.sdo = k.sdo /\ g.queue = k.queue
      /\ g.active = k.active /\ g.ses = k.ses
  BY <1>2 DEF Good, Process
<1> HIDE DEF g
<1> QED
  BY <1>2, <1>3, <1>4, GoodFrame

\* A status report keeps the invariant, through all the events it raises.
LEMMA GoodTpdo1 ==
    ASSUME NEW h, Good(h), NEW s \in StatusWords, NEW on \in BOOLEAN,
           NEW m \in DriveModes, NEW b \in BOOLEAN
    PROVE  Good(Tpdo1Received(h, s, on, m, b))
<1> DEFINE x == StatusReceived(h, s)
           y == VoltageReceived(x, on)
           pp == MpHandle(y, "EV_MP_MODE_PP")
           hh == MpHandle(y, "EV_MP_MODE_HOMING")
<1>1. Good(x)
  <2>1. x = h \/ x = DsHandle(h, s)
    BY DEF StatusReceived
  <2>2. s \notin {"EV_DS_NET_OPERATIONAL", "EV_DS_NET_INOPERATIONAL"}
    BY DEF StatusWords
  <2> QED
    BY <2>1, <2>2, GoodDs
<1> HIDE DEF x
<1>2. Good(y)
  <2>1. \/ y = DsHandle(x, "EV_DS_VOLTAGE_ENABLED")
        \/ y = DsHandle(x, "EV_DS_VOLTAGE_DISABLED")
    BY DEF VoltageReceived
  <2> QED
    BY <1>1, <2>1, GoodDs
<1> HIDE DEF y
<1>3. Good(pp) /\ Good(hh)
  BY <1>2, GoodMp
<1>4. \/ Tpdo1Received(h, s, on, m, b) = y
      \/ Tpdo1Received(h, s, on, m, b) = MpHandle(pp, "EV_MP_SETPOINT_ACK")
      \/ Tpdo1Received(h, s, on, m, b) = MpHandle(pp, "EV_MP_SETPOINT_NACK")
      \/ Tpdo1Received(h, s, on, m, b) = MpHandle(hh, "EV_MP_HOMED")
      \/ Tpdo1Received(h, s, on, m, b) = MpHandle(hh, "EV_MP_NOTHOMED")
  BY DEF Tpdo1Received, ModeReceived, x, y
<1> HIDE DEF pp, hh
<1> QED
  BY <1>2, <1>3, <1>4, GoodMp

\* The writes of a profile are a sequence of items of the current session.
LEMMA ProfileItemsType ==
    ASSUME NEW n \in 0..Len(ProfileFields), NEW ses \in {0, 1}
    PROVE  LET items == ProfileItems(n, ses)
           IN  /\ items \in Seq(Item) /\ Len(items) = n
               /\ \A i \in 1..Len(items) :
                     /\ items[i].ses = ses /\ items[i].cb = "profile"
                     /\ items[i].ob = ProfileFields[i]
<1>1. Len(ProfileFields) \in Nat /\ n \in Nat
  BY FieldsAssumption
<1>2. \A i \in 1..n : [op |-> "write", ob |-> ProfileFields[i], val |-> 0,
                       cb |-> "profile", ses |-> ses] \in Item
  BY <1>1 DEF Item, Object, Callbacks
<1>3. ProfileItems(n, ses) \in [1..n -> Item]
  BY <1>2 DEF ProfileItems
<1>4. ProfileItems(n, ses) \in Seq(Item) /\ Len(ProfileItems(n, ses)) = n
  BY <1>1, <1>3
<1> QED
  BY <1>4 DEF ProfileItems

\* Writing the pending changes of a profile keeps the invariant.
LEMMA GoodWritePending ==
    ASSUME NEW h, Good(h), NEW n \in 0..Len(ProfileFields), NEW load \in BOOLEAN
    PROVE  LET g == WritePendingChanges(h, n, load)
           IN  Good(g) /\ SameAboveSdo(h, g)
<1> DEFINE l == LoadTask(h, load)
           items == ProfileItems(n, l.ses)
           q == SdoQueueAll(l, items)
<1>1. Len(ProfileFields) \in Nat /\ n \in Nat
  BY FieldsAssumption
<1>2. h \in Process /\ SdoOK(h)
  BY DEF Good, Process
<1>0. Good(l) /\ l \in Process /\ l.ses \in {0, 1} /\ SdoOK(l) /\ SameAboveSdo(h, l)
  <2>1. l = h \/ l = SdoQueueWrite(h, "copy_task", 0)
    BY DEF LoadTask
  <2>2. CASE l = h
    BY <1>2, <2>2 DEF Process, SameAboveSdo
  <2>3. CASE l = SdoQueueWrite(h, "copy_task", 0)
    <3>1. Queued(h, l)
      BY <1>2, <2>3, QueueWriteOK, WordsType
    <3> QED
      BY <3>1, GoodSdo DEF Queued, Process
  <2> QED
    BY <2>1, <2>2, <2>3
<1>5. items \in Seq(Item)
  BY <1>0, ProfileItemsType
<1>6. \A i \in 1..Len(items) : items[i].ses = l.ses
  BY <1>0, ProfileItemsType
<1> HIDE DEF items, l
<1>7. Good(q) /\ SameAboveSdo(l, q)
  BY <1>0, <1>5, <1>6, QueueAllOK, GoodSdo
<1>8. \/ WritePendingChanges(h, n, load) = h
      \/ WritePendingChanges(h, n, load) = SdoQueueWrite(q, "copy_task", 0)
  BY DEF WritePendingChanges, items, l
<1> HIDE DEF q
<1>9. /\ Good(SdoQueueWrite(q, "copy_task", 0))
      /\ SameAboveSdo(q, SdoQueueWrite(q, "copy_task", 0))
  BY <1>7, GoodQueueWrite, QueueWriteOK, WordsType DEF Good, Queued
<1> QED
  BY <1>0, <1>7, <1>8, <1>9 DEF SameAboveSdo

\* Executing a profile keeps the invariant.
LEMMA GoodExecute ==
    ASSUME NEW h, Good(h), NEW n \in 0..Len(ProfileFields), NEW load \in BOOLEAN
    PROVE  Good(ProfileExecute(h, n, load))
<1> DEFINE w == WritePendingChanges(h, n, load)
           t == SdoQueueWrite(w, "motion_task", 0)
           c == SdoQueueWrite(t, "control", NewSetpoint)
<1>1. Good(w)
  BY GoodWritePending
<1>2. \/ ProfileExecute(h, n, load) = h
      \/ ProfileExecute(h, n, load) = MpHandle(c, "EV_MP_SETPOINT_SET")
  BY DEF ProfileExecute
<1> HIDE DEF w
<1>3. Good(t)
  BY <1>1, GoodQueueWrite, WordsType
<1> HIDE DEF t
<1>4. Good(c)
  BY <1>3, GoodQueueWrite, WordsType
<1> HIDE DEF c
<1> QED
  BY <1>2, <1>4, GoodMp

-----------------------------------------------------------------------------
\* Every step keeps the invariant: one step of the proof per action.
LEMMA Inductive == IInv /\ [Next]_vars => IInv'
<1> SUFFICES ASSUME IInv, [Next]_vars
             PROVE  Good(host')
  BY DEF IInv
<1>0. Good(host) /\ host \in Process
  BY DEF IInv, Good
<1>1. CASE OnNmt
  <2>1. PICK s \in NmtReports : host' = Settle(NmtReceived(host, s))
    BY <1>1 DEF OnNmt
  <2> QED
    BY <1>0, <2>1, GoodNmt, GoodSettle
<1>2. CASE OnTpdo1
  <2>1. PICK s \in StatusWords, on \in BOOLEAN, m \in DriveModes, b \in BOOLEAN :
           host' = Settle(Tpdo1Received(host, s, on, m, b))
    BY <1>2 DEF OnTpdo1
  <2> QED
    BY <1>0, <2>1, GoodTpdo1, GoodSettle
<1>3. CASE OnTpdo2
  <2> DEFINE g == [host EXCEPT !.measured = TRUE]
  <2>1. /\ g \in Process /\ g.intf = host.intf /\ g.net = host.net
        /\ g.ds = host.ds /\ g.mp = host.mp /\ g.sdo = host.sdo
        /\ g.queue = host.queue /\ g.active = host.active /\ g.ses = host.ses
    BY <1>0 DEF Process
  <2>2. host' = g
    BY <1>3 DEF OnTpdo2
  <2> HIDE DEF g
  <2> QED
    BY <1>0, <2>1, <2>2, GoodFrame
<1>4. CASE OnSdoAnswer \/ LoseFrame
  <2> DEFINE g == [host EXCEPT !.tx = Tail(@)]
  <2>1. host.tx \in Seq(Frame) /\ host.tx # <<>>
    BY <1>0, <1>4 DEF Process, OnSdoAnswer, LoseFrame
  <2>2. Head(host.tx) \in Frame /\ Tail(host.tx) \in Seq(Frame)
    BY <2>1
  <2>3. /\ g \in Process /\ g.intf = host.intf /\ g.net = host.net
        /\ g.ds = host.ds /\ g.mp = host.mp /\ g.sdo = host.sdo
        /\ g.queue = host.queue /\ g.active = host.active /\ g.ses = host.ses
    BY <1>0, <2>2 DEF Process
  <2>4. \/ host' = g
        \/ \E answer : host' = Settle(DispatchSdo(g, Head(host.tx), answer))
    BY <1>4 DEF OnSdoAnswer, LoseFrame
  <2> HIDE DEF g
  <2>5. Good(g)
    BY <1>0, <2>3, GoodFrame
  <2> QED
    BY <2>2, <2>4, <2>5, GoodDispatch, GoodSettle
<1>5. CASE OnReadError
  <2>1. PICK ok \in BOOLEAN : host' = Settle(IntfClose(host, ok))
    BY <1>5 DEF OnReadError
  <2> QED
    BY <1>0, <2>1, GoodClose, GoodSettle
<1>6. CASE NmtSilence
  <2> DEFINE g == [host EXCEPT !.quiet = TRUE]
  <2>1. /\ g \in Process /\ g.intf = host.intf /\ g.net = host.net
        /\ g.ds = host.ds /\ g.mp = host.mp /\ g.sdo = host.sdo
        /\ g.queue = host.queue /\ g.active = host.active /\ g.ses = host.ses
    BY <1>0 DEF Process
  <2>2. host' = g
    BY <1>6 DEF NmtSilence
  <2> HIDE DEF g
  <2> QED
    BY <1>0, <2>1, <2>2, GoodFrame
<1>7. CASE NmtWatchdog
  <2>1. host' = Settle(NetHandle(host, "EV_NET_WATCHDOG_FAILED"))
    BY <1>7 DEF NmtWatchdog
  <2> QED
    BY <1>0, <2>1, GoodNet, GoodSettle
<1>8. CASE Execute
  <2>1. PICK n \in 0..Len(ProfileFields), load \in BOOLEAN :
           host' = Settle(ProfileExecute(host, n, load))
    BY <1>8 DEF Execute
  <2> QED
    BY <1>0, <2>1, GoodExecute, GoodSettle
<1>9. CASE WritePending
  <2>1. PICK n \in 1..Len(ProfileFields), load \in BOOLEAN :
           host' = Settle(WritePendingChanges(host, n, load))
    BY <1>9 DEF WritePending
  <2>2. n \in 0..Len(ProfileFields)
    BY FieldsAssumption
  <2> QED
    BY <1>0, <2>1, <2>2, GoodWritePending, GoodSettle
<1>10. CASE LightSetState
  <2>1. host' = Settle(SdoQueueWrite(host, "light", 0))
    BY <1>10 DEF LightSetState
  <2>2. "light" \in Object /\ 0 \in Nat
    BY DEF Object
  <2> QED
    BY <1>0, <2>1, <2>2, GoodQueueWrite, GoodSettle
<1>11. CASE UNCHANGED vars
  BY <1>0, <1>11 DEF vars
<1> QED
  BY <1>1, <1>2, <1>3, <1>4, <1>5, <1>6, <1>7, <1>8, <1>9, <1>10, <1>11 DEF Next

(***************************************************************************)
(* The invariant holds in every reachable state.                           *)
(***************************************************************************)
THEOREM Invariance == Spec => []IInv
BY GoodInit, Inductive, PTL DEF Spec

(***************************************************************************)
(* Every process record the callbacks leave behind is well typed.          *)
(***************************************************************************)
THEOREM TypeCorrect == Spec => []TypeOK
<1>1. IInv => TypeOK
  BY DEF IInv, Good, TypeOK
<1> QED
  BY <1>1, Invariance, PTL

(***************************************************************************)
(* A lost link, a fault or a closed device reaches every machine above it  *)
(* within the callback that notices it, for every configuration.           *)
(***************************************************************************)
THEOREM CascadeHolds == Spec => []Cascade
<1>1. IInv => Cascade
  BY DEF IInv, Good, Linked, NetLinked, DsLinked, SdoEnabled, SdoNetStates, Cascade
<1> QED
  BY <1>1, Invariance, PTL

(***************************************************************************)
(* The SDO machine never waits with work in its queue, however long the    *)
(* queue and whoever filled it.                                            *)
(***************************************************************************)
THEOREM NoLostWakeupHolds == Spec => []NoLostWakeup
<1>1. IInv => NoLostWakeup
  BY DEF IInv, Good, SdoOK, NoLostWakeup
<1> QED
  BY <1>1, Invariance, PTL

(***************************************************************************)
(* No command queued before the link was lost is sent after it is back.    *)
(***************************************************************************)
THEOREM NoStaleCommandHolds == Spec => []NoStaleCommand
<1>1. IInv => NoStaleCommand
  BY DEF IInv, Good, SdoOK, SdoEnabled, NoStaleCommand
<1> QED
  BY <1>1, Invariance, PTL

-----------------------------------------------------------------------------
(***************************************************************************)
(* The five machines implement Supervisor: what a supervisor sees of the   *)
(* process record changes by at most one step of Supervisor in a callback, *)
(* though the machines may take several transitions in it.                 *)
(***************************************************************************)

\* Supervisor's steps as a relation between two phases.
PhaseStep(p, q) ==
    \/ q = p
    \/ p = "offline"     /\ q = "configuring"
    \/ p = "configuring" /\ q = "starting"
    \/ p = "starting"    /\ q = "enabling"
    \/ p = "enabling"    /\ q = "homing"
    \/ p = "homing"      /\ q = "ready"
    \/ p = "ready"       /\ q = "moving"
    \/ p = "moving"      /\ q = "ready"
    \/ p \in {"homing", "ready", "moving"} /\ q = "enabling"
    \/ q = "offline"

Steps(h, g) == PhaseStep(PhaseOf(h), PhaseOf(g))

\* The phase depends on two machines only.
LEMMA PhaseFrame ==
    ASSUME NEW h, NEW g, g.net = h.net, g.mp = h.mp
    PROVE  PhaseOf(g) = PhaseOf(h)
BY DEF PhaseOf

\* In the network states below OPERATIONAL, motion does not matter.
LEMMA PhaseBelow ==
    ASSUME NEW h, NEW g, g.net = h.net, h.net # "ST_NET_OPERATIONAL"
    PROVE  PhaseOf(g) = PhaseOf(h)
BY DEF PhaseOf

\* What the supervisor sees of an operational sled.
LEMMA PhaseOperational ==
    ASSUME NEW h \in Process, h.net = "ST_NET_OPERATIONAL"
    PROVE  /\ h.mp = "ST_MP_DISABLED" <=> PhaseOf(h) = "enabling"
           /\ h.mp = "ST_MP_PP_IDLE" <=> PhaseOf(h) = "ready"
           /\ h.mp \in {"ST_MP_PP_SP_NACK", "ST_MP_PP_SP_ACK"} <=> PhaseOf(h) = "moving"
           /\ h.mp \in {"ST_MP_SWITCH_MODE_HOMING", "ST_MP_HH_UNKNOWN",
                        "ST_MP_HH_HOMING", "ST_MP_SWITCH_MODE_PP"}
                 <=> PhaseOf(h) = "homing"
BY DEF PhaseOf, Process, MpStates

\* A transition of the network machine is at most one step.
LEMMA NetSteps ==
    ASSUME NEW h, Good(h), NEW e
    PROVE  Steps(h, NetHandle(h, e))
<1> DEFINE g == NetHandle(h, e)
<1>1. /\ g.net = NetNext(h.net, e)
      /\ g.net = h.net => g = h
      /\ g.net # h.net => g.mp = "ST_MP_DISABLED"
  BY NetHandleOK DEF Good, Linked
<1> HIDE DEF g
<1>2. CASE g.net = h.net
  BY <1>1, <1>2 DEF Steps, PhaseStep, g
<1>3. CASE g.net # h.net
  <2>1. PhaseOf(g) = CASE g.net = "ST_NET_PREOPERATIONAL"  -> "configuring"
                       [] g.net = "ST_NET_STARTREMOTENODE" -> "starting"
                       [] g.net = "ST_NET_OPERATIONAL"     -> "enabling"
                       [] OTHER                            -> "offline"
    BY <1>1, <1>3 DEF PhaseOf
  <2>2. /\ g.net = "ST_NET_PREOPERATIONAL" => PhaseOf(h) = "offline"
        /\ g.net = "ST_NET_STARTREMOTENODE" => PhaseOf(h) = "configuring"
        /\ g.net = "ST_NET_OPERATIONAL" => PhaseOf(h) = "starting"
    <3>1. /\ g.net = "ST_NET_PREOPERATIONAL" =>
                h.net \in {"ST_NET_UNKNOWN", "ST_NET_ENTERPREOPERATIONAL"}
          /\ g.net = "ST_NET_STARTREMOTENODE" => h.net = "ST_NET_PREOPERATIONAL"
          /\ g.net = "ST_NET_OPERATIONAL" => h.net = "ST_NET_STARTREMOTENODE"
      BY <1>1, <1>3 DEF NetNext
    <3> QED
      BY <3>1 DEF PhaseOf
  <2> QED
    BY <2>1, <2>2 DEF Steps, PhaseStep, g
<1> QED
  BY <1>2, <1>3

(***************************************************************************)
(* A status report raises up to two events of the drive machine and two of *)
(* the motion machine.  The first may enable or disable the operation, but *)
(* the second never enables it, and homing needs another report.           *)
(***************************************************************************)
LEMMA Tpdo1Steps ==
    ASSUME NEW h, Good(h), NEW s \in StatusWords, NEW on \in BOOLEAN,
           NEW m \in DriveModes, NEW b \in BOOLEAN
    PROVE  Steps(h, Tpdo1Received(h, s, on, m, b))
<1> DEFINE x == StatusReceived(h, s)
           y == VoltageReceived(x, on)
           first == IF m = "pp" THEN "EV_MP_MODE_PP" ELSE "EV_MP_MODE_HOMING"
           second == IF m = "pp"
                     THEN IF b THEN "EV_MP_SETPOINT_ACK" ELSE "EV_MP_SETPOINT_NACK"
                     ELSE IF b THEN "EV_MP_HOMED" ELSE "EV_MP_NOTHOMED"
           u == MpHandle(y, first)
           z == MpHandle(u, second)
           g == Tpdo1Received(h, s, on, m, b)
<1>1. /\ Good(x) /\ x.net = h.net
      /\ \/ x.mp = h.mp
         \/ x.mp = "ST_MP_DISABLED"
         \/ h.mp = "ST_MP_DISABLED" /\ x.mp = "ST_MP_SWITCH_MODE_HOMING"
  <2>1. CASE s = "none"
    BY <2>1 DEF StatusReceived
  <2>2. CASE s # "none"
    <3>1. x = DsHandle(h, s)
      BY <2>2 DEF StatusReceived
    <3>2. s \notin {"EV_DS_NET_OPERATIONAL", "EV_DS_NET_INOPERATIONAL"}
      BY DEF StatusWords
    <3> QED
      BY <3>1, <3>2, GoodDs, DsHandleOK
         DEF Good, Linked, NetLinked, DsLinked, SameAboveDs
  <2> QED
    BY <2>1, <2>2
<1> HIDE DEF x
<1>2. /\ Good(y) /\ y.net = h.net
      /\ y.mp = x.mp \/ y.mp = "ST_MP_DISABLED"
  <2> DEFINE v == IF on THEN "EV_DS_VOLTAGE_ENABLED" ELSE "EV_DS_VOLTAGE_DISABLED"
  <2>1. y = DsHandle(x, v)
    BY DEF VoltageReceived
  <2>2. v \in {"EV_DS_VOLTAGE_ENABLED", "EV_DS_VOLTAGE_DISABLED"}
    OBVIOUS
  <2> HIDE DEF v
  <2>3. DsNext(x.ds, v) = "ST_DS_OPERATION_ENABLED" => DsNext(x.ds, v) = x.ds
    BY <2>2 DEF DsNext
  <2>4. Good(y)
    BY <1>1, <2>1, <2>2, GoodDs
  <2>5. /\ y.ds = DsNext(x.ds, v) /\ (y.ds = x.ds => y.mp = x.mp) /\ DsLinked(y)
        /\ y.net = x.net
    BY <1>1, <2>1, DsHandleOK DEF Good, Linked, NetLinked, SameAboveDs
  <2> QED
    BY <1>1, <2>3, <2>4, <2>5 DEF DsLinked
<1> HIDE DEF y
<1>3. /\ Good(u) /\ u.net = h.net /\ u.mp = MpNext(y.mp, first)
  BY <1>2, MpHandleOK, GoodMp DEF Good, SameAboveMp
<1> HIDE DEF u
<1>4. /\ Good(z) /\ z.net = h.net /\ z.mp = MpNext(u.mp, second)
  BY <1>3, MpHandleOK, GoodMp DEF Good, SameAboveMp
<1>5. g = y \/ g = z
  BY DEF Tpdo1Received, ModeReceived, x, y, u, DriveModes
<1> HIDE DEF z, g
<1>6. CASE h.net # "ST_NET_OPERATIONAL"
  BY <1>2, <1>4, <1>5, <1>6, PhaseBelow DEF Steps, PhaseStep, g
<1>7. CASE h.net = "ST_NET_OPERATIONAL"
  <2>1. h \in Process /\ g \in Process /\ g.net = "ST_NET_OPERATIONAL"
    BY <1>2, <1>4, <1>5, <1>7 DEF Good
  <2>2. \/ y.mp = h.mp
        \/ y.mp = "ST_MP_DISABLED"
        \/ h.mp = "ST_MP_DISABLED" /\ y.mp = "ST_MP_SWITCH_MODE_HOMING"
    BY <1>1, <1>2
  <2> DEFINE Homing == {"ST_MP_SWITCH_MODE_HOMING", "ST_MP_HH_UNKNOWN",
                        "ST_MP_HH_HOMING", "ST_MP_SWITCH_MODE_PP"}
             Moving == {"ST_MP_PP_SP_NACK", "ST_MP_PP_SP_ACK"}
  <2>3. /\ y.mp = "ST_MP_DISABLED" => g.mp = "ST_MP_DISABLED"
        /\ y.mp = "ST_MP_SWITCH_MODE_HOMING" => g.mp \in Homing
        /\ y.mp \in Homing => g.mp \in Homing \cup {"ST_MP_PP_IDLE"}
        /\ y.mp = "ST_MP_PP_IDLE" => g.mp = "ST_MP_PP_IDLE"
        /\ y.mp \in Moving => g.mp \in Moving \cup {"ST_MP_PP_IDLE"}
    BY <1>3, <1>4, <1>5 DEF MpNext
  <2>4. h.mp \in MpStates
    BY <2>1 DEF Process
  <2>5. \/ h.mp = "ST_MP_DISABLED" /\ g.mp \in Homing \cup {"ST_MP_DISABLED"}
        \/ h.mp \in Homing /\ g.mp \in Homing \cup {"ST_MP_PP_IDLE", "ST_MP_DISABLED"}
        \/ h.mp = "ST_MP_PP_IDLE" /\ g.mp \in {"ST_MP_PP_IDLE", "ST_MP_DISABLED"}
        \/ h.mp \in Moving /\ g.mp \in Moving \cup {"ST_MP_PP_IDLE", "ST_MP_DISABLED"}
    BY <2>2, <2>3, <2>4 DEF MpStates
  <2> HIDE DEF g
  <2>6. Steps(h, g)
    BY <1>7, <2>1, <2>5, PhaseOperational DEF Steps, PhaseStep
  <2> QED
    BY <2>6 DEF g
<1> QED
  BY <1>6, <1>7

\* A command moves the sled only from where it is ready.
LEMMA ExecuteSteps ==
    ASSUME NEW h, Good(h), NEW n \in 0..Len(ProfileFields), NEW load \in BOOLEAN
    PROVE  Steps(h, ProfileExecute(h, n, load))
<1> DEFINE w == WritePendingChanges(h, n, load)
           t == SdoQueueWrite(w, "motion_task", 0)
           c == SdoQueueWrite(t, "control", NewSetpoint)
           g == MpHandle(c, "EV_MP_SETPOINT_SET")
<1>1. CASE h.mp # "ST_MP_PP_IDLE"
  BY <1>1 DEF ProfileExecute, Steps, PhaseStep
<1>2. CASE h.mp = "ST_MP_PP_IDLE"
  <2>1. ProfileExecute(h, n, load) = g
    BY <1>2 DEF ProfileExecute
  <2>2. Good(w) /\ w.net = h.net /\ w.mp = h.mp
    BY GoodWritePending DEF SameAboveSdo
  <2> HIDE DEF w
  <2>3. Good(t) /\ t.net = h.net /\ t.mp = h.mp
    <3>1. Queued(w, t)
      BY <2>2, QueueWriteOK, WordsType DEF Good
    <3> QED
      BY <2>2, <3>1, GoodSdo DEF Queued, SameAboveSdo
  <2> HIDE DEF t
  <2>4. Good(c) /\ c.net = h.net /\ c.mp = h.mp
    <3>1. Queued(t, c)
      BY <2>3, QueueWriteOK, WordsType DEF Good
    <3> QED
      BY <2>3, <3>1, GoodSdo DEF Queued, SameAboveSdo
  <2> HIDE DEF c
  <2>5. g.net = h.net /\ g.mp = "ST_MP_PP_SP_NACK"
    BY <1>2, <2>4, MpHandleOK DEF Good, SameAboveMp, MpNext
  <2> HIDE DEF g
  <2>6. Steps(h, g)
    BY <1>2, <2>5 DEF Steps, PhaseStep, PhaseOf
  <2> QED
    BY <2>1, <2>6
<1> QED
  BY <1>1, <1>2

\* An answer takes the step from configuring to starting, or none.
LEMMA DispatchSteps ==
    ASSUME NEW h, Good(h), NEW r \in Frame, NEW answer
    PROVE  Steps(h, DispatchSdo(h, r, answer))
<1> DEFINE a == [h EXCEPT !.status = "aborted"]
           x == [h EXCEPT !.status = "exited"]
           k == [h EXCEPT !.acked = @ + 1]
           Done == {"EV_SDO_READ_RESPONSE", "EV_SDO_WRITE_RESPONSE",
                    "EV_SDO_ABORT_RESPONSE"}
<1>0. h \in Process
  BY DEF Good
<1>1. \A f, e : Good(f) /\ e \in Done => PhaseOf(SdoFinish(f, e)) = PhaseOf(f)
  <2> SUFFICES ASSUME NEW f, Good(f), NEW e \in Done
               PROVE  PhaseOf(SdoFinish(f, e)) = PhaseOf(f)
    OBVIOUS
  <2>1. SameAboveSdo(f, SdoFinish(f, e))
    BY FinishOK DEF Good
  <2> QED
    BY <2>1, PhaseFrame DEF SameAboveSdo
<1>2. PhaseOf(a) = PhaseOf(h) /\ PhaseOf(x) = PhaseOf(h) /\ PhaseOf(k) = PhaseOf(h)
  <2>1. /\ a.net = h.net /\ a.mp = h.mp /\ x.net = h.net /\ x.mp = h.mp
        /\ k.net = h.net /\ k.mp = h.mp
    BY <1>0 DEF Process
  <2> HIDE DEF a, x, k
  <2> QED
    BY <2>1, PhaseFrame
<1>3. Good(k)
  <2>1. /\ k \in Process /\ k.intf = h.intf /\ k.net = h.net /\ k.ds = h.ds
        /\ k.mp = h.mp /\ k.sdo = h.sdo /\ k.queue = h.queue
        /\ k.active = h.active /\ k.ses = h.ses
    BY <1>0, SMTT(30) DEF Process
  <2> HIDE DEF k
  <2> QED
    BY <2>1, GoodFrame
<1>4. Good(ItemConfirmed(h)) /\ Steps(h, ItemConfirmed(h))
  <2>1. \/ ItemConfirmed(h) = k \/ ItemConfirmed(h) = h
        \/ ItemConfirmed(h) = NetHandle(k, "EV_NET_UPLOAD_COMPLETE")
    BY DEF ItemConfirmed
  <2> HIDE DEF k
  <2> QED
    BY <1>2, <1>3, <2>1, NetSteps, GoodNet DEF Steps, PhaseStep
<1>5. Steps(h, SdoConfirmCallback(h, r))
  <2>1. \/ SdoConfirmCallback(h, r) = a
        \/ SdoConfirmCallback(h, r) = SdoFinish(ItemConfirmed(h), "EV_SDO_READ_RESPONSE")
        \/ SdoConfirmCallback(h, r) = SdoFinish(ItemConfirmed(h), "EV_SDO_WRITE_RESPONSE")
    BY DEF SdoConfirmCallback
  <2> HIDE DEF a
  <2> QED
    BY <1>1, <1>2, <1>4, <2>1 DEF Steps, PhaseStep
<1>6. Steps(h, SdoAbortCallback(h, r))
  <2>1. \/ SdoAbortCallback(h, r) = a \/ SdoAbortCallback(h, r) = x
        \/ SdoAbortCallback(h, r) = SdoFinish(h, "EV_SDO_ABORT_RESPONSE")
    BY DEF SdoAbortCallback
  <2> HIDE DEF a, x
  <2> QED
    BY <1>1, <1>2, <2>1 DEF Steps, PhaseStep
<1>7. \/ DispatchSdo(h, r, answer) = h
      \/ DispatchSdo(h, r, answer) = SdoConfirmCallback(h, r)
      \/ DispatchSdo(h, r, answer) = SdoAbortCallback(h, r)
  BY DEF DispatchSdo
<1> QED
  BY <1>5, <1>6, <1>7 DEF Steps, PhaseStep

\* Closing the device takes the sled offline, or changes nothing.
LEMMA CloseSteps ==
    ASSUME NEW h, Good(h), NEW ok \in BOOLEAN
    PROVE  Steps(h, IntfClose(h, ok))
<1> DEFINE c == IntfClose(h, ok)
<1>1. h \in Process /\ SdoOK(h) /\ NetLinked(h)
  BY DEF Good, Linked
<1>2. CASE SameMachines(h, c)
  BY <1>2, PhaseFrame DEF SameMachines, Steps, PhaseStep
<1>3. CASE \E j \in Process : SameMachines(h, j) /\ c = NetHandle(j, "EV_NET_INTF_CLOSED")
  <2>1. PICK j \in Process : SameMachines(h, j) /\ c = NetHandle(j, "EV_NET_INTF_CLOSED")
    BY <1>3
  <2> HIDE DEF c
  <2>2. NetNext(j.net, "EV_NET_INTF_CLOSED") = "ST_NET_DISABLED"
    BY DEF NetNext
  <2>3. PhaseOf(c) = "offline"
    BY <1>1, <2>1, <2>2, MachinesAlike, NetHandleOK DEF PhaseOf
  <2> QED
    BY <2>3 DEF Steps, PhaseStep, c
<1> QED
  BY <1>1, <1>2, <1>3, CloseCases

-----------------------------------------------------------------------------
\* Whether sled_create gets the device open or not, the sled is offline.
LEMMA InitOffline == Init => PhaseOf(host) = "offline"
<1> SUFFICES ASSUME NEW ok \in BOOLEAN
             PROVE  PhaseOf(IntfOpen(Created, ok)) = "offline"
  BY DEF Init
<1> DEFINE c == IntfOpen(Created, ok)
<1>1. /\ Created.net = "ST_NET_DISABLED" /\ Created.sdo = "ST_SDO_DISABLED"
      /\ Created.ds = "ST_DS_DISABLED" /\ Created.mp = "ST_MP_DISABLED"
  BY DEF Created
<1>2. SdoOK(Created) /\ NetLinked(Created)
  BY <1>1 DEF NetLinked, DsLinked, SdoOK, SdoEnabled
<1>3. CASE SameMachines(Created, c)
  BY <1>1, <1>3 DEF SameMachines, PhaseOf
<1>4. CASE \E j \in Process : /\ SameMachines(Created, j)
                              /\ c = NetHandle(j, "EV_NET_INTF_OPENED")
  <2>1. PICK j \in Process : /\ SameMachines(Created, j)
                             /\ c = NetHandle(j, "EV_NET_INTF_OPENED")
    BY <1>4
  <2> HIDE DEF c
  <2>2. NetNext(j.net, "EV_NET_INTF_OPENED") = "ST_NET_UNKNOWN"
    BY <1>1, <2>1 DEF NetNext, SameMachines
  <2>3. c.net = "ST_NET_UNKNOWN"
    BY <1>2, <2>1, <2>2, MachinesAlike, NetHandleOK
  <2> QED
    BY <2>3 DEF PhaseOf, c
<1> QED
  BY <1>3, <1>4, OpenCases

\* A callback that ends the process changes nothing the supervisor sees.
LEMMA SettleSteps ==
    ASSUME IInv, NEW h, Steps(host, h)
    PROVE  Steps(host, Settle(h))
<1>1. CASE Settle(h) = h
  BY <1>1
<1>2. CASE Settle(h) = [host EXCEPT !.status = h.status]
  <2>1. /\ [host EXCEPT !.status = h.status].net = host.net
        /\ [host EXCEPT !.status = h.status].mp = host.mp
    BY DEF IInv, Good, Process
  <2> QED
    BY <1>2, <2>1, PhaseFrame DEF Steps, PhaseStep
<1> QED
  BY <1>1, <1>2 DEF Settle

\* Every step of the machines is a step of the supervisor, or none.
LEMMA EveryStep ==
    ASSUME IInv, [Next]_vars
    PROVE  Steps(host, host')
<1>0. Good(host) /\ host \in Process
  BY DEF IInv, Good
<1>1. CASE OnNmt
  <2>1. PICK s \in NmtReports : host' = Settle(NmtReceived(host, s))
    BY <1>1 DEF OnNmt
  <2> DEFINE k == IF s = "other" THEN host ELSE NetHandle(host, s)
             g == [k EXCEPT !.quiet = FALSE]
  <2>2. Good(k) /\ Steps(host, k)
    <3>1. s # "EV_NET_INTF_OPENED"
      BY DEF NmtReports
    <3> QED
      BY <1>0, <3>1, GoodNet, NetSteps DEF Steps, PhaseStep
  <2>3. NmtReceived(host, s) = g
    BY DEF NmtReceived
  <2> HIDE DEF k
  <2>4. g.net = k.net /\ g.mp = k.mp
    BY <2>2 DEF Good, Process
  <2> HIDE DEF g
  <2>5. Steps(host, g)
    BY <2>2, <2>4, PhaseFrame DEF Steps
  <2> QED
    BY <2>1, <2>3, <2>5, SettleSteps
<1>2. CASE OnTpdo1
  <2>1. PICK s \in StatusWords, on \in BOOLEAN, m \in DriveModes, b \in BOOLEAN :
           host' = Settle(Tpdo1Received(host, s, on, m, b))
    BY <1>2 DEF OnTpdo1
  <2> QED
    BY <1>0, <2>1, Tpdo1Steps, SettleSteps
<1>3. CASE OnTpdo2 \/ NmtSilence \/ LoseFrame \/ UNCHANGED vars
  <2>1. host'.net = host.net /\ host'.mp = host.mp
    BY <1>0, <1>3 DEF OnTpdo2, NmtSilence, LoseFrame, vars, Process
  <2> QED
    BY <2>1, PhaseFrame DEF Steps, PhaseStep
<1>4. CASE OnSdoAnswer
  <2> DEFINE g == [host EXCEPT !.tx = Tail(@)]
  <2>1. host.tx \in Seq(Frame) /\ host.tx # <<>>
    BY <1>0, <1>4 DEF Process, OnSdoAnswer
  <2>2. Head(host.tx) \in Frame /\ Tail(host.tx) \in Seq(Frame)
    BY <2>1
  <2>3. /\ g \in Process /\ g.intf = host.intf /\ g.net = host.net
        /\ g.ds = host.ds /\ g.mp = host.mp /\ g.sdo = host.sdo
        /\ g.queue = host.queue /\ g.active = host.active /\ g.ses = host.ses
    BY <1>0, <2>2 DEF Process
  <2>4. \E answer : host' = Settle(DispatchSdo(g, Head(host.tx), answer))
    BY <1>4 DEF OnSdoAnswer
  <2> HIDE DEF g
  <2>5. Good(g) /\ PhaseOf(g) = PhaseOf(host)
    BY <1>0, <2>3, GoodFrame, PhaseFrame
  <2>6. \A answer : Steps(host, DispatchSdo(g, Head(host.tx), answer))
    BY <2>2, <2>5, DispatchSteps DEF Steps
  <2> QED
    BY <2>4, <2>6, SettleSteps
<1>5. CASE OnReadError
  <2>1. PICK ok \in BOOLEAN : host' = Settle(IntfClose(host, ok))
    BY <1>5 DEF OnReadError
  <2> QED
    BY <1>0, <2>1, CloseSteps, SettleSteps
<1>6. CASE NmtWatchdog
  <2>1. host' = Settle(NetHandle(host, "EV_NET_WATCHDOG_FAILED"))
    BY <1>6 DEF NmtWatchdog
  <2> QED
    BY <1>0, <2>1, NetSteps, SettleSteps
<1>7. CASE Execute
  <2>1. PICK n \in 0..Len(ProfileFields), load \in BOOLEAN :
           host' = Settle(ProfileExecute(host, n, load))
    BY <1>7 DEF Execute
  <2> QED
    BY <1>0, <2>1, ExecuteSteps, SettleSteps
<1>8. CASE WritePending
  <2>1. PICK n \in 1..Len(ProfileFields), load \in BOOLEAN :
           host' = Settle(WritePendingChanges(host, n, load))
    BY <1>8 DEF WritePending
  <2>2. n \in 0..Len(ProfileFields)
    BY FieldsAssumption
  <2>3. Steps(host, WritePendingChanges(host, n, load))
    BY <1>0, <2>2, GoodWritePending, PhaseFrame DEF SameAboveSdo, Steps, PhaseStep
  <2> QED
    BY <2>1, <2>3, SettleSteps
<1>9. CASE LightSetState
  <2>1. host' = Settle(SdoQueueWrite(host, "light", 0))
    BY <1>9 DEF LightSetState
  <2>2. SameAboveSdo(host, SdoQueueWrite(host, "light", 0))
    BY <1>0, QueueWriteOK, WordsType DEF Good, Queued
  <2>3. Steps(host, SdoQueueWrite(host, "light", 0))
    BY <2>2, PhaseFrame DEF SameAboveSdo, Steps, PhaseStep
  <2> QED
    BY <2>1, <2>3, SettleSteps
<1> QED
  BY <1>1, <1>2, <1>3, <1>4, <1>5, <1>6, <1>7, <1>8, <1>9 DEF Next

(***************************************************************************)
(* libsled implements Supervisor, for every configuration, every list of   *)
(* profile fields and every length of the queue: the sled is never set in  *)
(* motion without configuration, start, enabling and homing, in that       *)
(* order, since the last time one of them was lost.                        *)
(***************************************************************************)
THEOREM SupervisorImplemented == Spec => ImplementsSupervisor
<1>1. Init => Abstract!Init
  BY InitOffline DEF Abstract!Init
<1>2. IInv /\ [Next]_vars => [Abstract!Next]_(PhaseOf(host))
  <2> SUFFICES ASSUME IInv, [Next]_vars
               PROVE  [Abstract!Next]_(PhaseOf(host))
    OBVIOUS
  <2>1. PhaseStep(PhaseOf(host), PhaseOf(host'))
    BY EveryStep DEF Steps
  <2> QED
    BY <2>1 DEF PhaseStep, Abstract!Next, Abstract!Climb, Abstract!Arrive,
                Abstract!Disable, Abstract!Lose
<1> QED
  BY <1>1, <1>2, Invariance, PTL DEF Spec, ImplementsSupervisor, Abstract!Spec
=============================================================================
