----------------------------- MODULE SledUpload -----------------------------
(***************************************************************************)
(* The drive is started only after its whole configuration was confirmed.  *)
(*                                                                         *)
(* SledProofs says what the handlers keep; here the SDO machine is         *)
(* described exactly: which item each of its events sends, and what is     *)
(* left in the queue.  On that rests the invariant of the upload: what is  *)
(* active and queued is the part of the configuration not yet confirmed,   *)
(* in order, whatever the clients and the status reports queue behind it.  *)
(***************************************************************************)
EXTENDS SledProofs

\* The request of item is written, if the controller has room for it.
Requests(h, g, item) ==
    /\ g.cb = item.op
    /\ g.tx = IF Len(h.tx) < MaxTx
                 THEN Append(h.tx, FrameOf(item)) ELSE h.tx

\* g is h with item on its way.
Sends(h, g, item) ==
    /\ g.sdo = "ST_SDO_SENDING" /\ g.active = item
    /\ g.cw = IF item.ob = "control" THEN item.val ELSE h.cw
    /\ g.badStart = (h.badStart \/ (/\ item.ob = "control"
                                    /\ item.val = NewSetpoint
                                    /\ h.cw \notin EnabledWithBitClear))
    /\ Requests(h, g, item)

\* The control words and the requests sent of g are those of h.
SameWords(h, g) ==
    g.cw = h.cw /\ g.badStart = h.badStart /\ g.tx = h.tx /\ g.cb = h.cb

\* Entering SENDING sends the head of the queue.
LEMMA EnterSendingExact ==
    ASSUME NEW h \in Process, h.queue # <<>>, h.sdo = "ST_SDO_SENDING"
    PROVE  LET g == SdoEnterSending(h)
           IN  Sends(h, g, Head(h.queue)) /\ g.queue = Tail(h.queue)
<1> DEFINE item == Head(h.queue)
           rest == Tail(h.queue)
           leak == h.leaked \/ HasAbortCallback(h.active)
           g == [h EXCEPT !.active = item, !.queue = rest, !.leaked = leak]
           s == SdoSend(g, item)
<1>1. h.queue \in Seq(Item)
  BY DEF Process
<1>2. item \in Item /\ rest \in Seq(Item) /\ leak \in BOOLEAN
  BY <1>1 DEF Process, HasAbortCallback
<1>3. SdoEnterSending(h) = s
  BY DEF SdoEnterSending, Process
<1> HIDE DEF item, rest, leak
<1>4. /\ g \in Process /\ g.sdo = "ST_SDO_SENDING" /\ g.active = item
      /\ g.queue = rest /\ g.cw = h.cw /\ g.badStart = h.badStart /\ g.tx = h.tx
  BY <1>2 DEF Process
<1> HIDE DEF g
<1>5. s.queue = rest /\ s.active = item /\ s.sdo = "ST_SDO_SENDING"
  BY <1>2, <1>4, SdoSendType
<1>6. /\ s.cw = IF item.ob = "control" THEN item.val ELSE g.cw
      /\ s.badStart = (g.badStart \/ (/\ item.ob = "control"
                                      /\ item.val = NewSetpoint
                                      /\ g.cw \notin EnabledWithBitClear))
      /\ s.cb = item.op
      /\ s.tx = IF Len(g.tx) < MaxTx
                   THEN Append(g.tx, FrameOf(item)) ELSE g.tx
  BY <1>4 DEF SdoSend, Process
<1> QED
  BY <1>3, <1>4, <1>5, <1>6 DEF Sends, Requests, item, rest

\* EV_SDO_ITEM_AVAILABLE sends the head of the queue, or changes nothing.
LEMMA AvailableExact ==
    ASSUME NEW h \in Process, h.queue # <<>>
    PROVE  LET g == SdoHandle(h, "EV_SDO_ITEM_AVAILABLE")
           IN  /\ h.sdo = "ST_SDO_WAITING" =>
                     Sends(h, g, Head(h.queue)) /\ g.queue = Tail(h.queue)
               /\ h.sdo # "ST_SDO_WAITING" => g = h
<1> DEFINE f == [h EXCEPT !.sdo = "ST_SDO_SENDING"]
<1>1. CASE h.sdo = "ST_SDO_WAITING"
  <2>1. SdoHandle(h, "EV_SDO_ITEM_AVAILABLE") = SdoEnterSending(f)
    BY <1>1 DEF SdoHandle, SdoNext, SdoExit, SdoEnter, Process
  <2>2. /\ f \in Process /\ f.queue = h.queue /\ f.sdo = "ST_SDO_SENDING"
        /\ f.cw = h.cw /\ f.badStart = h.badStart /\ f.tx = h.tx
    BY DEF Process, SdoStates
  <2> HIDE DEF f
  <2> QED
    BY <1>1, <2>1, <2>2, EnterSendingExact DEF Sends, Requests
<1>2. CASE h.sdo # "ST_SDO_WAITING"
  BY <1>2 DEF SdoHandle, SdoNext
<1> QED
  BY <1>1, <1>2

\* A batch is sent from its head if the machine waits, else it is appended.
LEMMA QueueAllExact ==
    ASSUME NEW h \in Process, SdoOK(h), NEW items \in Seq(Item), items # <<>>
    PROVE  LET g == SdoQueueAll(h, items)
           IN  /\ h.sdo = "ST_SDO_WAITING" =>
                     Sends(h, g, Head(items)) /\ g.queue = Tail(items)
               /\ h.sdo # "ST_SDO_WAITING" =>
                     /\ g.sdo = h.sdo /\ g.active = h.active /\ SameWords(h, g)
                     /\ g.queue = h.queue \o items
<1> DEFINE q == h.queue \o items
           f == [h EXCEPT !.queue = q]
<1>1. h.queue \in Seq(Item)
  BY DEF Process
<1>2. q \in Seq(Item) /\ q # <<>>
  BY <1>1
<1>3. h.sdo = "ST_SDO_WAITING" => q = items
  BY <1>1, ConcatEmptySeq DEF SdoOK
<1> HIDE DEF q
<1>4. /\ f \in Process /\ f.queue = q /\ f.sdo = h.sdo /\ f.active = h.active
      /\ f.cw = h.cw /\ f.badStart = h.badStart /\ f.tx = h.tx /\ f.cb = h.cb
  BY <1>2 DEF Process
<1>5. SdoQueueAll(h, items) = SdoHandle(f, "EV_SDO_ITEM_AVAILABLE")
  BY DEF SdoQueueAll, Process, q
<1> HIDE DEF f
<1>6. CASE h.sdo = "ST_SDO_WAITING"
  <2>1. LET g == SdoQueueAll(h, items)
        IN  Sends(f, g, Head(items)) /\ g.queue = Tail(items)
    BY <1>2, <1>3, <1>4, <1>5, <1>6, AvailableExact
  <2> QED
    BY <1>4, <1>6, <2>1 DEF Sends, Requests
<1>7. CASE h.sdo # "ST_SDO_WAITING"
  BY <1>2, <1>4, <1>5, <1>7, AvailableExact DEF SameWords, q
<1> QED
  BY <1>6, <1>7

\* One item is sent if the machine waits, else it is appended.
LEMMA QueueExact ==
    ASSUME NEW h \in Process, SdoOK(h), NEW op \in {"read", "write"},
           NEW ob \in Object, NEW val \in Nat, NEW cb \in Callbacks
    PROVE  LET g == SdoQueue(h, op, ob, val, cb)
               item == [op |-> op, ob |-> ob, val |-> val, cb |-> cb, ses |-> h.ses]
           IN  /\ item \in Item
               /\ h.sdo = "ST_SDO_WAITING" => Sends(h, g, item) /\ g.queue = <<>>
               /\ h.sdo # "ST_SDO_WAITING" =>
                     /\ g.sdo = h.sdo /\ g.active = h.active /\ SameWords(h, g)
                     /\ g.queue = Append(h.queue, item)
<1> DEFINE item == [op |-> op, ob |-> ob, val |-> val, cb |-> cb, ses |-> h.ses]
           q == Append(h.queue, item)
           f == [h EXCEPT !.queue = q]
<1>1. h.queue \in Seq(Item) /\ item \in Item
  BY DEF Process, Item
<1> HIDE DEF item
<1>2. q \in Seq(Item) /\ q # <<>>
  BY <1>1
<1>3. h.sdo = "ST_SDO_WAITING" => Head(q) = item /\ Tail(q) = <<>>
  <2>1. <<>> \in Seq(Item) /\ Append(<<>>, item) = <<item>>
    BY <1>1
  <2>2. Head(<<item>>) = item /\ Tail(<<item>>) = <<>>
    BY <1>1
  <2> QED
    BY <2>1, <2>2 DEF SdoOK
<1> HIDE DEF q
<1>4. /\ f \in Process /\ f.queue = q /\ f.sdo = h.sdo /\ f.active = h.active
      /\ f.cw = h.cw /\ f.badStart = h.badStart /\ f.tx = h.tx /\ f.cb = h.cb
  BY <1>2 DEF Process
<1>5. SdoQueue(h, op, ob, val, cb) = SdoHandle(f, "EV_SDO_ITEM_AVAILABLE")
  BY DEF SdoQueue, Process, q, item
<1> HIDE DEF f
<1>6. CASE h.sdo = "ST_SDO_WAITING"
  <2>1. LET g == SdoQueue(h, op, ob, val, cb)
        IN  Sends(f, g, item) /\ g.queue = <<>>
    BY <1>2, <1>3, <1>4, <1>5, <1>6, AvailableExact
  <2>2. Sends(h, SdoQueue(h, op, ob, val, cb), item)
    BY <1>4, <2>1 DEF Sends, Requests
  <2> QED
    BY <1>1, <1>6, <2>1, <2>2 DEF item
<1>7. CASE h.sdo # "ST_SDO_WAITING"
  <2>1. SdoQueue(h, op, ob, val, cb) = f
    BY <1>2, <1>4, <1>5, <1>7, AvailableExact
  <2> QED
    BY <1>1, <1>4, <1>7, <2>1 DEF SameWords, item, q
<1> QED
  BY <1>6, <1>7

\* Enabling drops the queue of a machine that was not enabled.
LEMMA EnableExact ==
    ASSUME NEW h \in Process
    PROVE  LET g == SdoHandle(h, "EV_NET_SDO_ENABLED")
           IN  /\ SdoEnabled(h) => g = h
               /\ ~SdoEnabled(h) => /\ g.sdo = "ST_SDO_WAITING" /\ g.queue = <<>>
                                    /\ g.active = h.active /\ SameWords(h, g)
               /\ g.status = IF /\ ~SdoEnabled(h)
                                /\ \E i \in 1..Len(h.queue) : HasAbortCallback(h.queue[i])
                                THEN "exited" ELSE h.status
<1> DEFINE status == IF \E i \in 1..Len(h.queue) : HasAbortCallback(h.queue[i])
                        THEN "exited" ELSE h.status
           f == [h EXCEPT !.queue = <<>>, !.status = status, !.ses = 1 - @,
                          !.sdo = "ST_SDO_WAITING"]
<1>1. CASE SdoEnabled(h)
  BY <1>1 DEF SdoHandle, SdoNext, SdoEnabled
<1>2. CASE ~SdoEnabled(h)
  <2>1. h.sdo \in {"ST_SDO_DISABLED", "ST_SDO_ERROR"}
    BY <1>2 DEF Process, SdoStates, SdoEnabled
  <2>2. SdoNext(h.sdo, "EV_NET_SDO_ENABLED") = "ST_SDO_WAITING"
    BY <2>1 DEF SdoNext
  <2>3. [SdoExit(h) EXCEPT !.sdo = "ST_SDO_WAITING"] = f
    BY <2>1 DEF SdoExit, SdoClearQueue, Process
  <2> HIDE DEF status
  <2>4. /\ f.queue = <<>> /\ f.sdo = "ST_SDO_WAITING" /\ f.active = h.active
        /\ f.cw = h.cw /\ f.badStart = h.badStart /\ f.tx = h.tx /\ f.cb = h.cb
        /\ f.status = status
    BY DEF Process
  <2> HIDE DEF f
  <2>5. SdoHandle(h, "EV_NET_SDO_ENABLED") = f
    BY <2>1, <2>2, <2>3, <2>4 DEF SdoHandle, SdoEnter, SdoEnterWaiting
  <2> QED
    BY <1>2, <2>4, <2>5 DEF SameWords, status
<1> QED
  BY <1>1, <1>2

\* Disabling keeps the queue.
LEMMA DisableExact ==
    ASSUME NEW h \in Process
    PROVE  LET g == SdoHandle(h, "EV_NET_SDO_DISABLED")
           IN  /\ g.queue = h.queue /\ g.active = h.active /\ SameWords(h, g)
               /\ g.sdo = IF SdoEnabled(h) THEN "ST_SDO_DISABLED" ELSE h.sdo
<1> DEFINE f == [h EXCEPT !.sdo = "ST_SDO_DISABLED"]
<1>1. CASE SdoEnabled(h)
  <2>1. SdoHandle(h, "EV_NET_SDO_DISABLED") = f
    BY <1>1 DEF SdoHandle, SdoNext, SdoEnabled, SdoExit, SdoEnter, Process
  <2> QED
    BY <1>1, <2>1 DEF Process, SameWords
<1>2. CASE ~SdoEnabled(h)
  BY <1>2 DEF SdoHandle, SdoNext, SdoEnabled, SameWords
<1> QED
  BY <1>1, <1>2

\* An answer clears the active item, and a confirmation sends the next one.
LEMMA FinishExact ==
    ASSUME NEW h \in Process, SdoOK(h),
           NEW e \in {"EV_SDO_READ_RESPONSE", "EV_SDO_WRITE_RESPONSE",
                      "EV_SDO_ABORT_RESPONSE"}
    PROVE  LET g == SdoFinish(h, e)
               next == /\ h.sdo = "ST_SDO_SENDING" /\ h.queue # <<>>
                       /\ e # "EV_SDO_ABORT_RESPONSE"
           IN  /\ next => Sends(h, g, Head(h.queue)) /\ g.queue = Tail(h.queue)
               /\ ~next => /\ g.active = NoSdo /\ g.queue = h.queue
                           /\ SameWords(h, g)
                           /\ h.sdo # "ST_SDO_SENDING" => g.sdo = h.sdo
                           /\ h.sdo = "ST_SDO_SENDING" =>
                                 g.sdo = IF e = "EV_SDO_ABORT_RESPONSE"
                                            THEN "ST_SDO_ERROR" ELSE "ST_SDO_WAITING"
<1> DEFINE f == [h EXCEPT !.active = NoSdo]
           w == [f EXCEPT !.sdo = "ST_SDO_WAITING"]
           s == [w EXCEPT !.sdo = "ST_SDO_SENDING"]
           x == [f EXCEPT !.sdo = "ST_SDO_ERROR"]
<1>1. /\ f \in Process /\ f.sdo = h.sdo /\ f.queue = h.queue
      /\ f.active = NoSdo /\ f.cw = h.cw /\ f.badStart = h.badStart
      /\ f.tx = h.tx /\ f.cb = h.cb
  BY DEF Process
<1>2. SdoFinish(h, e) = SdoHandle(f, e)
  BY DEF SdoFinish
<1> HIDE DEF f
<1>3. CASE h.sdo # "ST_SDO_SENDING"
  <2>1. SdoHandle(f, e) = f
    BY <1>1, <1>3 DEF SdoHandle, SdoNext
  <2> QED
    BY <1>1, <1>2, <1>3, <2>1 DEF SameWords
<1>4. CASE h.sdo = "ST_SDO_SENDING" /\ e = "EV_SDO_ABORT_RESPONSE"
  <2>1. SdoHandle(f, e) = x
    BY <1>1, <1>4 DEF SdoHandle, SdoNext, SdoExit, SdoEnter, Process
  <2>2. /\ x.queue = f.queue /\ x.active = f.active /\ x.cw = f.cw
        /\ x.badStart = f.badStart /\ x.tx = f.tx /\ x.cb = f.cb
        /\ x.sdo = "ST_SDO_ERROR"
    BY <1>1 DEF Process
  <2> HIDE DEF x
  <2> QED
    BY <1>1, <1>2, <1>4, <2>1, <2>2 DEF SameWords
<1>5. CASE h.sdo = "ST_SDO_SENDING" /\ e # "EV_SDO_ABORT_RESPONSE"
  <2>1. SdoHandle(f, e) = SdoEnterWaiting(w)
    BY <1>1, <1>5 DEF SdoHandle, SdoNext, SdoExit, SdoEnter, Process
  <2>2. /\ w \in Process /\ w.queue = f.queue /\ w.active = f.active
        /\ w.cw = f.cw /\ w.badStart = f.badStart /\ w.tx = f.tx /\ w.cb = f.cb
        /\ w.sdo = "ST_SDO_WAITING"
    BY <1>1, ZenonT(60) DEF Process, SdoStates
  <2>3. /\ s \in Process /\ s.sdo = "ST_SDO_SENDING" /\ s.queue = f.queue
        /\ s.cw = f.cw /\ s.badStart = f.badStart /\ s.tx = f.tx
    BY <1>1, ZenonT(60) DEF Process, SdoStates
  <2>4. CASE h.queue = <<>>
    <3>1. SdoHandle(f, e) = w
      BY <2>1, <2>2, <2>4, <1>1 DEF SdoEnterWaiting
    <3> HIDE DEF w
    <3> QED
      BY <1>1, <1>2, <1>5, <2>2, <2>4, <3>1 DEF SameWords
  <2>5. CASE h.queue # <<>>
    <3>1. SdoHandle(f, e) = SdoEnterSending(s)
      BY <2>1, <2>2, <2>5, <1>1 DEF SdoEnterWaiting, SdoNext
    <3> HIDE DEF s, w
    <3>2. LET g == SdoEnterSending(s)
          IN  Sends(s, g, Head(s.queue)) /\ g.queue = Tail(s.queue)
      BY <1>1, <2>3, <2>5, EnterSendingExact
    <3> QED
      BY <1>1, <1>2, <1>5, <2>3, <2>5, <3>1, <3>2 DEF Sends, Requests
  <2> QED
    BY <2>4, <2>5
<1> QED
  BY <1>3, <1>4, <1>5

-----------------------------------------------------------------------------
\* Whether cb is the callback of the j-th write of an upload, or of later work.
CallbackAt(cb, j) ==
    /\ cb = "config" <=> j < Len(Config)
    /\ cb = "final"  <=> j = Len(Config)

\* The items in the queue are the writes after the k-th, and later work.
QueuedFrom(h, k) ==
    /\ \A i \in 1..Len(h.queue) : CallbackAt(h.queue[i].cb, k + i)
    /\ Len(Config) <= k + Len(h.queue)

(***************************************************************************)
(* While the configuration is uploaded, the active item is the first write *)
(* that is not confirmed, and the queue holds the ones after it, in order. *)
(* Once the drive is being started no write of the upload is left.         *)
(***************************************************************************)
Uploading(h) ==
    /\ h.sdo = "ST_SDO_SENDING" /\ h.acked < Len(Config)
    /\ CallbackAt(h.active.cb, h.acked + 1)
    /\ QueuedFrom(h, h.acked + 1)

NothingLeft(h) ==
    \A i \in 1..Len(h.queue) : h.queue[i].cb \notin {"config", "final"}

Uploaded(h) ==
    /\ h.acked = Len(Config)
    /\ h.active.cb \notin {"config", "final"}
    /\ NothingLeft(h)

UploadOK(h) ==
    /\ h.net = "ST_NET_PREOPERATIONAL" => Uploading(h)
    /\ h.net \in {"ST_NET_STARTREMOTENODE", "ST_NET_OPERATIONAL"} => Uploaded(h)

UInv == IInv /\ UploadOK(host)

\* The invariant does not look at the other fields.
LEMMA UploadFrame ==
    ASSUME NEW h, UploadOK(h), NEW g, g.net = h.net, g.acked = h.acked,
           g.sdo = h.sdo, g.queue = h.queue, g.active = h.active
    PROVE  UploadOK(g)
BY DEF UploadOK, Uploading, Uploaded, QueuedFrom, NothingLeft

\* Work of others queued during an upload goes behind it.
LEMMA UploadQueue ==
    ASSUME NEW h \in Process, SdoOK(h), UploadOK(h), NEW op \in {"read", "write"},
           NEW ob \in Object, NEW val \in Nat
    PROVE  UploadOK(SdoQueue(h, op, ob, val, "none"))
<1> DEFINE g == SdoQueue(h, op, ob, val, "none")
           item == [op |-> op, ob |-> ob, val |-> val, cb |-> "none", ses |-> h.ses]
<1>1. "none" \in Callbacks /\ item.cb = "none" /\ h.queue \in Seq(Item)
  BY DEF Callbacks, Process
<1>2. g.net = h.net /\ g.acked = h.acked
  BY <1>1, QueueOK DEF SameAboveSdo
<1>3. /\ item \in Item
      /\ h.sdo = "ST_SDO_WAITING" => g.active = item /\ g.queue = <<>>
      /\ h.sdo # "ST_SDO_WAITING" =>
            /\ g.sdo = h.sdo /\ g.active = h.active
            /\ g.queue = Append(h.queue, item)
  BY <1>1, QueueExact DEF Sends
<1> HIDE DEF g, item
<1>4. Len(Config) \in Nat /\ h.acked \in Nat
  BY ConfigAssumption DEF Process
<1>5. CASE h.sdo = "ST_SDO_WAITING"
  BY <1>1, <1>2, <1>3, <1>5 DEF UploadOK, Uploading, Uploaded, NothingLeft, g
<1>6. CASE h.sdo # "ST_SDO_WAITING"
  <2>1. /\ Len(g.queue) = Len(h.queue) + 1
        /\ \A i \in 1..Len(h.queue) : g.queue[i] = h.queue[i]
        /\ g.queue[Len(h.queue) + 1].cb = "none"
    BY <1>1, <1>3, <1>6
  <2>2. CASE h.net = "ST_NET_PREOPERATIONAL"
    <3>1. Uploading(h)
      BY <2>2 DEF UploadOK
    <3>2. \A i \in 1..Len(g.queue) : CallbackAt(g.queue[i].cb, h.acked + 1 + i)
      <4> SUFFICES ASSUME NEW i \in 1..Len(g.queue)
                   PROVE  CallbackAt(g.queue[i].cb, h.acked + 1 + i)
        OBVIOUS
      <4>1. CASE i \in 1..Len(h.queue)
        BY <2>1, <3>1, <4>1 DEF Uploading, QueuedFrom
      <4>2. CASE i = Len(h.queue) + 1
        <5>1. h.acked + 1 + i \in Nat /\ h.acked + 1 + i > Len(Config)
          <6>1. Len(Config) <= h.acked + 1 + Len(h.queue) /\ Len(h.queue) \in Nat
            BY <1>1, <3>1 DEF Uploading, QueuedFrom
          <6> QED
            BY <1>4, <4>2, <6>1, SMTT(30)
        <5>2. g.queue[i].cb = "none"
          BY <2>1, <4>2
        <5> QED
          BY <1>4, <5>1, <5>2 DEF CallbackAt
      <4> QED
        BY <1>1, <2>1, <4>1, <4>2
    <3>3. Len(Config) <= h.acked + 1 + Len(h.queue) /\ Len(h.queue) \in Nat
      BY <1>1, <3>1 DEF Uploading, QueuedFrom
    <3>4. Len(Config) <= h.acked + 1 + Len(g.queue)
      BY <1>4, <2>1, <3>3, SMTT(30)
    <3>5. QueuedFrom(g, g.acked + 1)
      BY <1>2, <3>2, <3>4 DEF QueuedFrom
    <3>6. Uploading(g)
      BY <1>2, <1>3, <1>6, <3>1, <3>5 DEF Uploading
    <3> QED
      BY <1>2, <2>2, <3>6 DEF UploadOK, g
  <2>3. CASE h.net \in {"ST_NET_STARTREMOTENODE", "ST_NET_OPERATIONAL"}
    <3>1. Uploaded(h)
      BY <2>3 DEF UploadOK
    <3>2. NothingLeft(g)
      BY <1>1, <2>1, <3>1 DEF Uploaded, NothingLeft
    <3> QED
      BY <1>2, <1>3, <1>6, <2>3, <3>1, <3>2 DEF UploadOK, Uploaded, g
  <2> QED
    BY <1>2, <2>2, <2>3 DEF UploadOK, g
<1> QED
  BY <1>5, <1>6

\* So does a batch of profile writes.
LEMMA UploadQueueAll ==
    ASSUME NEW h \in Process, SdoOK(h), UploadOK(h), NEW items \in Seq(Item),
           \A i \in 1..Len(items) : items[i].ses = h.ses,
           \A i \in 1..Len(items) : items[i].cb = "profile"
    PROVE  UploadOK(SdoQueueAll(h, items))
<1> DEFINE g == SdoQueueAll(h, items)
<1>0. CASE items = <<>>
  BY <1>0 DEF SdoQueueAll
<1>00. CASE items # <<>>
  <2>1. g.net = h.net /\ g.acked = h.acked
    BY QueueAllOK DEF SameAboveSdo
  <2>2. /\ h.sdo = "ST_SDO_WAITING" =>
              g.active = Head(items) /\ g.queue = Tail(items)
        /\ h.sdo # "ST_SDO_WAITING" =>
              /\ g.sdo = h.sdo /\ g.active = h.active
              /\ g.queue = h.queue \o items
    BY <1>00, QueueAllExact DEF Sends
  <2>3. Len(Config) \in Nat /\ h.acked \in Nat /\ h.queue \in Seq(Item)
    BY ConfigAssumption DEF Process
  <2> HIDE DEF g
  <2>4. CASE h.sdo = "ST_SDO_WAITING"
    <3>1. g.active.cb = "profile" /\ \A i \in 1..Len(g.queue) : g.queue[i].cb = "profile"
      BY <1>00, <2>2, <2>4
    <3> QED
      BY <2>1, <2>4, <3>1 DEF UploadOK, Uploading, Uploaded, NothingLeft, g
  <2>5. CASE h.sdo # "ST_SDO_WAITING"
    <3>1. /\ Len(g.queue) = Len(h.queue) + Len(items)
          /\ \A i \in 1..Len(h.queue) : g.queue[i] = h.queue[i]
          /\ \A i \in 1..Len(g.queue) :
                i > Len(h.queue) => g.queue[i] = items[i - Len(h.queue)]
      <4> DEFINE q == h.queue
      <4>1. g.queue = q \o items /\ q \in Seq(Item)
        BY <2>2, <2>3, <2>5
      <4> HIDE DEF q
      <4>2. /\ Len(q \o items) = Len(q) + Len(items)
            /\ \A i \in 1..Len(q) + Len(items) :
                  (q \o items)[i] = IF i <= Len(q) THEN q[i] ELSE items[i - Len(q)]
        BY <4>1, ConcatProperties
      <4>3. Len(q) \in Nat /\ Len(items) \in Nat
        BY <4>1
      <4> QED
        BY <4>1, <4>2, <4>3 DEF q
    <3>2. \A i \in 1..Len(g.queue) : \/ i \in 1..Len(h.queue)
                                     \/ g.queue[i].cb = "profile" /\ i > Len(h.queue)
      <4> SUFFICES ASSUME NEW i \in 1..Len(g.queue), i \notin 1..Len(h.queue)
                   PROVE  g.queue[i].cb = "profile" /\ i > Len(h.queue)
        OBVIOUS
      <4>1. i > Len(h.queue) /\ i - Len(h.queue) \in 1..Len(items)
        BY <2>3, <3>1
      <4> QED
        BY <3>1, <4>1
    <3>3. CASE h.net = "ST_NET_PREOPERATIONAL"
      <4>1. Uploading(h)
        BY <3>3 DEF UploadOK
      <4>2. \A i \in 1..Len(g.queue) : CallbackAt(g.queue[i].cb, h.acked + 1 + i)
        <5> SUFFICES ASSUME NEW i \in 1..Len(g.queue)
                     PROVE  CallbackAt(g.queue[i].cb, h.acked + 1 + i)
          OBVIOUS
        <5>1. CASE i \in 1..Len(h.queue)
          BY <3>1, <4>1, <5>1 DEF Uploading, QueuedFrom
        <5>2. CASE g.queue[i].cb = "profile" /\ i > Len(h.queue)
          BY <2>3, <4>1, <5>2 DEF Uploading, QueuedFrom, CallbackAt
        <5> QED
          BY <3>2, <5>1, <5>2
      <4>3. Len(Config) <= h.acked + 1 + Len(h.queue) /\ Len(h.queue) \in Nat
        BY <2>3, <4>1 DEF Uploading, QueuedFrom
      <4>4. Len(items) \in Nat
        OBVIOUS
      <4>5. Len(Config) <= h.acked + 1 + Len(g.queue)
        BY <2>3, <3>1, <4>3, <4>4, SMTT(30)
      <4>6. QueuedFrom(g, g.acked + 1)
        BY <2>1, <4>2, <4>5 DEF QueuedFrom
      <4>7. Uploading(g)
        BY <2>1, <2>2, <2>5, <4>1, <4>6 DEF Uploading
      <4> QED
        BY <2>1, <3>3, <4>7 DEF UploadOK, g
    <3>4. CASE h.net \in {"ST_NET_STARTREMOTENODE", "ST_NET_OPERATIONAL"}
      <4>1. Uploaded(h)
        BY <3>4 DEF UploadOK
      <4>2. NothingLeft(g)
        BY <3>1, <3>2, <4>1 DEF Uploaded, NothingLeft
      <4> QED
        BY <2>1, <2>2, <2>5, <3>4, <4>1, <4>2 DEF UploadOK, Uploaded, g
    <3> QED
      BY <2>1, <3>3, <3>4 DEF UploadOK, g
  <2> QED
    BY <2>4, <2>5
<1> QED
  BY <1>0, <1>00

\* Writes and reads without callbacks.
LEMMA UploadWrite ==
    ASSUME NEW h \in Process, SdoOK(h), UploadOK(h), NEW ob \in Object, NEW val \in Nat
    PROVE  UploadOK(SdoQueueWrite(h, ob, val)) /\ UploadOK(SdoQueueRead(h, ob))
BY UploadQueue DEF SdoQueueWrite, SdoQueueRead

\* The motion machine keeps the upload in order.
LEMMA UploadMp ==
    ASSUME NEW h \in Process, SdoOK(h), UploadOK(h), NEW e
    PROVE  UploadOK(MpHandle(h, e))
<1> DEFINE n == MpNext(h.mp, e)
           x == MpExit(h)
           y == [x EXCEPT !.mp = n]
<1>1. CASE n = h.mp
  BY <1>1 DEF MpHandle
<1>2. CASE n # h.mp
  <2>1. n \in MpStates
    BY DEF MpNext, MpStates, Process
  <2>2. x = h \/ x = SdoQueueWrite(h, "control", ClearSetpoint)
    BY DEF MpExit
  <2>3. MpHandle(h, e) = MpEnter(y)
    BY <1>2 DEF MpHandle
  <2> HIDE DEF n, x
  <2>4. x \in Process /\ SdoOK(x) /\ UploadOK(x)
    BY <2>2, UploadWrite, QueueWriteOK, WordsType DEF Queued
  <2>5. /\ y \in Process /\ y.net = x.net /\ y.acked = x.acked /\ y.sdo = x.sdo
        /\ y.queue = x.queue /\ y.active = x.active /\ y.ses = x.ses
    BY <2>1, <2>4 DEF Process
  <2> HIDE DEF y
  <2>6. SdoOK(y) /\ UploadOK(y)
    BY <2>4, <2>5, UploadFrame DEF SdoOK, SdoEnabled
  <2>7. \/ MpEnter(y) = y
        \/ MpEnter(y) = SdoQueueWrite(y, "mode", ModeHoming)
        \/ MpEnter(y) = SdoQueueWrite(y, "mode", ModePP)
        \/ MpEnter(y) = SdoQueueWrite(y, "control", NewSetpoint)
        \/ MpEnter(y) = SdoQueueWrite(y, "control", ClearSetpoint)
    BY DEF MpEnter
  <2> QED
    BY <2>3, <2>5, <2>6, <2>7, UploadWrite, WordsType
<1> QED
  BY <1>1, <1>2

\* So does the drive machine.
LEMMA UploadDs ==
    ASSUME NEW h \in Process, SdoOK(h), UploadOK(h), NEW e
    PROVE  UploadOK(DsHandle(h, e))
<1> DEFINE n == DsNext(h.ds, e)
           x == DsExit(h)
           y == [x EXCEPT !.ds = n]
<1>1. CASE n = h.ds
  BY <1>1 DEF DsHandle
<1>2. CASE n # h.ds
  <2>1. n \in DsStates
    BY DEF DsNext, DsStates, Process
  <2>2. x = h \/ x = MpHandle(h, "EV_MP_DS_INOPERATIONAL")
    BY DEF DsExit
  <2>3. DsHandle(h, e) = DsEnter(y)
    BY <1>2 DEF DsHandle
  <2> HIDE DEF n, x
  <2>4. x \in Process /\ SdoOK(x) /\ UploadOK(x)
    BY <2>2, UploadMp, MpHandleOK
  <2>5. /\ y \in Process /\ y.net = x.net /\ y.acked = x.acked /\ y.sdo = x.sdo
        /\ y.queue = x.queue /\ y.active = x.active /\ y.ses = x.ses
    BY <2>1, <2>4 DEF Process
  <2> HIDE DEF y
  <2>6. SdoOK(y) /\ UploadOK(y)
    BY <2>4, <2>5, UploadFrame DEF SdoOK, SdoEnabled
  <2>7. \/ DsEnter(y) = y
        \/ DsEnter(y) = SdoQueueWrite(y, "control", Shutdown)
        \/ DsEnter(y) = SdoQueueWrite(y, "control", SwitchOn)
        \/ DsEnter(y) = SdoQueueWrite(y, "control", EnableOperation)
        \/ DsEnter(y) = SdoQueueRead(y, "clear_fault")
        \/ DsEnter(y) = MpHandle(y, "EV_MP_DS_OPERATIONAL")
    BY DEF DsEnter
  <2> QED
    BY <2>3, <2>5, <2>6, <2>7, UploadWrite, UploadMp, WordsType
<1> QED
  BY <1>1, <1>2

\* Entering PREOPERATIONAL with SDOs not enabled starts an upload.
LEMMA UploadBegins ==
    ASSUME NEW h \in Process, SdoOK(h), ~SdoEnabled(h)
    PROVE  LET g == NetQueueSetup(SdoHandle(h, "EV_NET_SDO_ENABLED"))
           IN  Uploading(g)
<1> DEFINE u == SdoHandle(h, "EV_NET_SDO_ENABLED")
           f == [u EXCEPT !.acked = 0]
           items == ConfigItems(u.ses)
           g == SdoQueueAll(f, items)
<1>1. u \in Process /\ SdoOK(u) /\ u.sdo = "ST_SDO_WAITING"
  BY EnableOK, EnableExact
<1>2. NetQueueSetup(u) = g
  BY DEF NetQueueSetup
<1> HIDE DEF u
<1>3. /\ f \in Process /\ f.sdo = "ST_SDO_WAITING" /\ f.queue = u.queue
      /\ f.acked = 0 /\ f.ses = u.ses /\ u.ses \in {0, 1}
  BY <1>1 DEF Process
<1> HIDE DEF f
<1>4. SdoOK(f)
  BY <1>1, <1>3 DEF SdoOK, SdoEnabled
<1>5. Len(Config) \in Nat /\ Len(Config) > 0
  BY ConfigAssumption
<1>6. items \in Seq(Item) /\ \A i \in 1..Len(items) : items[i].ses = f.ses
  BY <1>3, ConfigItemsType
<1>7. /\ Len(items) = Len(Config)
      /\ \A i \in 1..Len(Config) : CallbackAt(items[i].cb, i)
  <2>1. DOMAIN items = 1..Len(Config)
    BY DEF ConfigItems
  <2>2. \A i \in 1..Len(Config) :
           items[i].cb = IF i = Len(Config) THEN "final" ELSE "config"
    BY DEF ConfigItems
  <2> HIDE DEF items
  <2> QED
    BY <1>5, <1>6, <2>1, <2>2 DEF CallbackAt
<1> HIDE DEF items
<1>8. /\ g.sdo = "ST_SDO_SENDING" /\ g.active = Head(items)
      /\ g.queue = Tail(items)
  BY <1>3, <1>4, <1>5, <1>6, <1>7, QueueAllExact DEF Sends
<1>9. g.acked = 0
  BY <1>3, <1>4, <1>6, QueueAllOK DEF SameAboveSdo
<1> HIDE DEF g
<1>10. /\ g.active = items[1] /\ Len(g.queue) = Len(Config) - 1
       /\ \A i \in 1..Len(g.queue) : g.queue[i] = items[i + 1]
  BY <1>5, <1>6, <1>7, <1>8
<1>11. Uploading(g)
  BY <1>5, <1>7, <1>8, <1>9, <1>10 DEF Uploading, QueuedFrom
<1> QED
  BY <1>2, <1>11 DEF u

(***************************************************************************)
(* Network events other than the end of the upload.  Whatever takes the    *)
(* link away leaves the invariant nothing to say until the next upload.    *)
(***************************************************************************)
LEMMA UploadNet ==
    ASSUME NEW h \in Process, SdoOK(h), NetLinked(h), UploadOK(h),
           NEW e, e # "EV_NET_UPLOAD_COMPLETE"
    PROVE  UploadOK(NetHandle(h, e))
<1> DEFINE n == NetNext(h.net, e)
           y == [h EXCEPT !.net = n]
           g == NetHandle(h, e)
<1>1. g.net = n
  BY NetHandleOK
<1>2. CASE n = h.net
  BY <1>2 DEF NetHandle
<1>3. CASE n # h.net /\ n = "ST_NET_PREOPERATIONAL"
  <2>1. h.net \in {"ST_NET_UNKNOWN", "ST_NET_ENTERPREOPERATIONAL"}
    BY <1>3 DEF NetNext
  <2>2. /\ y \in Process /\ y.sdo = h.sdo /\ y.queue = h.queue
        /\ y.active = h.active /\ y.ses = h.ses /\ y.net = n
    BY <1>3 DEF Process, NetStates
  <2>3. g = NetEnter(y)
    BY <1>3, <2>1 DEF NetHandle, NetExit
  <2> HIDE DEF y, n
  <2>4. SdoOK(y) /\ ~SdoEnabled(y)
    BY <2>1, <2>2 DEF SdoOK, SdoEnabled, NetLinked, SdoNetStates
  <2>5. g = NetQueueSetup(SdoHandle(y, "EV_NET_SDO_ENABLED"))
    BY <1>3, <2>2, <2>3 DEF NetEnter
  <2> QED
    BY <1>1, <1>3, <2>2, <2>4, <2>5, UploadBegins DEF UploadOK
<1>4. CASE n # h.net /\ n = "ST_NET_OPERATIONAL"
  <2> DEFINE u == SdoHandle(y, "EV_NET_SDO_ENABLED")
  <2>1. h.net = "ST_NET_STARTREMOTENODE"
    BY <1>4 DEF NetNext
  <2>2. /\ y \in Process /\ y.sdo = h.sdo /\ y.queue = h.queue /\ y.acked = h.acked
        /\ y.active = h.active /\ y.ses = h.ses /\ y.net = n
    BY <1>4 DEF Process, NetStates
  <2>3. g = NetEnter(y)
    BY <1>4, <2>1 DEF NetHandle, NetExit
  <2> HIDE DEF y, n
  <2>4. SdoOK(y) /\ Uploaded(y)
    BY <2>1, <2>2 DEF SdoOK, SdoEnabled, UploadOK, Uploaded, NothingLeft
  <2>5. g = DsHandle(u, "EV_DS_NET_OPERATIONAL")
    BY <1>4, <2>2, <2>3 DEF NetEnter
  <2>6. u \in Process /\ SdoOK(u) /\ u.net = y.net /\ u.acked = y.acked
    BY <2>2, <2>4, EnableOK DEF SameAboveSdo
  <2>7. u = y \/ (u.queue = <<>> /\ u.active = y.active)
    BY <2>2, EnableExact
  <2> HIDE DEF u
  <2>8. Uploaded(u)
    BY <2>4, <2>6, <2>7 DEF Uploaded, NothingLeft
  <2>9. UploadOK(u)
    BY <1>4, <2>2, <2>6, <2>8 DEF UploadOK
  <2> QED
    BY <2>5, <2>6, <2>9, UploadDs
<1>5. n = "ST_NET_STARTREMOTENODE" => n = h.net
  BY DEF NetNext
<1> HIDE DEF n
<1> QED
  BY <1>1, <1>2, <1>3, <1>4, <1>5 DEF UploadOK

(***************************************************************************)
(* Between the callback of a confirmed item and the sending of the next    *)
(* one, the confirmed write is counted but still the active one.           *)
(***************************************************************************)
Between(h) ==
    /\ h.net = "ST_NET_PREOPERATIONAL" =>
          h.sdo = "ST_SDO_SENDING" /\ h.acked < Len(Config) /\ QueuedFrom(h, h.acked)
    /\ h.net \in {"ST_NET_STARTREMOTENODE", "ST_NET_OPERATIONAL"} =>
          h.acked = Len(Config) /\ NothingLeft(h)

\* The callback of the active item: only that of the last write ends the upload.
LEMMA ConfirmedBetween ==
    ASSUME NEW h, Good(h), UploadOK(h)
    PROVE  Between(ItemConfirmed(h))
<1> DEFINE k == [h EXCEPT !.acked = @ + 1]
           y == [k EXCEPT !.net = "ST_NET_STARTREMOTENODE"]
           s == [y EXCEPT !.nmt = "NMT_STARTREMOTENODE"]
           g == ItemConfirmed(h)
<1>1. h \in Process /\ Len(Config) \in Nat /\ h.acked \in Nat /\ h.queue \in Seq(Item)
  BY ConfigAssumption DEF Good, Process
<1>2. /\ k.net = h.net /\ k.sdo = h.sdo /\ k.queue = h.queue /\ k.acked = h.acked + 1
      /\ k.active = h.active
  BY <1>1 DEF Process
<1>3. /\ s.net = "ST_NET_STARTREMOTENODE" /\ s.queue = h.queue
      /\ s.acked = h.acked + 1
  BY <1>1 DEF Process
<1>4. CASE h.net = "ST_NET_PREOPERATIONAL"
  <2>1. Uploading(h)
    BY <1>4 DEF UploadOK
  <2>2. CASE h.acked + 1 < Len(Config)
    <3>1. g = k
      BY <1>1, <2>1, <2>2 DEF Uploading, CallbackAt, ItemConfirmed
    <3> HIDE DEF k, s
    <3> QED
      BY <1>1, <1>2, <1>4, <2>1, <2>2, <3>1 DEF Between, Uploading, QueuedFrom
  <2>3. CASE h.acked + 1 = Len(Config)
    <3>1. g = NetHandle(k, "EV_NET_UPLOAD_COMPLETE")
      <4>1. h.active.cb = "final"
        BY <1>1, <2>1, <2>3 DEF Uploading, CallbackAt
      <4> QED
        BY <4>1 DEF ItemConfirmed
    <3>2. NetHandle(k, "EV_NET_UPLOAD_COMPLETE") = NetEnter(y)
      <4> HIDE DEF k
      <4> QED
        BY <1>2, <1>4 DEF NetHandle, NetNext, NetExit
    <3>3. NetEnter(y) = s
      <4>1. y.net = "ST_NET_STARTREMOTENODE"
        BY <1>1 DEF Process
      <4> HIDE DEF y
      <4> QED
        BY <4>1 DEF NetEnter, SendNmt
    <3> HIDE DEF k, y, s
    <3>4. NothingLeft(s)
      <4> SUFFICES ASSUME NEW i \in 1..Len(h.queue)
                   PROVE  h.queue[i].cb \notin {"config", "final"}
        BY <1>3 DEF NothingLeft
      <4>1. CallbackAt(h.queue[i].cb, h.acked + 1 + i)
        BY <2>1 DEF Uploading, QueuedFrom
      <4>2. i \in Nat /\ i > 0
        BY <1>1
      <4> QED
        BY <1>1, <2>3, <4>1, <4>2 DEF CallbackAt
    <3> QED
      BY <1>3, <2>3, <3>1, <3>2, <3>3, <3>4 DEF Between
  <2> QED
    BY <1>1, <2>1, <2>2, <2>3 DEF Uploading
<1>5. CASE h.net \in {"ST_NET_STARTREMOTENODE", "ST_NET_OPERATIONAL"}
  <2>1. Uploaded(h)
    BY <1>5 DEF UploadOK
  <2>2. g = h
    BY <2>1 DEF Uploaded, ItemConfirmed
  <2> HIDE DEF g
  <2> QED
    BY <1>5, <2>1, <2>2 DEF Between, Uploaded, g
<1>6. CASE h.net \notin {"ST_NET_PREOPERATIONAL", "ST_NET_STARTREMOTENODE",
                         "ST_NET_OPERATIONAL"}
  <2>1. g = h \/ g = k \/ g = NetHandle(k, "EV_NET_UPLOAD_COMPLETE")
    BY DEF ItemConfirmed
  <2> HIDE DEF k, g
  <2>2. NetHandle(k, "EV_NET_UPLOAD_COMPLETE") = k
    BY <1>2, <1>6 DEF NetHandle, NetNext
  <2>3. g.net = h.net
    BY <1>2, <2>1, <2>2
  <2> QED
    BY <1>6, <2>3 DEF Between, g
<1> QED
  BY <1>4, <1>5, <1>6

\* Sending the next item restores the invariant.
LEMMA UploadFinish ==
    ASSUME NEW h \in Process, SdoOK(h), Between(h),
           NEW e \in {"EV_SDO_READ_RESPONSE", "EV_SDO_WRITE_RESPONSE",
                      "EV_SDO_ABORT_RESPONSE"},
           e = "EV_SDO_ABORT_RESPONSE" => h.net # "ST_NET_PREOPERATIONAL"
    PROVE  UploadOK(SdoFinish(h, e))
<1> DEFINE g == SdoFinish(h, e)
           next == /\ h.sdo = "ST_SDO_SENDING" /\ h.queue # <<>>
                   /\ e # "EV_SDO_ABORT_RESPONSE"
<1>1. g.net = h.net /\ g.acked = h.acked
  BY FinishOK DEF SameAboveSdo
<1>2. /\ next => /\ g.sdo = "ST_SDO_SENDING" /\ g.active = Head(h.queue)
                 /\ g.queue = Tail(h.queue)
      /\ ~next => g.active = NoSdo /\ g.queue = h.queue
  BY FinishExact DEF Sends
<1>3. h.queue \in Seq(Item) /\ Len(Config) \in Nat /\ h.acked \in Nat
  BY ConfigAssumption DEF Process
<1>4. NoSdo.cb = "none"
  BY DEF NoSdo
<1>5. next => /\ g.active = h.queue[1] /\ Len(g.queue) = Len(h.queue) - 1
              /\ 1 \in 1..Len(h.queue)
              /\ \A i \in 1..Len(g.queue) :
                    g.queue[i] = h.queue[i + 1] /\ i + 1 \in 1..Len(h.queue)
  <2>1. \A q \in Seq(Item) : q # <<>> =>
           /\ Head(q) = q[1] /\ Len(Tail(q)) = Len(q) - 1 /\ 1 \in 1..Len(q)
           /\ \A i \in 1..Len(Tail(q)) : Tail(q)[i] = q[i + 1] /\ i + 1 \in 1..Len(q)
    OBVIOUS
  <2> HIDE DEF g
  <2> QED
    BY <1>2, <1>3, <2>1
<1> HIDE DEF g
<1>6. CASE h.net = "ST_NET_PREOPERATIONAL"
  <2>1. /\ h.sdo = "ST_SDO_SENDING" /\ h.acked < Len(Config)
        /\ QueuedFrom(h, h.acked)
    BY <1>6 DEF Between
  <2>2. h.queue # <<>>
    BY <1>3, <2>1 DEF QueuedFrom
  <2>3. next
    BY <1>6, <2>1, <2>2
  <2>4. CallbackAt(g.active.cb, h.acked + 1)
    BY <1>5, <2>1, <2>3 DEF QueuedFrom
  <2>5. QueuedFrom(g, h.acked + 1)
    <3>1. \A i \in 1..Len(g.queue) : CallbackAt(g.queue[i].cb, h.acked + (i + 1))
      BY <1>5, <2>1, <2>3 DEF QueuedFrom
    <3>2. \A i \in 1..Len(g.queue) : h.acked + (i + 1) = h.acked + 1 + i
      BY <1>3
    <3>3. Len(Config) <= h.acked + 1 + Len(g.queue)
      BY <1>3, <1>5, <2>1, <2>3 DEF QueuedFrom
    <3> QED
      BY <3>1, <3>2, <3>3 DEF QueuedFrom
  <2> QED
    BY <1>1, <1>2, <1>6, <2>1, <2>3, <2>4, <2>5 DEF UploadOK, Uploading, g
<1>7. CASE h.net \in {"ST_NET_STARTREMOTENODE", "ST_NET_OPERATIONAL"}
  <2>1. h.acked = Len(Config) /\ NothingLeft(h)
    BY <1>7 DEF Between
  <2>2. CASE next
    <3>1. /\ g.active.cb \notin {"config", "final"}
          /\ NothingLeft(g)
      BY <1>5, <2>1, <2>2 DEF NothingLeft
    <3> QED
      BY <1>1, <1>7, <2>1, <3>1 DEF UploadOK, Uploaded, g
  <2>3. CASE ~next
    BY <1>1, <1>2, <1>4, <1>7, <2>1, <2>3 DEF UploadOK, Uploaded, NothingLeft, g
  <2> QED
    BY <2>2, <2>3
<1> QED
  BY <1>1, <1>6, <1>7 DEF UploadOK, g

\* An answer keeps the upload in order; an abort of one of its writes exits.
LEMMA UploadDispatch ==
    ASSUME NEW h, Good(h), UploadOK(h), NEW r \in Frame, NEW answer
    PROVE  UploadOK(DispatchSdo(h, r, answer))
<1> DEFINE a == [h EXCEPT !.status = "aborted"]
           x == [h EXCEPT !.status = "exited"]
           c == ItemConfirmed(h)
<1>1. h \in Process /\ SdoOK(h)
  BY DEF Good
<1>2. UploadOK(a) /\ UploadOK(x)
  <2>1. /\ a.net = h.net /\ a.acked = h.acked /\ a.sdo = h.sdo /\ a.queue = h.queue
        /\ a.active = h.active
        /\ x.net = h.net /\ x.acked = h.acked /\ x.sdo = h.sdo /\ x.queue = h.queue
        /\ x.active = h.active
    BY <1>1 DEF Process
  <2> HIDE DEF a, x
  <2> QED
    BY <2>1, UploadFrame
<1>3. UploadOK(SdoConfirmCallback(h, r))
  <2>1. \/ SdoConfirmCallback(h, r) = a
        \/ SdoConfirmCallback(h, r) = SdoFinish(c, "EV_SDO_READ_RESPONSE")
        \/ SdoConfirmCallback(h, r) = SdoFinish(c, "EV_SDO_WRITE_RESPONSE")
    BY DEF SdoConfirmCallback
  <2>2. Good(c) /\ Between(c)
    BY GoodConfirmed, ConfirmedBetween
  <2>3. c \in Process /\ SdoOK(c)
    BY <2>2 DEF Good
  <2> HIDE DEF a, c
  <2> QED
    BY <1>2, <2>1, <2>2, <2>3, UploadFinish
<1>4. UploadOK(SdoAbortCallback(h, r))
  <2>1. CASE h.active # NoSdo /\ h.active.ob = r.ob /\ ~HasAbortCallback(h.active)
    <3>1. SdoAbortCallback(h, r) = SdoFinish(h, "EV_SDO_ABORT_RESPONSE")
      BY <2>1 DEF SdoAbortCallback
    <3>2. h.net # "ST_NET_PREOPERATIONAL"
      <4>1. h.active.cb = "none" /\ h.acked \in Nat /\ Len(Config) \in Nat
        BY <1>1, <2>1, ConfigAssumption DEF HasAbortCallback, Process
      <4> QED
        BY <4>1 DEF UploadOK, Uploading, CallbackAt
    <3>3. Between(h)
      BY <3>2 DEF UploadOK, Uploaded, Between
    <3> QED
      BY <1>1, <3>1, <3>2, <3>3, UploadFinish
  <2>2. CASE ~(h.active # NoSdo /\ h.active.ob = r.ob /\ ~HasAbortCallback(h.active))
    <3>1. SdoAbortCallback(h, r) = a \/ SdoAbortCallback(h, r) = x
      BY <2>2 DEF SdoAbortCallback
    <3> HIDE DEF a, x
    <3> QED
      BY <1>2, <3>1
  <2> QED
    BY <2>1, <2>2
<1>5. \/ DispatchSdo(h, r, answer) = h
      \/ DispatchSdo(h, r, answer) = SdoConfirmCallback(h, r)
      \/ DispatchSdo(h, r, answer) = SdoAbortCallback(h, r)
  BY DEF DispatchSdo
<1> QED
  BY <1>3, <1>4, <1>5

\* Writes of a profile go behind the upload.
LEMMA UploadWritePending ==
    ASSUME NEW h, Good(h), UploadOK(h), NEW n \in 0..Len(ProfileFields),
           NEW load \in BOOLEAN
    PROVE  UploadOK(WritePendingChanges(h, n, load))
<1> DEFINE l == LoadTask(h, load)
           items == ProfileItems(n, l.ses)
           q == SdoQueueAll(l, items)
<1>1. h \in Process /\ SdoOK(h) /\ n \in Nat
  BY FieldsAssumption DEF Good
<1>2. l \in Process /\ SdoOK(l) /\ UploadOK(l) /\ l.ses \in {0, 1}
  <2>1. l = h \/ l = SdoQueueWrite(h, "copy_task", 0)
    BY DEF LoadTask
  <2>2. Queued(h, SdoQueueWrite(h, "copy_task", 0))
    BY <1>1, QueueWriteOK, WordsType
  <2>3. l \in Process /\ SdoOK(l) /\ UploadOK(l)
    BY <1>1, <2>1, <2>2, UploadWrite, WordsType DEF Queued
  <2> QED
    BY <2>3 DEF Process
<1>3. /\ items \in Seq(Item)
      /\ \A i \in 1..Len(items) : items[i].ses = l.ses
      /\ \A i \in 1..Len(items) : items[i].cb = "profile"
  BY <1>2, ProfileItemsType
<1>4. \/ WritePendingChanges(h, n, load) = h
      \/ WritePendingChanges(h, n, load) = SdoQueueWrite(q, "copy_task", 0)
  BY DEF WritePendingChanges
<1> HIDE DEF items, l
<1>5. q \in Process /\ SdoOK(q) /\ UploadOK(q)
  BY <1>2, <1>3, QueueAllOK, UploadQueueAll
<1> HIDE DEF q
<1> QED
  BY <1>4, <1>5, UploadWrite, WordsType

\* Executing a profile, in whatever state, does not disturb an upload.
LEMMA UploadExecute ==
    ASSUME NEW h, Good(h), UploadOK(h), NEW n \in 0..Len(ProfileFields),
           NEW load \in BOOLEAN
    PROVE  UploadOK(ProfileExecute(h, n, load))
<1> DEFINE w == WritePendingChanges(h, n, load)
           t == SdoQueueWrite(w, "motion_task", 0)
           c == SdoQueueWrite(t, "control", NewSetpoint)
<1>1. w \in Process /\ SdoOK(w) /\ UploadOK(w)
  BY GoodWritePending, UploadWritePending DEF Good
<1>2. \/ ProfileExecute(h, n, load) = h
      \/ ProfileExecute(h, n, load) = MpHandle(c, "EV_MP_SETPOINT_SET")
  BY DEF ProfileExecute
<1> HIDE DEF w
<1>3. t \in Process /\ SdoOK(t) /\ UploadOK(t)
  BY <1>1, QueueWriteOK, UploadWrite, WordsType DEF Queued
<1> HIDE DEF t
<1>4. c \in Process /\ SdoOK(c) /\ UploadOK(c)
  BY <1>3, QueueWriteOK, UploadWrite, WordsType DEF Queued
<1> HIDE DEF c
<1> QED
  BY <1>2, <1>4, UploadMp

\* A status report may arrive in the middle of an upload.
LEMMA UploadTpdo1 ==
    ASSUME NEW h, Good(h), UploadOK(h), NEW s \in StatusWords, NEW on \in BOOLEAN,
           NEW m \in DriveModes, NEW b \in BOOLEAN
    PROVE  UploadOK(Tpdo1Received(h, s, on, m, b))
<1> DEFINE x == StatusReceived(h, s)
           y == VoltageReceived(x, on)
           pp == MpHandle(y, "EV_MP_MODE_PP")
           hh == MpHandle(y, "EV_MP_MODE_HOMING")
<1>1. Good(x) /\ UploadOK(x)
  <2>1. x = h \/ x = DsHandle(h, s)
    BY DEF StatusReceived
  <2>2. s \notin {"EV_DS_NET_OPERATIONAL", "EV_DS_NET_INOPERATIONAL"}
    BY DEF StatusWords
  <2> QED
    BY <2>1, <2>2, GoodDs, UploadDs DEF Good
<1> HIDE DEF x
<1>2. Good(y) /\ UploadOK(y)
  <2>1. \/ y = DsHandle(x, "EV_DS_VOLTAGE_ENABLED")
        \/ y = DsHandle(x, "EV_DS_VOLTAGE_DISABLED")
    BY DEF VoltageReceived
  <2>2. x \in Process /\ SdoOK(x)
    BY <1>1 DEF Good
  <2> QED
    BY <1>1, <2>1, <2>2, GoodDs, UploadDs
<1> HIDE DEF y
<1>3. y \in Process /\ SdoOK(y)
  BY <1>2 DEF Good
<1>4. /\ pp \in Process /\ SdoOK(pp) /\ UploadOK(pp)
      /\ hh \in Process /\ SdoOK(hh) /\ UploadOK(hh)
  BY <1>2, <1>3, MpHandleOK, UploadMp
<1>5. \/ Tpdo1Received(h, s, on, m, b) = y
      \/ Tpdo1Received(h, s, on, m, b) = MpHandle(pp, "EV_MP_SETPOINT_ACK")
      \/ Tpdo1Received(h, s, on, m, b) = MpHandle(pp, "EV_MP_SETPOINT_NACK")
      \/ Tpdo1Received(h, s, on, m, b) = MpHandle(hh, "EV_MP_HOMED")
      \/ Tpdo1Received(h, s, on, m, b) = MpHandle(hh, "EV_MP_NOTHOMED")
  BY DEF Tpdo1Received, ModeReceived, x, y
<1> HIDE DEF pp, hh
<1> QED
  BY <1>2, <1>4, <1>5, UploadMp

\* Closing the device ends an upload, or fails and leaves it as it is.
LEMMA UploadClose ==
    ASSUME NEW h, Good(h), UploadOK(h), NEW ok \in BOOLEAN
    PROVE  UploadOK(IntfClose(h, ok))
<1> DEFINE c == IntfClose(h, ok)
<1>1. h \in Process /\ SdoOK(h) /\ NetLinked(h)
  BY DEF Good, Linked
<1>2. CASE SameMachines(h, c)
  BY <1>2, UploadFrame DEF SameMachines
<1>3. CASE \E j \in Process : /\ SameMachines(h, j)
                              /\ c = NetHandle(j, "EV_NET_INTF_CLOSED")
  <2>1. PICK j \in Process : /\ SameMachines(h, j)
                             /\ c = NetHandle(j, "EV_NET_INTF_CLOSED")
    BY <1>3
  <2> HIDE DEF c
  <2>2. UploadOK(j)
    BY <2>1, UploadFrame DEF SameMachines
  <2> QED
    BY <1>1, <2>1, <2>2, MachinesAlike, UploadNet DEF c
<1> QED
  BY <1>1, <1>2, <1>3, CloseCases

\* Before the first upload there is nothing to say.
LEMMA UploadInit == Init => UploadOK(host)
<1> SUFFICES ASSUME NEW ok \in BOOLEAN PROVE UploadOK(IntfOpen(Created, ok))
  BY DEF Init
<1> DEFINE c == IntfOpen(Created, ok)
<1>1. /\ Created.net = "ST_NET_DISABLED" /\ Created.sdo = "ST_SDO_DISABLED"
      /\ Created.ds = "ST_DS_DISABLED" /\ Created.mp = "ST_MP_DISABLED"
  BY DEF Created
<1>2. SdoOK(Created) /\ NetLinked(Created)
  BY <1>1 DEF NetLinked, DsLinked, SdoOK, SdoEnabled
<1>3. CASE SameMachines(Created, c)
  BY <1>1, <1>3 DEF SameMachines, UploadOK
<1>4. CASE \E j \in Process : /\ SameMachines(Created, j)
                              /\ c = NetHandle(j, "EV_NET_INTF_OPENED")
  <2>1. PICK j \in Process : /\ SameMachines(Created, j)
                             /\ c = NetHandle(j, "EV_NET_INTF_OPENED")
    BY <1>4
  <2> HIDE DEF c
  <2>2. UploadOK(j)
    BY <1>1, <2>1 DEF SameMachines, UploadOK
  <2> QED
    BY <1>2, <2>1, <2>2, MachinesAlike, UploadNet DEF c
<1> QED
  BY <1>3, <1>4, OpenCases

\* A callback that ends the process leaves the rest as it was.
LEMMA UploadSettle ==
    ASSUME UInv, NEW h, UploadOK(h)
    PROVE  UploadOK(Settle(h))
<1> DEFINE g == [host EXCEPT !.status = h.status]
<1>1. /\ g.net = host.net /\ g.acked = host.acked /\ g.sdo = host.sdo
      /\ g.queue = host.queue /\ g.active = host.active
  BY DEF UInv, IInv, Good, Process
<1>2. Settle(h) = h \/ Settle(h) = g
  BY DEF Settle
<1> HIDE DEF g
<1> QED
  BY <1>1, <1>2, UploadFrame DEF UInv

\* Every step keeps the upload in order: one step of the proof per action.
LEMMA UploadStep ==
    ASSUME UInv, [Next]_vars
    PROVE  UploadOK(host')
<1>0. Good(host) /\ UploadOK(host) /\ host \in Process /\ SdoOK(host) /\ NetLinked(host)
  BY DEF UInv, IInv, Good, Linked
<1>1. CASE OnNmt
  <2>1. PICK s \in NmtReports : host' = Settle(NmtReceived(host, s))
    BY <1>1 DEF OnNmt
  <2> DEFINE k == IF s = "other" THEN host ELSE NetHandle(host, s)
             g == [k EXCEPT !.quiet = FALSE]
  <2>2. k \in Process /\ UploadOK(k)
    BY <1>0, NetHandleOK, UploadNet DEF NmtReports
  <2>3. NmtReceived(host, s) = g
    BY DEF NmtReceived
  <2> HIDE DEF k
  <2>4. /\ g.net = k.net /\ g.acked = k.acked /\ g.sdo = k.sdo
        /\ g.queue = k.queue /\ g.active = k.active
    BY <2>2 DEF Process
  <2> HIDE DEF g
  <2> QED
    BY <2>1, <2>2, <2>3, <2>4, UploadFrame, UploadSettle
<1>2. CASE OnTpdo1
  <2>1. PICK s \in StatusWords, on \in BOOLEAN, m \in DriveModes, b \in BOOLEAN :
           host' = Settle(Tpdo1Received(host, s, on, m, b))
    BY <1>2 DEF OnTpdo1
  <2> QED
    BY <1>0, <2>1, UploadTpdo1, UploadSettle
<1>3. CASE OnTpdo2 \/ NmtSilence \/ LoseFrame \/ UNCHANGED vars
  <2>1. /\ host'.net = host.net /\ host'.acked = host.acked /\ host'.sdo = host.sdo
        /\ host'.queue = host.queue /\ host'.active = host.active
    BY <1>0, <1>3 DEF OnTpdo2, NmtSilence, LoseFrame, vars, Process
  <2> QED
    BY <1>0, <2>1, UploadFrame
<1>4. CASE OnSdoAnswer
  <2> DEFINE g == [host EXCEPT !.tx = Tail(@)]
  <2>1. host.tx \in Seq(Frame) /\ host.tx # <<>>
    BY <1>0, <1>4 DEF Process, OnSdoAnswer
  <2>2. Head(host.tx) \in Frame /\ Tail(host.tx) \in Seq(Frame)
    BY <2>1
  <2>3. /\ g \in Process /\ g.intf = host.intf /\ g.net = host.net
        /\ g.ds = host.ds /\ g.mp = host.mp /\ g.sdo = host.sdo
        /\ g.queue = host.queue /\ g.active = host.active /\ g.ses = host.ses
        /\ g.acked = host.acked
    BY <1>0, <2>2 DEF Process
  <2>4. \E answer : host' = Settle(DispatchSdo(g, Head(host.tx), answer))
    BY <1>4 DEF OnSdoAnswer
  <2> HIDE DEF g
  <2>5. Good(g) /\ UploadOK(g)
    BY <1>0, <2>3, GoodFrame, UploadFrame
  <2> QED
    BY <2>2, <2>4, <2>5, UploadDispatch, UploadSettle
<1>5. CASE OnReadError
  <2>1. PICK ok \in BOOLEAN : host' = Settle(IntfClose(host, ok))
    BY <1>5 DEF OnReadError
  <2> QED
    BY <1>0, <2>1, UploadClose, UploadSettle
<1>6. CASE NmtWatchdog
  <2>1. host' = Settle(NetHandle(host, "EV_NET_WATCHDOG_FAILED"))
    BY <1>6 DEF NmtWatchdog
  <2> QED
    BY <1>0, <2>1, UploadNet, UploadSettle
<1>7. CASE Execute
  <2>1. PICK n \in 0..Len(ProfileFields), load \in BOOLEAN :
           host' = Settle(ProfileExecute(host, n, load))
    BY <1>7 DEF Execute
  <2> QED
    BY <1>0, <2>1, UploadExecute, UploadSettle
<1>8. CASE WritePending
  <2>1. PICK n \in 1..Len(ProfileFields), load \in BOOLEAN :
           host' = Settle(WritePendingChanges(host, n, load))
    BY <1>8 DEF WritePending
  <2>2. n \in 0..Len(ProfileFields)
    BY FieldsAssumption
  <2> QED
    BY <1>0, <2>1, <2>2, UploadWritePending, UploadSettle
<1>9. CASE LightSetState
  <2>1. host' = Settle(SdoQueueWrite(host, "light", 0))
    BY <1>9 DEF LightSetState
  <2> QED
    BY <1>0, <2>1, UploadWrite, UploadSettle, WordsType
<1> QED
  BY <1>1, <1>2, <1>3, <1>4, <1>5, <1>6, <1>7, <1>8, <1>9 DEF Next

(***************************************************************************)
(* The invariant of the upload holds in every reachable state.             *)
(***************************************************************************)
THEOREM UploadInvariance == Spec => []UInv
<1>1. Init => UInv
  BY GoodInit, UploadInit DEF UInv
<1>2. UInv /\ [Next]_vars => UInv'
  BY UploadStep, Inductive DEF UInv
<1> QED
  BY <1>1, <1>2, PTL DEF Spec

(***************************************************************************)
(* The drive is started, and accepted as operational, only after every     *)
(* write of the configuration was confirmed since the upload began, for    *)
(* every configuration and whatever else was queued during the upload.     *)
(***************************************************************************)
THEOREM ConfiguredBeforeStartHolds == Spec => []ConfiguredBeforeStart
<1>1. UInv => ConfiguredBeforeStart
  BY DEF UInv, UploadOK, Uploaded, ConfiguredBeforeStart
<1> QED
  BY <1>1, UploadInvariance, PTL
=============================================================================
