---------------------------- MODULE SledSetpoint ----------------------------
(***************************************************************************)
(* new_setpoint rises only from a word that has it clear and the operation *)
(* enabled, and the handshake never waits for a setpoint that was not      *)
(* queued.                                                                 *)
(*                                                                         *)
(* Two machines and the client commands write the control word through one *)
(* queue, so what counts is the word the drive will have seen last before  *)
(* each one: the last control word before it in the queue or, if there is  *)
(* none, the last one sent.                                                *)
(***************************************************************************)
EXTENDS SledUpload

IsControl(x) == x.ob = "control"

\* The control word before place n of queue q, with w the last sent, is in S.
WordBefore(q, w, n, S) ==
    \/ w \in S /\ \A j \in 1..(n - 1) : ~IsControl(q[j])
    \/ \E k \in 1..(n - 1) : /\ IsControl(q[k]) /\ q[k].val \in S
                             /\ \A j \in (k + 1)..(n - 1) : ~IsControl(q[j])

LastWord(q, w, S) == WordBefore(q, w, Len(q) + 1, S)

\* Every setpoint that is queued will find the bit clear.
Edges(q, w) ==
    \A i \in 1..Len(q) : IsControl(q[i]) /\ q[i].val = NewSetpoint =>
        WordBefore(q, w, i, EnabledWithBitClear)

\* The last control word when x is sent.
WordAfter(x, w) == IF IsControl(x) THEN x.val ELSE w

-----------------------------------------------------------------------------
\* A word before a place does not depend on what is queued from there on.
LEMMA WordPrefix ==
    ASSUME NEW q, NEW r, NEW w, NEW n \in Nat, NEW S,
           \A j \in 1..(n - 1) : r[j] = q[j], WordBefore(q, w, n, S)
    PROVE  WordBefore(r, w, n, S)
<1>1. CASE w \in S /\ \A j \in 1..(n - 1) : ~IsControl(q[j])
  BY <1>1 DEF WordBefore
<1>2. CASE \E k \in 1..(n - 1) : /\ IsControl(q[k]) /\ q[k].val \in S
                                 /\ \A j \in (k + 1)..(n - 1) : ~IsControl(q[j])
  <2>1. PICK k \in 1..(n - 1) : /\ IsControl(q[k]) /\ q[k].val \in S
                                /\ \A j \in (k + 1)..(n - 1) : ~IsControl(q[j])
    BY <1>2
  <2>2. \A j \in (k + 1)..(n - 1) : j \in 1..(n - 1)
    OBVIOUS
  <2> QED
    BY <2>1, <2>2 DEF WordBefore
<1> QED
  BY <1>1, <1>2 DEF WordBefore

\* Work that is no control word leaves the last control word as it is.
LEMMA WordPasses ==
    ASSUME NEW q, NEW w, NEW n \in Nat, NEW m \in Nat, 0 < n, n <= m, NEW S,
           \A j \in n..(m - 1) : ~IsControl(q[j]), WordBefore(q, w, n, S)
    PROVE  WordBefore(q, w, m, S)
<1>1. CASE w \in S /\ \A j \in 1..(n - 1) : ~IsControl(q[j])
  <2>1. \A j \in 1..(m - 1) : j \in 1..(n - 1) \/ j \in n..(m - 1)
    OBVIOUS
  <2> QED
    BY <1>1, <2>1 DEF WordBefore
<1>2. CASE \E k \in 1..(n - 1) : /\ IsControl(q[k]) /\ q[k].val \in S
                                 /\ \A j \in (k + 1)..(n - 1) : ~IsControl(q[j])
  <2>1. PICK k \in 1..(n - 1) : /\ IsControl(q[k]) /\ q[k].val \in S
                                /\ \A j \in (k + 1)..(n - 1) : ~IsControl(q[j])
    BY <1>2
  <2>2. /\ k \in 1..(m - 1)
        /\ \A j \in (k + 1)..(m - 1) : j \in (k + 1)..(n - 1) \/ j \in n..(m - 1)
    OBVIOUS
  <2> QED
    BY <2>1, <2>2 DEF WordBefore
<1> QED
  BY <1>1, <1>2 DEF WordBefore

\* A control word at the end of the queue is the last one.
LEMMA WordIsLast ==
    ASSUME NEW q, NEW w, NEW n \in Nat, 0 < n, IsControl(q[n]), NEW S, q[n].val \in S
    PROVE  WordBefore(q, w, n + 1, S)
<1>1. n \in 1..(n + 1 - 1) /\ \A j \in (n + 1)..(n + 1 - 1) : FALSE
  OBVIOUS
<1> QED
  BY <1>1 DEF WordBefore

\* Sending the head of the queue moves every word one place forward.
LEMMA WordMoves ==
    ASSUME NEW q \in Seq(Item), q # <<>>, NEW w, NEW n \in Nat, 0 < n, n <= Len(q),
           NEW S, WordBefore(q, w, n + 1, S)
    PROVE  WordBefore(Tail(q), WordAfter(Head(q), w), n, S)
<1> DEFINE r == Tail(q)
           v == WordAfter(Head(q), w)
<1>1. Head(q) = q[1] /\ \A j \in 1..(n - 1) : r[j] = q[j + 1]
  OBVIOUS
<1> HIDE DEF r
<1>2. CASE w \in S /\ \A j \in 1..(n + 1 - 1) : ~IsControl(q[j])
  <2>1. 1 \in 1..(n + 1 - 1) /\ \A j \in 1..(n - 1) : j + 1 \in 1..(n + 1 - 1)
    OBVIOUS
  <2>2. v = w
    BY <1>1, <1>2, <2>1 DEF WordAfter
  <2> QED
    BY <1>1, <1>2, <2>1, <2>2 DEF WordBefore, r
<1>3. CASE \E k \in 1..(n + 1 - 1) :
              /\ IsControl(q[k]) /\ q[k].val \in S
              /\ \A j \in (k + 1)..(n + 1 - 1) : ~IsControl(q[j])
  <2>1. PICK k \in 1..(n + 1 - 1) :
              /\ IsControl(q[k]) /\ q[k].val \in S
              /\ \A j \in (k + 1)..(n + 1 - 1) : ~IsControl(q[j])
    BY <1>3
  <2>2. CASE k = 1
    <3>1. v \in S
      BY <1>1, <2>1, <2>2 DEF WordAfter
    <3>2. \A j \in 1..(n - 1) : j + 1 \in (k + 1)..(n + 1 - 1)
      BY <2>2
    <3> QED
      BY <1>1, <2>1, <3>1, <3>2 DEF WordBefore, r
  <2>3. CASE k # 1
    <3>1. /\ k - 1 \in 1..(n - 1) /\ r[k - 1] = q[k]
          /\ \A j \in ((k - 1) + 1)..(n - 1) :
                j + 1 \in (k + 1)..(n + 1 - 1) /\ r[j] = q[j + 1]
      BY <1>1, <2>3
    <3> QED
      BY <2>1, <3>1 DEF WordBefore, r
  <2> QED
    BY <2>2, <2>3
<1> QED
  BY <1>2, <1>3 DEF WordBefore

\* If the setpoints of a queue find the bit clear, so do they after a send.
LEMMA EdgesMove ==
    ASSUME NEW q \in Seq(Item), q # <<>>, NEW w, Edges(q, w)
    PROVE  /\ Edges(Tail(q), WordAfter(Head(q), w))
           /\ IsControl(Head(q)) /\ Head(q).val = NewSetpoint =>
                 w \in EnabledWithBitClear
<1> DEFINE r == Tail(q)
<1>1. /\ Head(q) = q[1] /\ 1 \in 1..Len(q)
      /\ \A i \in 1..Len(r) : r[i] = q[i + 1] /\ i + 1 \in 1..Len(q) /\ i <= Len(q)
      /\ \A i \in 1..Len(r) : i \in Nat /\ 0 < i
  OBVIOUS
<1> HIDE DEF r
<1>2. \A i \in 1..Len(r) : IsControl(r[i]) /\ r[i].val = NewSetpoint =>
         WordBefore(q, w, i + 1, EnabledWithBitClear)
  BY <1>1 DEF Edges
<1>3. \A i \in 1..Len(r) : WordBefore(q, w, i + 1, EnabledWithBitClear) =>
         WordBefore(r, WordAfter(Head(q), w), i, EnabledWithBitClear)
  BY <1>1, WordMoves DEF r
<1>4. Edges(r, WordAfter(Head(q), w))
  BY <1>2, <1>3 DEF Edges
<1>5. ASSUME IsControl(Head(q)), Head(q).val = NewSetpoint
      PROVE  w \in EnabledWithBitClear
  <2>1. WordBefore(q, w, 1, EnabledWithBitClear)
    BY <1>1, <1>5 DEF Edges
  <2> QED
    BY <2>1 DEF WordBefore
<1> QED
  BY <1>4, <1>5 DEF r

\* One item more at the end of the queue.
LEMMA EdgesAppend ==
    ASSUME NEW q \in Seq(Item), NEW x \in Item, NEW w, Edges(q, w),
           IsControl(x) /\ x.val = NewSetpoint => LastWord(q, w, EnabledWithBitClear)
    PROVE  LET r == Append(q, x)
           IN  /\ Edges(r, w)
               /\ \A S : ~IsControl(x) /\ LastWord(q, w, S) => LastWord(r, w, S)
               /\ \A S : IsControl(x) /\ x.val \in S => LastWord(r, w, S)
<1> DEFINE r == Append(q, x)
           n == Len(q) + 1
<1>1. /\ Len(r) = n /\ n \in Nat /\ 0 < n /\ r[n] = x
      /\ \A i \in 1..(n - 1) : r[i] = q[i]
      /\ \A i \in 1..n : i = n \/ i \in 1..Len(q)
      /\ \A i \in 1..Len(q) : i \in Nat /\ \A j \in 1..(i - 1) : r[j] = q[j]
  OBVIOUS
<1> HIDE DEF r, n
<1>2. \A S : LastWord(q, w, S) => WordBefore(r, w, n, S)
  BY <1>1, WordPrefix DEF LastWord, n
<1>3. Edges(r, w)
  <2> SUFFICES ASSUME NEW i \in 1..n, IsControl(r[i]), r[i].val = NewSetpoint
               PROVE  WordBefore(r, w, i, EnabledWithBitClear)
    BY <1>1 DEF Edges
  <2>1. CASE i = n
    BY <1>1, <1>2, <2>1
  <2>2. CASE i \in 1..Len(q)
    <3>1. r[i] = q[i]
      BY <1>1, <2>2 DEF n
    <3>2. WordBefore(q, w, i, EnabledWithBitClear)
      BY <2>2, <3>1 DEF Edges
    <3> QED
      BY <1>1, <2>2, <3>2, WordPrefix
  <2> QED
    BY <1>1, <2>1, <2>2
<1>4. ASSUME NEW S, ~IsControl(x), LastWord(q, w, S)
      PROVE  LastWord(r, w, S)
  <2>1. WordBefore(r, w, n, S) /\ \A j \in n..(n + 1 - 1) : ~IsControl(r[j])
    BY <1>1, <1>2, <1>4
  <2>2. n + 1 \in Nat /\ n <= n + 1
    BY <1>1
  <2>3. WordBefore(r, w, n + 1, S)
    BY <1>1, <2>1, <2>2, WordPasses
  <2> QED
    BY <1>1, <2>3 DEF LastWord
<1>5. ASSUME NEW S, IsControl(x), x.val \in S
      PROVE  LastWord(r, w, S)
  BY <1>1, <1>5, WordIsLast DEF LastWord
<1> QED
  BY <1>3, <1>4, <1>5 DEF r

\* A batch without control words at the end of the queue.
LEMMA EdgesConcat ==
    ASSUME NEW q \in Seq(Item), NEW s \in Seq(Item), NEW w, Edges(q, w),
           \A i \in 1..Len(s) : ~IsControl(s[i])
    PROVE  LET r == q \o s
           IN  /\ Edges(r, w)
               /\ \A S : LastWord(q, w, S) => LastWord(r, w, S)
<1> DEFINE r == q \o s
           n == Len(q) + 1
<1>1. /\ Len(r) = Len(q) + Len(s) /\ Len(q) \in Nat /\ Len(s) \in Nat
      /\ \A i \in 1..Len(q) + Len(s) : r[i] = IF i <= Len(q) THEN q[i] ELSE s[i - Len(q)]
  BY ConcatProperties
<1> HIDE DEF r
<1>2. /\ n \in Nat /\ 0 < n /\ n <= Len(r) + 1 /\ Len(r) + 1 \in Nat
      /\ \A i \in 1..(n - 1) : r[i] = q[i]
      /\ \A i \in 1..Len(q) : i \in Nat /\ r[i] = q[i] /\ \A j \in 1..(i - 1) : r[j] = q[j]
  BY <1>1
<1>3. \A j \in n..(Len(r) + 1 - 1) : ~IsControl(r[j])
  <2> SUFFICES ASSUME NEW j \in n..(Len(r) + 1 - 1)
               PROVE  ~IsControl(r[j])
    OBVIOUS
  <2>1. j - Len(q) \in 1..Len(s) /\ r[j] = s[j - Len(q)]
    BY <1>1
  <2> QED
    BY <2>1
<1>4. \A i \in 1..Len(r) : i \in 1..Len(q) \/ i \in n..(Len(r) + 1 - 1)
  BY <1>1
<1> HIDE DEF n
<1>5. Edges(r, w)
  <2> SUFFICES ASSUME NEW i \in 1..Len(r), IsControl(r[i]), r[i].val = NewSetpoint
               PROVE  WordBefore(r, w, i, EnabledWithBitClear)
    BY DEF Edges
  <2>1. i \in 1..Len(q)
    BY <1>3, <1>4
  <2>2. WordBefore(q, w, i, EnabledWithBitClear)
    BY <1>2, <2>1 DEF Edges
  <2> QED
    BY <1>2, <2>1, <2>2, WordPrefix
<1>6. ASSUME NEW S, LastWord(q, w, S)
      PROVE  LastWord(r, w, S)
  <2>1. WordBefore(r, w, n, S)
    BY <1>2, <1>6, WordPrefix DEF LastWord, n
  <2> QED
    BY <1>2, <1>3, <2>1, WordPasses DEF LastWord
<1> QED
  BY <1>5, <1>6 DEF r

-----------------------------------------------------------------------------
\* No setpoint was or will be raised wrongly.
Clean(h) == ~h.badStart /\ Edges(h.queue, h.cw)

\* The last control word sent or queued allows a setpoint, or is one.
Allows(h)  == LastWord(h.queue, h.cw, EnabledWithBitClear)
Raised(h) == LastWord(h.queue, h.cw, {NewSetpoint})

\* From h to g no control word was queued.
Passes(h, g) == Clean(g) /\ (Allows(h) => Allows(g)) /\ (Raised(h) => Raised(g))

\* The words of a record are in its queue and the last one sent.
LEMMA WordsFrame ==
    ASSUME NEW h, Clean(h), NEW g, g.queue = h.queue, g.cw = h.cw,
           g.badStart = h.badStart
    PROVE  Passes(h, g)
BY DEF Passes, Clean, Allows, Raised

\* A queue that is sent from its head: q is what was queued before the send.
LEMMA SendPasses ==
    ASSUME NEW h, NEW g, NEW q \in Seq(Item), q # <<>>, ~h.badStart, Edges(q, h.cw),
           Sends(h, g, Head(q)), g.queue = Tail(q)
    PROVE  /\ Clean(g)
           /\ LastWord(q, h.cw, EnabledWithBitClear) => Allows(g)
           /\ LastWord(q, h.cw, {NewSetpoint}) => Raised(g)
<1>1. g.cw = WordAfter(Head(q), h.cw)
  BY DEF Sends, WordAfter, IsControl
<1>2. /\ Edges(Tail(q), WordAfter(Head(q), h.cw))
      /\ IsControl(Head(q)) /\ Head(q).val = NewSetpoint =>
            h.cw \in EnabledWithBitClear
  BY EdgesMove
<1>3. ~g.badStart
  BY <1>2 DEF Sends, IsControl
<1>4. Len(q) \in Nat /\ 0 < Len(q) /\ Len(Tail(q)) + 1 = Len(q)
  OBVIOUS
<1>5. \A S : LastWord(q, h.cw, S) => LastWord(Tail(q), g.cw, S)
  BY <1>1, <1>4, WordMoves DEF LastWord
<1> QED
  BY <1>1, <1>2, <1>3, <1>5 DEF Clean, Allows, Raised

(***************************************************************************)
(* Queueing an item: a control word becomes the last one, and a setpoint   *)
(* may only follow a word that allows it.                                  *)
(***************************************************************************)
LEMMA QueueWords ==
    ASSUME NEW h \in Process, SdoOK(h), Clean(h), NEW op \in {"read", "write"},
           NEW ob \in Object, NEW val \in Nat,
           ob = "control" /\ val = NewSetpoint => Allows(h)
    PROVE  LET g == SdoQueue(h, op, ob, val, "none")
           IN  /\ Clean(g)
               /\ ob # "control" => Passes(h, g)
               /\ ob = "control" /\ val \in EnabledWithBitClear => Allows(g)
               /\ ob = "control" /\ val = NewSetpoint => Raised(g)
<1> DEFINE g == SdoQueue(h, op, ob, val, "none")
           item == [op |-> op, ob |-> ob, val |-> val, cb |-> "none", ses |-> h.ses]
           q == Append(h.queue, item)
<1>1. /\ item \in Item
      /\ h.sdo = "ST_SDO_WAITING" => Sends(h, g, item) /\ g.queue = <<>>
      /\ h.sdo # "ST_SDO_WAITING" => SameWords(h, g) /\ g.queue = q
  BY QueueExact DEF Callbacks
<1>2. h.queue \in Seq(Item) /\ item.ob = ob /\ item.val = val
  BY DEF Process
<1> HIDE DEF g, item
<1>3. q \in Seq(Item) /\ q # <<>>
  BY <1>1, <1>2
<1>4. /\ Edges(q, h.cw)
      /\ \A S : ~IsControl(item) /\ LastWord(h.queue, h.cw, S) => LastWord(q, h.cw, S)
      /\ \A S : IsControl(item) /\ item.val \in S => LastWord(q, h.cw, S)
  <2>1. IsControl(item) /\ item.val = NewSetpoint =>
           LastWord(h.queue, h.cw, EnabledWithBitClear)
    BY <1>2 DEF IsControl, Allows
  <2> QED
    BY <1>1, <1>2, <2>1, EdgesAppend DEF Clean
<1>5. /\ Clean(g)
      /\ LastWord(q, h.cw, EnabledWithBitClear) => Allows(g)
      /\ LastWord(q, h.cw, {NewSetpoint}) => Raised(g)
  <2>1. CASE h.sdo = "ST_SDO_WAITING"
    <3>1. Head(q) = item /\ Tail(q) = <<>>
      <4>1. q = Append(<<>>, item)
        BY <2>1 DEF SdoOK
      <4>2. Append(<<>>, item) = <<item>>
        BY <1>1
      <4>3. Head(<<item>>) = item /\ Tail(<<item>>) = <<>>
        BY <1>1
      <4> QED
        BY <4>1, <4>2, <4>3
    <3> HIDE DEF q
    <3> QED
      BY <1>1, <1>3, <1>4, <2>1, <3>1, SendPasses DEF Clean
  <2>2. CASE h.sdo # "ST_SDO_WAITING"
    BY <1>1, <1>4, <2>2 DEF SameWords, Clean, Allows, Raised
  <2> QED
    BY <2>1, <2>2
<1> HIDE DEF q
<1>6. /\ ob # "control" => Passes(h, g)
      /\ ob = "control" /\ val \in EnabledWithBitClear => Allows(g)
      /\ ob = "control" /\ val = NewSetpoint => Raised(g)
  BY <1>2, <1>4, <1>5 DEF IsControl, Passes, Allows, Raised
<1> QED
  BY <1>5, <1>6 DEF g

\* Queueing a batch without control words.
LEMMA QueueAllWords ==
    ASSUME NEW h \in Process, SdoOK(h), Clean(h), NEW items \in Seq(Item),
           \A i \in 1..Len(items) : items[i].ob # "control"
    PROVE  Passes(h, SdoQueueAll(h, items))
<1> DEFINE g == SdoQueueAll(h, items)
           q == h.queue \o items
<1>1. CASE items = <<>>
  BY <1>1 DEF SdoQueueAll, Passes
<1>2. CASE items # <<>>
  <2>1. /\ h.sdo = "ST_SDO_WAITING" =>
              Sends(h, g, Head(items)) /\ g.queue = Tail(items)
        /\ h.sdo # "ST_SDO_WAITING" => SameWords(h, g) /\ g.queue = q
    BY <1>2, QueueAllExact
  <2>2. h.queue \in Seq(Item)
    BY DEF Process
  <2>3. /\ Edges(q, h.cw)
        /\ \A S : LastWord(h.queue, h.cw, S) => LastWord(q, h.cw, S)
    BY <2>2, EdgesConcat DEF IsControl, Clean
  <2>4. h.sdo = "ST_SDO_WAITING" => q = items
    BY ConcatEmptySeq DEF SdoOK
  <2> HIDE DEF g, q
  <2>5. /\ Clean(g)
        /\ LastWord(q, h.cw, EnabledWithBitClear) => Allows(g)
        /\ LastWord(q, h.cw, {NewSetpoint}) => Raised(g)
    <3>1. CASE h.sdo = "ST_SDO_WAITING"
      BY <1>2, <2>1, <2>3, <2>4, <3>1, SendPasses DEF Clean
    <3>2. CASE h.sdo # "ST_SDO_WAITING"
      BY <2>1, <2>3, <3>2 DEF SameWords, Clean, Allows, Raised
    <3> QED
      BY <3>1, <3>2
  <2> QED
    BY <2>3, <2>5 DEF Passes, Allows, Raised, g
<1> QED
  BY <1>1, <1>2

\* An answer sends the next item, or leaves the words alone.
LEMMA FinishWords ==
    ASSUME NEW h \in Process, SdoOK(h), Clean(h),
           NEW e \in {"EV_SDO_READ_RESPONSE", "EV_SDO_WRITE_RESPONSE",
                      "EV_SDO_ABORT_RESPONSE"}
    PROVE  Passes(h, SdoFinish(h, e))
<1> DEFINE g == SdoFinish(h, e)
           next == /\ h.sdo = "ST_SDO_SENDING" /\ h.queue # <<>>
                   /\ e # "EV_SDO_ABORT_RESPONSE"
<1>1. /\ next => Sends(h, g, Head(h.queue)) /\ g.queue = Tail(h.queue)
      /\ ~next => g.queue = h.queue /\ SameWords(h, g)
  BY FinishExact
<1>2. h.queue \in Seq(Item)
  BY DEF Process
<1> HIDE DEF g
<1>3. CASE next
  BY <1>1, <1>2, <1>3, SendPasses DEF Clean, Passes, Allows, Raised, g
<1>4. CASE ~next
  BY <1>1, <1>4, WordsFrame DEF SameWords, g
<1> QED
  BY <1>3, <1>4

\* Enabling or disabling SDOs raises nothing.
LEMMA EnableWords ==
    ASSUME NEW h \in Process, Clean(h)
    PROVE  /\ Clean(SdoHandle(h, "EV_NET_SDO_ENABLED"))
           /\ Clean(SdoHandle(h, "EV_NET_SDO_DISABLED"))
<1> DEFINE u == SdoHandle(h, "EV_NET_SDO_ENABLED")
           d == SdoHandle(h, "EV_NET_SDO_DISABLED")
<1>1. u = h \/ (u.queue = <<>> /\ SameWords(h, u))
  BY EnableExact
<1>2. d.queue = h.queue /\ SameWords(h, d)
  BY DisableExact
<1> HIDE DEF u, d
<1>3. Clean(u)
  <2>1. \A w : Edges(<<>>, w)
    BY DEF Edges
  <2> QED
    BY <1>1, <2>1 DEF Clean, SameWords
<1>4. Clean(d)
  BY <1>2 DEF Clean, SameWords
<1> QED
  BY <1>3, <1>4 DEF u, d

-----------------------------------------------------------------------------
\* The control words the machines write, and when they may.
LEMMA ControlWords ==
    ASSUME NEW h \in Process, SdoOK(h), Clean(h)
    PROVE  /\ Clean(SdoQueueWrite(h, "control", Shutdown))
           /\ Clean(SdoQueueWrite(h, "control", SwitchOn))
           /\ Clean(SdoQueueWrite(h, "control", EnableOperation))
           /\ Allows(SdoQueueWrite(h, "control", EnableOperation))
           /\ Clean(SdoQueueWrite(h, "control", ClearSetpoint))
           /\ Allows(SdoQueueWrite(h, "control", ClearSetpoint))
           /\ Allows(h) => /\ Clean(SdoQueueWrite(h, "control", NewSetpoint))
                          /\ Raised(SdoQueueWrite(h, "control", NewSetpoint))
<1>1. \A val \in Nat :
         (val = NewSetpoint => Allows(h)) =>
            LET g == SdoQueue(h, "write", "control", val, "none")
            IN  /\ Clean(g)
                /\ val \in EnabledWithBitClear => Allows(g)
                /\ val = NewSetpoint => Raised(g)
  BY QueueWords, WordsType
<1>2. /\ Shutdown # NewSetpoint /\ SwitchOn # NewSetpoint
      /\ EnableOperation # NewSetpoint /\ ClearSetpoint # NewSetpoint
      /\ EnableOperation \in EnabledWithBitClear /\ ClearSetpoint \in EnabledWithBitClear
  BY DEF Shutdown, SwitchOn, EnableOperation, ClearSetpoint, NewSetpoint,
         EnabledWithBitClear
<1> QED
  BY <1>1, <1>2, WordsType DEF SdoQueueWrite

\* All other reads and writes pass the control words by.
LEMMA OtherWords ==
    ASSUME NEW h \in Process, SdoOK(h), Clean(h), NEW ob \in Object, ob # "control",
           NEW val \in Nat
    PROVE  Passes(h, SdoQueueWrite(h, ob, val)) /\ Passes(h, SdoQueueRead(h, ob))
BY QueueWords DEF SdoQueueWrite, SdoQueueRead

(***************************************************************************)
(* In these states of the motion machine, and while the operation is being *)
(* enabled, the last control word allows a setpoint; while the machine     *)
(* waits for the acknowledgement of a setpoint, it is that setpoint.       *)
(***************************************************************************)
BitClearStates == {"ST_MP_SWITCH_MODE_HOMING", "ST_MP_HH_UNKNOWN",
                   "ST_MP_SWITCH_MODE_PP", "ST_MP_PP_IDLE", "ST_MP_PP_SP_ACK"}

Handshake(h) ==
    /\ Clean(h)
    /\ h.mp \in BitClearStates => Allows(h)
    /\ h.ds = "ST_DS_ENABLE_OPERATION" => Allows(h)
    /\ h.mp = "ST_MP_PP_SP_NACK" => Raised(h)

SInv == IInv /\ Handshake(host)

\* What passes the control words by keeps the handshake.
LEMMA HandshakePasses ==
    ASSUME NEW h, Handshake(h), NEW g, Passes(h, g), g.mp = h.mp, g.ds = h.ds
    PROVE  Handshake(g)
BY DEF Handshake, Passes

\* Records with the same words and machines are alike.
LEMMA HandshakeFrame ==
    ASSUME NEW h, Handshake(h), NEW g, g.queue = h.queue, g.cw = h.cw,
           g.badStart = h.badStart, g.mp = h.mp, g.ds = h.ds
    PROVE  Handshake(g)
BY WordsFrame, HandshakePasses DEF Handshake

\* A change of the motion machine's state alone.
LEMMA SetMp ==
    ASSUME NEW h \in Process, SdoOK(h), Clean(h), NEW n \in MpStates
    PROVE  LET y == [h EXCEPT !.mp = n]
           IN  /\ y \in Process /\ SdoOK(y) /\ Passes(h, y)
               /\ y.mp = n /\ y.ds = h.ds
<1> DEFINE y == [h EXCEPT !.mp = n]
<1>1. /\ y \in Process /\ y.mp = n /\ y.ds = h.ds /\ y.sdo = h.sdo
      /\ y.queue = h.queue /\ y.active = h.active /\ y.ses = h.ses
      /\ y.cw = h.cw /\ y.badStart = h.badStart
  BY DEF Process
<1> HIDE DEF y
<1>2. SdoOK(y)
  BY <1>1 DEF SdoOK, SdoEnabled
<1> QED
  BY <1>1, <1>2, WordsFrame DEF y

(***************************************************************************)
(* The motion machine's events from status reports, and its end: a         *)
(* setpoint is raised for homing only where the word allows it, and        *)
(* lowered on the way out.                                                 *)
(***************************************************************************)
LEMMA HandshakeMp ==
    ASSUME NEW h \in Process, SdoOK(h), DsLinked(h), Handshake(h),
           NEW e, e \notin {"EV_MP_DS_OPERATIONAL", "EV_MP_SETPOINT_SET"}
    PROVE  Handshake(MpHandle(h, e))
<1> DEFINE n == MpNext(h.mp, e)
           x == MpExit(h)
           y == [x EXCEPT !.mp = n]
           g == MpHandle(h, e)
<1>1. CASE n = h.mp
  BY <1>1 DEF MpHandle
<1>2. CASE n # h.mp
  <2>1. n \in MpStates /\ h.mp \in MpStates /\ h.mp # "ST_MP_DISABLED"
    BY <1>2 DEF MpNext, MpStates, Process
  <2>2. h.ds # "ST_DS_ENABLE_OPERATION" /\ g.ds = h.ds
    BY <2>1, MpHandleOK DEF DsLinked, SameAboveMp
  <2>3. g = MpEnter(y) /\ g.mp = n
    BY <1>2, MpHandleOK DEF MpHandle
  <2>4. /\ x \in Process /\ SdoOK(x) /\ Clean(x)
        /\ h.mp \in BitClearStates \cup {"ST_MP_HH_HOMING"} => Allows(x)
    <3>1. CASE h.mp = "ST_MP_HH_HOMING"
      <4>1. x = SdoQueueWrite(h, "control", ClearSetpoint)
        BY <3>1 DEF MpExit
      <4> QED
        BY <4>1, QueueWriteOK, WordsType, ControlWords DEF Queued, Handshake
    <3>2. CASE h.mp # "ST_MP_HH_HOMING"
      BY <3>2 DEF MpExit, Handshake
    <3> QED
      BY <3>1, <3>2
  <2> HIDE DEF x
  <2>5. y \in Process /\ SdoOK(y) /\ Passes(x, y) /\ y.mp = n
    BY <2>1, <2>4, SetMp
  <2>6. Clean(y) /\ (h.mp \in BitClearStates \cup {"ST_MP_HH_HOMING"} => Allows(y))
    BY <2>4, <2>5 DEF Passes
  <2>7. /\ n \in {"ST_MP_DISABLED", "ST_MP_HH_UNKNOWN", "ST_MP_HH_HOMING",
                  "ST_MP_SWITCH_MODE_PP", "ST_MP_PP_IDLE", "ST_MP_PP_SP_ACK"}
        /\ n \in {"ST_MP_HH_UNKNOWN", "ST_MP_HH_HOMING", "ST_MP_SWITCH_MODE_PP",
                  "ST_MP_PP_IDLE"} =>
              h.mp \in BitClearStates \cup {"ST_MP_HH_HOMING"}
    BY <1>2, <2>1 DEF MpNext, MpStates, BitClearStates
  <2> HIDE DEF y, n, g
  <2>8. CASE n \in {"ST_MP_DISABLED", "ST_MP_HH_UNKNOWN", "ST_MP_PP_IDLE"}
    <3>1. g = y
      BY <2>3, <2>5, <2>8 DEF MpEnter
    <3> QED
      BY <2>2, <2>3, <2>6, <2>7, <2>8, <3>1 DEF Handshake, BitClearStates, g
  <2>9. CASE n = "ST_MP_HH_HOMING"
    <3>1. g = SdoQueueWrite(y, "control", NewSetpoint)
      BY <2>3, <2>5, <2>9 DEF MpEnter
    <3>2. Clean(g)
      BY <2>5, <2>6, <2>7, <2>9, <3>1, ControlWords
    <3> QED
      BY <2>2, <2>3, <2>9, <3>2 DEF Handshake, BitClearStates, g
  <2>10. CASE n = "ST_MP_SWITCH_MODE_PP"
    <3>1. g = SdoQueueWrite(y, "mode", ModePP)
      BY <2>3, <2>5, <2>10 DEF MpEnter
    <3>2. Passes(y, g)
      BY <2>5, <2>6, <3>1, OtherWords, WordsType
    <3> QED
      BY <2>2, <2>3, <2>6, <2>7, <2>10, <3>2 DEF Handshake, Passes, g
  <2>11. CASE n = "ST_MP_PP_SP_ACK"
    <3>1. g = SdoQueueWrite(y, "control", ClearSetpoint)
      BY <2>3, <2>5, <2>11 DEF MpEnter
    <3>2. Clean(g) /\ Allows(g)
      BY <2>5, <2>6, <3>1, ControlWords
    <3> QED
      BY <2>2, <2>3, <2>11, <3>2 DEF Handshake, g
  <2> QED
    BY <2>7, <2>8, <2>9, <2>10, <2>11
<1> QED
  BY <1>1, <1>2

(***************************************************************************)
(* The drive machine: it hands over to the motion machine only from        *)
(* ENABLE_OPERATION, whose word is still the last one then.                *)
(***************************************************************************)
LEMMA HandshakeDs ==
    ASSUME NEW h \in Process, SdoOK(h), DsLinked(h), Handshake(h), NEW e
    PROVE  Handshake(DsHandle(h, e))
<1> DEFINE n == DsNext(h.ds, e)
           x == DsExit(h)
           y == [x EXCEPT !.ds = n]
           g == DsHandle(h, e)
<1>1. CASE n = h.ds
  BY <1>1 DEF DsHandle
<1>2. CASE n # h.ds
  <2>1. n \in DsStates
    BY DEF DsNext, DsStates, Process
  <2>2. /\ x \in Process /\ SdoOK(x) /\ Clean(x) /\ x.mp = "ST_MP_DISABLED"
        /\ h.ds = "ST_DS_ENABLE_OPERATION" => Allows(x)
    <3>1. CASE h.ds = "ST_DS_OPERATION_ENABLED"
      <4>1. MpNext(h.mp, "EV_MP_DS_INOPERATIONAL") = "ST_MP_DISABLED"
        BY <3>1 DEF DsLinked, MpNext
      <4>2. x = MpHandle(h, "EV_MP_DS_INOPERATIONAL")
        BY <3>1 DEF DsExit
      <4>3. Handshake(x)
        BY <4>2, HandshakeMp
      <4> QED
        BY <3>1, <4>1, <4>2, <4>3, MpHandleOK DEF Handshake
    <3>2. CASE h.ds # "ST_DS_OPERATION_ENABLED"
      BY <3>2 DEF DsExit, DsLinked, Handshake
    <3> QED
      BY <3>1, <3>2
  <2>3. g = DsEnter(y)
    BY <1>2 DEF DsHandle
  <2>4. n = "ST_DS_OPERATION_ENABLED" => h.ds = "ST_DS_ENABLE_OPERATION"
    BY <1>2 DEF DsNext
  <2>5. /\ g.ds = n
        /\ n # "ST_DS_OPERATION_ENABLED" => g.mp = "ST_MP_DISABLED"
        /\ n = "ST_DS_OPERATION_ENABLED" => g.mp = "ST_MP_SWITCH_MODE_HOMING"
    BY <1>2, DsHandleOK DEF DsLinked
  <2> HIDE DEF x, n
  <2>6. /\ y \in Process /\ y.ds = n /\ y.mp = x.mp /\ y.sdo = x.sdo
        /\ y.queue = x.queue /\ y.active = x.active /\ y.ses = x.ses
        /\ y.cw = x.cw /\ y.badStart = x.badStart
    BY <2>1, <2>2 DEF Process
  <2> HIDE DEF y, g
  <2>7. SdoOK(y) /\ Passes(x, y)
    BY <2>2, <2>6, WordsFrame DEF SdoOK, SdoEnabled
  <2>8. Clean(y) /\ (h.ds = "ST_DS_ENABLE_OPERATION" => Allows(y))
    BY <2>2, <2>7 DEF Passes
  <2>9. CASE n = "ST_DS_OPERATION_ENABLED"
    <3> DEFINE m == [y EXCEPT !.mp = "ST_MP_SWITCH_MODE_HOMING"]
    <3>1. g = MpHandle(y, "EV_MP_DS_OPERATIONAL")
      BY <2>3, <2>6, <2>9 DEF DsEnter
    <3>2. MpHandle(y, "EV_MP_DS_OPERATIONAL") = MpEnter(m)
      BY <2>2, <2>6 DEF MpHandle, MpNext, MpExit
    <3>3. /\ m \in Process /\ SdoOK(m) /\ Passes(y, m)
          /\ m.mp = "ST_MP_SWITCH_MODE_HOMING"
      BY <2>6, <2>7, <2>8, SetMp DEF MpStates
    <3> HIDE DEF m
    <3>4. MpEnter(m) = SdoQueueWrite(m, "mode", ModeHoming)
      BY <3>3 DEF MpEnter
    <3>5. Passes(m, g)
      BY <3>1, <3>2, <3>3, <3>4, OtherWords, WordsType DEF Passes
    <3>6. Clean(g) /\ Allows(g)
      BY <2>4, <2>8, <2>9, <3>3, <3>5 DEF Passes
    <3> QED
      BY <2>5, <2>9, <3>6 DEF Handshake, g
  <2>10. CASE n = "ST_DS_ENABLE_OPERATION"
    <3>1. g = SdoQueueWrite(y, "control", EnableOperation)
      BY <2>3, <2>6, <2>10 DEF DsEnter
    <3>2. Clean(g) /\ Allows(g)
      BY <2>6, <2>7, <2>8, <3>1, ControlWords
    <3> QED
      BY <2>5, <2>10, <3>2 DEF Handshake, g
  <2>11. CASE n \notin {"ST_DS_OPERATION_ENABLED", "ST_DS_ENABLE_OPERATION"}
    <3>1. \/ g = y
          \/ g = SdoQueueWrite(y, "control", Shutdown)
          \/ g = SdoQueueWrite(y, "control", SwitchOn)
          \/ g = SdoQueueRead(y, "clear_fault")
      BY <2>3, <2>6, <2>11 DEF DsEnter
    <3>2. Clean(SdoQueueRead(y, "clear_fault"))
      BY <2>6, <2>7, <2>8, OtherWords, WordsType DEF Passes
    <3>3. Clean(g)
      BY <2>6, <2>7, <2>8, <3>1, <3>2, ControlWords
    <3> QED
      BY <2>5, <2>11, <3>3 DEF Handshake, BitClearStates, g
  <2> QED
    BY <2>9, <2>10, <2>11
<1> QED
  BY <1>1, <1>2

(***************************************************************************)
(* The network machine: SDOs are enabled, which may drop the queue, only   *)
(* while the drive and motion machines are disabled and claim no word.     *)
(***************************************************************************)
LEMMA HandshakeNet ==
    ASSUME NEW h \in Process, SdoOK(h), NetLinked(h), Handshake(h), NEW e
    PROVE  Handshake(NetHandle(h, e))
<1> DEFINE n == NetNext(h.net, e)
           x == NetExit(h)
           y == [x EXCEPT !.net = n]
           d == SdoHandle(y, "EV_NET_SDO_DISABLED")
           u == SdoHandle(y, "EV_NET_SDO_ENABLED")
           g == NetHandle(h, e)
<1>1. CASE n = h.net
  BY <1>1 DEF NetHandle
<1>2. CASE n # h.net
  <2>1. n \in NetStates
    BY DEF NetNext, NetStates, Process
  <2>2. /\ x \in Process /\ SdoOK(x) /\ Clean(x)
        /\ x.ds = "ST_DS_DISABLED" /\ x.mp = "ST_MP_DISABLED"
    <3>1. CASE h.net = "ST_NET_OPERATIONAL"
      <4>1. DsNext(h.ds, "EV_DS_NET_INOPERATIONAL") = "ST_DS_DISABLED"
        BY <3>1 DEF NetLinked, DsNext
      <4>2. x = DsHandle(h, "EV_DS_NET_INOPERATIONAL")
        BY <3>1 DEF NetExit
      <4>3. Handshake(x)
        BY <4>2, HandshakeDs DEF NetLinked
      <4> QED
        BY <4>1, <4>2, <4>3, DsHandleOK DEF NetLinked, DsLinked, Handshake
    <3>2. CASE h.net # "ST_NET_OPERATIONAL"
      BY <3>2 DEF NetExit, NetLinked, DsLinked, Handshake
    <3> QED
      BY <3>1, <3>2
  <2>3. g = NetEnter(y)
    BY <1>2 DEF NetHandle
  <2> HIDE DEF x, n
  <2>4. /\ y \in Process /\ y.net = n /\ y.mp = x.mp /\ y.ds = x.ds
        /\ y.sdo = x.sdo /\ y.queue = x.queue /\ y.active = x.active
        /\ y.ses = x.ses /\ y.cw = x.cw /\ y.badStart = x.badStart
    BY <2>1, <2>2 DEF Process
  <2> HIDE DEF y, g
  <2>5. SdoOK(y) /\ Clean(y)
    BY <2>2, <2>4 DEF SdoOK, SdoEnabled, Clean
  <2>6. /\ d \in Process /\ SdoOK(d) /\ Clean(d)
        /\ d.ds = "ST_DS_DISABLED" /\ d.mp = "ST_MP_DISABLED"
    BY <2>2, <2>4, <2>5, DisableOK, EnableWords DEF SameAboveSdo
  <2>7. /\ u \in Process /\ SdoOK(u) /\ Clean(u)
        /\ u.ds = "ST_DS_DISABLED" /\ u.mp = "ST_MP_DISABLED"
    BY <2>2, <2>4, <2>5, EnableOK, EnableWords DEF SameAboveSdo
  <2>8. \A k \in Process : Clean(k) /\ k.ds = "ST_DS_DISABLED" /\ k.mp = "ST_MP_DISABLED"
           => Handshake(k)
    BY DEF Handshake, BitClearStates
  <2>9. \A k \in Process, c \in NmtCommands : Handshake(k) => Handshake(SendNmt(k, c))
    <3> SUFFICES ASSUME NEW k \in Process, NEW c \in NmtCommands, Handshake(k)
                 PROVE  Handshake(SendNmt(k, c))
      OBVIOUS
    <3> DEFINE s == [k EXCEPT !.nmt = c]
    <3>1. /\ s.queue = k.queue /\ s.cw = k.cw /\ s.badStart = k.badStart
          /\ s.mp = k.mp /\ s.ds = k.ds
      BY DEF Process
    <3> HIDE DEF s
    <3> QED
      BY <3>1, HandshakeFrame DEF SendNmt, s
  <2>10. "NMT_ENTERPREOPERATIONAL" \in NmtCommands /\ "NMT_STARTREMOTENODE" \in NmtCommands
    BY DEF NmtCommands
  <2>11. CASE n = "ST_NET_DISABLED"
    <3>1. g = d
      BY <2>3, <2>4, <2>11 DEF NetEnter
    <3> QED
      BY <2>6, <2>8, <3>1 DEF g
  <2>12. CASE n \in {"ST_NET_UNKNOWN", "ST_NET_STOPPED"}
    <3>1. \/ g = SendNmt(d, "NMT_ENTERPREOPERATIONAL")
          \/ g = SendNmt(d, "NMT_STARTREMOTENODE")
      BY <2>3, <2>4, <2>12 DEF NetEnter
    <3> HIDE DEF d
    <3> QED
      BY <2>6, <2>8, <2>9, <2>10, <3>1 DEF g
  <2>13. CASE n \in {"ST_NET_STARTREMOTENODE", "ST_NET_ENTERPREOPERATIONAL"}
    <3>1. \/ g = SendNmt(y, "NMT_ENTERPREOPERATIONAL")
          \/ g = SendNmt(y, "NMT_STARTREMOTENODE")
      BY <2>3, <2>4, <2>13 DEF NetEnter
    <3>2. Handshake(y)
      BY <2>2, <2>4, <2>5, <2>8
    <3> QED
      BY <2>4, <2>9, <2>10, <3>1, <3>2 DEF g
  <2>14. CASE n = "ST_NET_OPERATIONAL"
    <3>1. g = DsHandle(u, "EV_DS_NET_OPERATIONAL")
      BY <2>3, <2>4, <2>14 DEF NetEnter
    <3> HIDE DEF u
    <3>2. DsLinked(u) /\ Handshake(u)
      BY <2>7, <2>8 DEF DsLinked
    <3> QED
      BY <2>7, <3>1, <3>2, HandshakeDs DEF g
  <2>15. CASE n = "ST_NET_PREOPERATIONAL"
    <3> DEFINE f == [u EXCEPT !.acked = 0]
               items == ConfigItems(u.ses)
    <3>1. g = NetQueueSetup(u)
      BY <2>3, <2>4, <2>15 DEF NetEnter
    <3> HIDE DEF u
    <3>2. NetQueueSetup(u) = SdoQueueAll(f, items)
      BY DEF NetQueueSetup
    <3>3. /\ f \in Process /\ f.ds = u.ds /\ f.mp = u.mp /\ f.sdo = u.sdo
          /\ f.queue = u.queue /\ f.active = u.active /\ f.ses = u.ses
          /\ f.cw = u.cw /\ f.badStart = u.badStart /\ u.ses \in {0, 1}
      BY <2>7 DEF Process
    <3> HIDE DEF f
    <3>4. SdoOK(f) /\ Clean(f)
      BY <2>7, <3>3 DEF SdoOK, SdoEnabled, Clean
    <3>5. /\ items \in Seq(Item)
          /\ \A i \in 1..Len(items) : items[i].ob # "control"
      <4>1. \A i \in 1..Len(Config) : Config[i] # "control"
        BY ControlAssumption
      <4> QED
        BY <3>3, <4>1, ConfigItemsType
    <3> HIDE DEF items
    <3>6. Clean(g)
      BY <3>1, <3>2, <3>3, <3>4, <3>5, QueueAllWords DEF Passes
    <3>7. g \in Process /\ g.ds = "ST_DS_DISABLED" /\ g.mp = "ST_MP_DISABLED"
      BY <2>7, <3>1, QueueSetupOK
    <3> QED
      BY <2>8, <3>6, <3>7 DEF g
  <2> QED
    BY <2>1, <2>11, <2>12, <2>13, <2>14, <2>15 DEF NetStates
<1> QED
  BY <1>1, <1>2

\* An answer keeps the handshake, callbacks included.
LEMMA HandshakeDispatch ==
    ASSUME NEW h, Good(h), Handshake(h), NEW r \in Frame, NEW answer
    PROVE  Handshake(DispatchSdo(h, r, answer))
<1> DEFINE a == [h EXCEPT !.status = "aborted"]
           x == [h EXCEPT !.status = "exited"]
           k == [h EXCEPT !.acked = @ + 1]
           c == ItemConfirmed(h)
           Done == {"EV_SDO_READ_RESPONSE", "EV_SDO_WRITE_RESPONSE",
                    "EV_SDO_ABORT_RESPONSE"}
<1>1. h \in Process
  BY DEF Good
<1>2. Handshake(a) /\ Handshake(x)
  <2>1. /\ a.queue = h.queue /\ a.cw = h.cw /\ a.badStart = h.badStart
        /\ a.mp = h.mp /\ a.ds = h.ds
        /\ x.queue = h.queue /\ x.cw = h.cw /\ x.badStart = h.badStart
        /\ x.mp = h.mp /\ x.ds = h.ds
    BY <1>1 DEF Process
  <2> HIDE DEF a, x
  <2> QED
    BY <2>1, HandshakeFrame
<1>3. \A f, e : Good(f) /\ Handshake(f) /\ e \in Done => Handshake(SdoFinish(f, e))
  <2> SUFFICES ASSUME NEW f, Good(f), Handshake(f), NEW e \in Done
               PROVE  Handshake(SdoFinish(f, e))
    OBVIOUS
  <2>1. f \in Process /\ SdoOK(f) /\ Clean(f)
    BY DEF Good, Handshake
  <2>2. SameAboveSdo(f, SdoFinish(f, e)) /\ Passes(f, SdoFinish(f, e))
    BY <2>1, FinishOK, FinishWords
  <2> QED
    BY <2>2, HandshakePasses DEF SameAboveSdo
<1>4. Handshake(c)
  <2>1. c = k \/ c = h \/ c = NetHandle(k, "EV_NET_UPLOAD_COMPLETE")
    BY DEF ItemConfirmed
  <2>2. /\ k \in Process /\ k.intf = h.intf /\ k.net = h.net /\ k.sdo = h.sdo
        /\ k.queue = h.queue /\ k.active = h.active /\ k.ses = h.ses
        /\ k.cw = h.cw /\ k.badStart = h.badStart /\ k.mp = h.mp /\ k.ds = h.ds
    BY <1>1, SMTT(30) DEF Process
  <2> HIDE DEF k, c
  <2>3. Handshake(k) /\ SdoOK(k) /\ NetLinked(k)
    BY <2>2, HandshakeFrame, GoodFrame DEF Good, Linked
  <2> QED
    BY <2>1, <2>2, <2>3, HandshakeNet DEF c
<1>5. Handshake(SdoConfirmCallback(h, r))
  <2>1. \/ SdoConfirmCallback(h, r) = a
        \/ SdoConfirmCallback(h, r) = SdoFinish(c, "EV_SDO_READ_RESPONSE")
        \/ SdoConfirmCallback(h, r) = SdoFinish(c, "EV_SDO_WRITE_RESPONSE")
    BY DEF SdoConfirmCallback
  <2>2. Good(c)
    BY GoodConfirmed
  <2> HIDE DEF a, c
  <2> QED
    BY <1>2, <1>3, <1>4, <2>1, <2>2
<1>6. Handshake(SdoAbortCallback(h, r))
  <2>1. \/ SdoAbortCallback(h, r) = a \/ SdoAbortCallback(h, r) = x
        \/ SdoAbortCallback(h, r) = SdoFinish(h, "EV_SDO_ABORT_RESPONSE")
    BY DEF SdoAbortCallback
  <2> HIDE DEF a, x
  <2> QED
    BY <1>2, <1>3, <2>1
<1>7. \/ DispatchSdo(h, r, answer) = h
      \/ DispatchSdo(h, r, answer) = SdoConfirmCallback(h, r)
      \/ DispatchSdo(h, r, answer) = SdoAbortCallback(h, r)
  BY DEF DispatchSdo
<1> QED
  BY <1>5, <1>6, <1>7

\* Writing a profile passes the control words by.
LEMMA PendingWords ==
    ASSUME NEW h, Good(h), Clean(h), NEW n \in 0..Len(ProfileFields),
           NEW load \in BOOLEAN
    PROVE  Passes(h, WritePendingChanges(h, n, load))
<1> DEFINE l == LoadTask(h, load)
           items == ProfileItems(n, l.ses)
           q == SdoQueueAll(l, items)
           g == SdoQueueWrite(q, "copy_task", 0)
<1>1. h \in Process /\ SdoOK(h) /\ Passes(h, h)
  BY DEF Good, Passes
<1>2. l \in Process /\ SdoOK(l) /\ Passes(h, l) /\ l.ses \in {0, 1}
  <2>1. l = h \/ l = SdoQueueWrite(h, "copy_task", 0)
    BY DEF LoadTask
  <2>2. Queued(h, SdoQueueWrite(h, "copy_task", 0))
    BY <1>1, QueueWriteOK, WordsType
  <2>3. l \in Process /\ SdoOK(l) /\ Passes(h, l)
    BY <1>1, <2>1, <2>2, OtherWords, WordsType DEF Queued
  <2> QED
    BY <2>3 DEF Process
<1>3. /\ items \in Seq(Item)
      /\ \A i \in 1..Len(items) : items[i].ses = l.ses
      /\ \A i \in 1..Len(items) : items[i].ob # "control"
  <2>1. \A i \in 1..n : ProfileFields[i] # "control"
    BY ControlAssumption, FieldsAssumption
  <2> HIDE DEF l
  <2>2. /\ items \in Seq(Item) /\ Len(items) = n
        /\ \A i \in 1..Len(items) : /\ items[i].ses = l.ses
                                    /\ items[i].ob = ProfileFields[i]
    BY <1>2, ProfileItemsType
  <2> HIDE DEF items
  <2>3. \A i \in 1..Len(items) : i \in 1..n
    BY <2>2
  <2> QED
    BY <2>1, <2>2, <2>3, Zenon
<1>4. WritePendingChanges(h, n, load) = h \/ WritePendingChanges(h, n, load) = g
  BY DEF WritePendingChanges
<1> HIDE DEF items, l
<1>5. q \in Process /\ SdoOK(q)
  BY <1>2, <1>3, QueueAllOK
<1>6. Passes(l, q)
  BY <1>2, <1>3, QueueAllWords DEF Passes
<1> HIDE DEF q
<1>7. Passes(q, g)
  BY <1>5, <1>6, OtherWords, WordsType DEF Passes
<1> QED
  BY <1>1, <1>2, <1>4, <1>6, <1>7 DEF Passes

\* A command raises the setpoint only where the machine is idle.
LEMMA HandshakeExecute ==
    ASSUME NEW h, Good(h), Handshake(h), NEW n \in 0..Len(ProfileFields),
           NEW load \in BOOLEAN
    PROVE  Handshake(ProfileExecute(h, n, load))
<1> DEFINE w == WritePendingChanges(h, n, load)
           t == SdoQueueWrite(w, "motion_task", 0)
           c == SdoQueueWrite(t, "control", NewSetpoint)
           g == [c EXCEPT !.mp = "ST_MP_PP_SP_NACK"]
<1>1. CASE h.mp # "ST_MP_PP_IDLE"
  BY <1>1 DEF ProfileExecute
<1>2. CASE h.mp = "ST_MP_PP_IDLE"
  <2>1. ProfileExecute(h, n, load) = MpHandle(c, "EV_MP_SETPOINT_SET")
    BY <1>2 DEF ProfileExecute
  <2>2. Allows(h) /\ Clean(h) /\ h.ds = "ST_DS_OPERATION_ENABLED"
    BY <1>2 DEF Handshake, BitClearStates, Good, Linked, NetLinked, DsLinked
  <2>3. /\ w \in Process /\ SdoOK(w) /\ w.ds = h.ds /\ w.mp = h.mp
        /\ Clean(w) /\ Allows(w)
    <3>1. Good(w) /\ SameAboveSdo(h, w)
      BY GoodWritePending
    <3>2. Passes(h, w)
      BY <2>2, PendingWords
    <3> HIDE DEF w
    <3> QED
      BY <2>2, <3>1, <3>2 DEF Good, SameAboveSdo, Passes
  <2> HIDE DEF w
  <2>4. /\ t \in Process /\ SdoOK(t) /\ t.ds = h.ds /\ t.mp = h.mp
        /\ Clean(t) /\ Allows(t)
    <3>1. Queued(w, t)
      BY <2>3, QueueWriteOK, WordsType
    <3>2. Passes(w, t)
      BY <2>3, OtherWords, WordsType
    <3> HIDE DEF t
    <3> QED
      BY <2>3, <3>1, <3>2 DEF Queued, SameAboveSdo, Passes
  <2> HIDE DEF t
  <2>5. /\ c \in Process /\ SdoOK(c) /\ c.ds = h.ds /\ c.mp = h.mp
        /\ Clean(c) /\ Raised(c)
    BY <2>4, QueueWriteOK, ControlWords, WordsType DEF Queued, SameAboveSdo
  <2> HIDE DEF c
  <2>6. Passes(c, g) /\ g.mp = "ST_MP_PP_SP_NACK" /\ g.ds = h.ds
    BY <2>5, SetMp DEF MpStates
  <2>7. MpHandle(c, "EV_MP_SETPOINT_SET") = MpEnter(g)
    BY <1>2, <2>5 DEF MpHandle, MpNext, MpExit
  <2> HIDE DEF g
  <2>8. MpEnter(g) = g
    BY <2>6 DEF MpEnter
  <2>9. Handshake(g)
    BY <2>2, <2>5, <2>6 DEF Handshake, BitClearStates, Passes
  <2> QED
    BY <2>1, <2>7, <2>8, <2>9
<1> QED
  BY <1>1, <1>2

\* A status report keeps the handshake, through all the events it raises.
LEMMA HandshakeTpdo1 ==
    ASSUME NEW h, Good(h), Handshake(h), NEW s \in StatusWords, NEW on \in BOOLEAN,
           NEW m \in DriveModes, NEW b \in BOOLEAN
    PROVE  Handshake(Tpdo1Received(h, s, on, m, b))
<1> DEFINE x == StatusReceived(h, s)
           y == VoltageReceived(x, on)
           pp == MpHandle(y, "EV_MP_MODE_PP")
           hh == MpHandle(y, "EV_MP_MODE_HOMING")
<1>0. \A k : Good(k) => k \in Process /\ SdoOK(k) /\ DsLinked(k)
  BY DEF Good, Linked, NetLinked
<1>1. Good(x) /\ Handshake(x)
  <2>1. x = h \/ x = DsHandle(h, s)
    BY DEF StatusReceived
  <2>2. s \notin {"EV_DS_NET_OPERATIONAL", "EV_DS_NET_INOPERATIONAL"}
    BY DEF StatusWords
  <2> QED
    BY <1>0, <2>1, <2>2, GoodDs, HandshakeDs
<1> HIDE DEF x
<1>2. Good(y) /\ Handshake(y)
  <2>1. \/ y = DsHandle(x, "EV_DS_VOLTAGE_ENABLED")
        \/ y = DsHandle(x, "EV_DS_VOLTAGE_DISABLED")
    BY DEF VoltageReceived
  <2> QED
    BY <1>0, <1>1, <2>1, GoodDs, HandshakeDs
<1> HIDE DEF y
<1>3. Good(pp) /\ Handshake(pp) /\ Good(hh) /\ Handshake(hh)
  BY <1>0, <1>2, GoodMp, HandshakeMp
<1>4. \/ Tpdo1Received(h, s, on, m, b) = y
      \/ Tpdo1Received(h, s, on, m, b) = MpHandle(pp, "EV_MP_SETPOINT_ACK")
      \/ Tpdo1Received(h, s, on, m, b) = MpHandle(pp, "EV_MP_SETPOINT_NACK")
      \/ Tpdo1Received(h, s, on, m, b) = MpHandle(hh, "EV_MP_HOMED")
      \/ Tpdo1Received(h, s, on, m, b) = MpHandle(hh, "EV_MP_NOTHOMED")
  BY DEF Tpdo1Received, ModeReceived, x, y
<1> HIDE DEF pp, hh
<1> QED
  BY <1>0, <1>2, <1>3, <1>4, HandshakeMp

\* Closing the device keeps the handshake.
LEMMA HandshakeClose ==
    ASSUME NEW h, Good(h), Handshake(h), NEW ok \in BOOLEAN
    PROVE  Handshake(IntfClose(h, ok))
<1> DEFINE c == IntfClose(h, ok)
<1>1. h \in Process /\ SdoOK(h) /\ NetLinked(h)
  BY DEF Good, Linked
<1>2. CASE SameMachines(h, c)
  BY <1>2, HandshakeFrame DEF SameMachines
<1>3. CASE \E j \in Process : /\ SameMachines(h, j)
                              /\ c = NetHandle(j, "EV_NET_INTF_CLOSED")
  <2>1. PICK j \in Process : /\ SameMachines(h, j)
                             /\ c = NetHandle(j, "EV_NET_INTF_CLOSED")
    BY <1>3
  <2> HIDE DEF c
  <2>2. Handshake(j)
    BY <2>1, HandshakeFrame DEF SameMachines
  <2> QED
    BY <1>1, <2>1, <2>2, MachinesAlike, HandshakeNet DEF c
<1> QED
  BY <1>1, <1>2, <1>3, CloseCases

\* At first no control word was sent and none is queued.
LEMMA HandshakeInit == Init => Handshake(host)
<1> SUFFICES ASSUME NEW ok \in BOOLEAN PROVE Handshake(IntfOpen(Created, ok))
  BY DEF Init
<1> DEFINE c == IntfOpen(Created, ok)
<1>1. /\ Created.net = "ST_NET_DISABLED" /\ Created.sdo = "ST_SDO_DISABLED"
      /\ Created.ds = "ST_DS_DISABLED" /\ Created.mp = "ST_MP_DISABLED"
      /\ Created.queue = <<>> /\ ~Created.badStart
  BY DEF Created
<1>2. SdoOK(Created) /\ NetLinked(Created)
  BY <1>1 DEF NetLinked, DsLinked, SdoOK, SdoEnabled
<1>3. Handshake(Created)
  <2>1. \A w : Edges(<<>>, w)
    BY DEF Edges
  <2> QED
    BY <1>1, <2>1 DEF Handshake, Clean, BitClearStates
<1>4. CASE SameMachines(Created, c)
  BY <1>3, <1>4, HandshakeFrame DEF SameMachines
<1>5. CASE \E j \in Process : /\ SameMachines(Created, j)
                              /\ c = NetHandle(j, "EV_NET_INTF_OPENED")
  <2>1. PICK j \in Process : /\ SameMachines(Created, j)
                             /\ c = NetHandle(j, "EV_NET_INTF_OPENED")
    BY <1>5
  <2> HIDE DEF c
  <2>2. Handshake(j)
    BY <1>3, <2>1, HandshakeFrame DEF SameMachines
  <2> QED
    BY <1>2, <2>1, <2>2, MachinesAlike, HandshakeNet DEF c
<1> QED
  BY <1>4, <1>5, OpenCases

\* A callback that ends the process leaves the words as they were.
LEMMA HandshakeSettle ==
    ASSUME SInv, NEW h, Handshake(h)
    PROVE  Handshake(Settle(h))
<1> DEFINE g == [host EXCEPT !.status = h.status]
<1>1. /\ g.queue = host.queue /\ g.cw = host.cw /\ g.badStart = host.badStart
      /\ g.mp = host.mp /\ g.ds = host.ds
  BY DEF SInv, IInv, Good, Process
<1>2. Settle(h) = h \/ Settle(h) = g
  BY DEF Settle
<1> HIDE DEF g
<1> QED
  BY <1>1, <1>2, HandshakeFrame DEF SInv

\* Every step keeps the handshake: one step of the proof per action.
LEMMA HandshakeStep ==
    ASSUME SInv, [Next]_vars
    PROVE  Handshake(host')
<1>0. Good(host) /\ Handshake(host) /\ host \in Process /\ SdoOK(host) /\ NetLinked(host)
  BY DEF SInv, IInv, Good, Linked
<1>1. CASE OnNmt
  <2>1. PICK s \in NmtReports : host' = Settle(NmtReceived(host, s))
    BY <1>1 DEF OnNmt
  <2> DEFINE k == IF s = "other" THEN host ELSE NetHandle(host, s)
             g == [k EXCEPT !.quiet = FALSE]
  <2>2. k \in Process /\ Handshake(k)
    BY <1>0, NetHandleOK, HandshakeNet
  <2>3. NmtReceived(host, s) = g
    BY DEF NmtReceived
  <2> HIDE DEF k
  <2>4. /\ g.queue = k.queue /\ g.cw = k.cw /\ g.badStart = k.badStart
        /\ g.mp = k.mp /\ g.ds = k.ds
    BY <2>2 DEF Process
  <2> HIDE DEF g
  <2> QED
    BY <2>1, <2>2, <2>3, <2>4, HandshakeFrame, HandshakeSettle
<1>2. CASE OnTpdo1
  <2>1. PICK s \in StatusWords, on \in BOOLEAN, m \in DriveModes, b \in BOOLEAN :
           host' = Settle(Tpdo1Received(host, s, on, m, b))
    BY <1>2 DEF OnTpdo1
  <2> QED
    BY <1>0, <2>1, HandshakeTpdo1, HandshakeSettle
<1>3. CASE OnTpdo2 \/ NmtSilence \/ LoseFrame \/ UNCHANGED vars
  <2>1. /\ host'.queue = host.queue /\ host'.cw = host.cw
        /\ host'.badStart = host.badStart /\ host'.mp = host.mp /\ host'.ds = host.ds
    BY <1>0, <1>3 DEF OnTpdo2, NmtSilence, LoseFrame, vars, Process
  <2> QED
    BY <1>0, <2>1, HandshakeFrame
<1>4. CASE OnSdoAnswer
  <2> DEFINE g == [host EXCEPT !.tx = Tail(@)]
  <2>1. host.tx \in Seq(Frame) /\ host.tx # <<>>
    BY <1>0, <1>4 DEF Process, OnSdoAnswer
  <2>2. Head(host.tx) \in Frame /\ Tail(host.tx) \in Seq(Frame)
    BY <2>1
  <2>3. /\ g \in Process /\ g.intf = host.intf /\ g.net = host.net
        /\ g.ds = host.ds /\ g.mp = host.mp /\ g.sdo = host.sdo
        /\ g.queue = host.queue /\ g.active = host.active /\ g.ses = host.ses
        /\ g.cw = host.cw /\ g.badStart = host.badStart
    BY <1>0, <2>2 DEF Process
  <2>4. \E answer : host' = Settle(DispatchSdo(g, Head(host.tx), answer))
    BY <1>4 DEF OnSdoAnswer
  <2> HIDE DEF g
  <2>5. Good(g) /\ Handshake(g)
    BY <1>0, <2>3, GoodFrame, HandshakeFrame
  <2> QED
    BY <2>2, <2>4, <2>5, HandshakeDispatch, HandshakeSettle
<1>5. CASE OnReadError
  <2>1. PICK ok \in BOOLEAN : host' = Settle(IntfClose(host, ok))
    BY <1>5 DEF OnReadError
  <2> QED
    BY <1>0, <2>1, HandshakeClose, HandshakeSettle
<1>6. CASE NmtWatchdog
  <2>1. host' = Settle(NetHandle(host, "EV_NET_WATCHDOG_FAILED"))
    BY <1>6 DEF NmtWatchdog
  <2> QED
    BY <1>0, <2>1, HandshakeNet, HandshakeSettle
<1>7. CASE Execute
  <2>1. PICK n \in 0..Len(ProfileFields), load \in BOOLEAN :
           host' = Settle(ProfileExecute(host, n, load))
    BY <1>7 DEF Execute
  <2> QED
    BY <1>0, <2>1, HandshakeExecute, HandshakeSettle
<1>8. CASE WritePending
  <2>1. PICK n \in 1..Len(ProfileFields), load \in BOOLEAN :
           host' = Settle(WritePendingChanges(host, n, load))
    BY <1>8 DEF WritePending
  <2>2. n \in 0..Len(ProfileFields)
    BY FieldsAssumption
  <2>3. Passes(host, WritePendingChanges(host, n, load))
    BY <1>0, <2>2, PendingWords DEF Handshake
  <2>4. Handshake(WritePendingChanges(host, n, load))
    BY <1>0, <2>2, <2>3, GoodWritePending, HandshakePasses DEF SameAboveSdo
  <2> QED
    BY <2>1, <2>4, HandshakeSettle
<1>9. CASE LightSetState
  <2>1. host' = Settle(SdoQueueWrite(host, "light", 0))
    BY <1>9 DEF LightSetState
  <2>2. Passes(host, SdoQueueWrite(host, "light", 0))
    BY <1>0, OtherWords, WordsType DEF Handshake
  <2>3. SameAboveSdo(host, SdoQueueWrite(host, "light", 0))
    BY <1>0, QueueWriteOK, WordsType DEF Queued
  <2>4. Handshake(SdoQueueWrite(host, "light", 0))
    BY <1>0, <2>2, <2>3, HandshakePasses DEF SameAboveSdo
  <2> QED
    BY <2>1, <2>4, HandshakeSettle
<1> QED
  BY <1>1, <1>2, <1>3, <1>4, <1>5, <1>6, <1>7, <1>8, <1>9 DEF Next

(***************************************************************************)
(* The invariant of the handshake holds in every reachable state.          *)
(***************************************************************************)
THEOREM HandshakeInvariance == Spec => []SInv
<1>1. Init => SInv
  BY GoodInit, HandshakeInit DEF SInv
<1>2. SInv /\ [Next]_vars => SInv'
  BY HandshakeStep, Inductive DEF SInv
<1> QED
  BY <1>1, <1>2, PTL DEF Spec

(***************************************************************************)
(* new_setpoint is only ever raised from a control word that has it clear  *)
(* and the operation enabled, however the status reports, the client       *)
(* commands and the loss of the link are interleaved.                      *)
(***************************************************************************)
THEOREM SetpointEdgeHolds == Spec => []SetpointEdge
<1>1. SInv => SetpointEdge
  BY DEF SInv, Handshake, Clean, SetpointEdge
<1> QED
  BY <1>1, HandshakeInvariance, PTL

(***************************************************************************)
(* The handshake never waits for the acknowledgement of a setpoint that    *)
(* was not queued: it is the last control word sent, or still in the       *)
(* queue, even when the SDO machine is in error.                           *)
(***************************************************************************)
THEOREM SetpointOnItsWayHolds == Spec => []SetpointOnItsWay
<1>1. SInv => SetpointOnItsWay
  <2> SUFFICES ASSUME Raised(host)
               PROVE  \/ host.cw = NewSetpoint
                      \/ \E i \in 1..Len(host.queue) :
                            /\ host.queue[i].ob = "control"
                            /\ host.queue[i].val = NewSetpoint
    BY DEF SInv, Handshake, SetpointOnItsWay
  <2>1. CASE host.cw \in {NewSetpoint}
    BY <2>1
  <2>2. CASE \E k \in 1..(Len(host.queue) + 1 - 1) :
                IsControl(host.queue[k]) /\ host.queue[k].val \in {NewSetpoint}
    <3>1. PICK k \in 1..(Len(host.queue) + 1 - 1) :
                IsControl(host.queue[k]) /\ host.queue[k].val \in {NewSetpoint}
      BY <2>2
    <3>2. k \in 1..Len(host.queue)
      BY <3>1
    <3> QED
      BY <3>1, <3>2 DEF IsControl
  <2> QED
    BY <2>1, <2>2 DEF Raised, LastWord, WordBefore
<1> QED
  BY <1>1, HandshakeInvariance, PTL
=============================================================================
