------------------------------ MODULE SledTask ------------------------------
(***************************************************************************)
(* Proof that the motion tasks in the drive are the profiles the clients   *)
(* asked for (TaskIsProfile of SledProfile), for any number of profiles,   *)
(* chained in any way, and any parameters.                                 *)
(*                                                                         *)
(* The drive lags behind the server by what is in flight.  The argument is *)
(* about the drive as it will be when all of that has been executed: it    *)
(* changes only when something is queued, and then by a whole profile.     *)
(***************************************************************************)
EXTENDS SledProfileProofs

DriveType == [reg : [Fields -> Int], task : [Handles -> [Fields -> Int]]]

\* DriveAfter, of any state of the drive.
Done(d, item) ==
    CASE item.op = "field" -> [d EXCEPT !.reg[item.f] = item.val]
      [] item.op = "load"  -> [d EXCEPT !.reg = d.task[item.p]]
      [] item.op = "store" -> [d EXCEPT !.task[item.p] = d.reg]
      [] OTHER             -> d

\* t has the states of the drive as it executes s, beginning in d.
IsRun(t, d, s) == t[0] = d /\ \A i \in 1..Len(s) : t[i] = Done(t[i - 1], s[i])

\* Executing s takes the drive from d to e.
Runs(d, s, e) == \E t : IsRun(t, d, s) /\ e = t[Len(s)]

-----------------------------------------------------------------------------
\* Items have a type in the drive.
LEMMA DoneType ==
    ASSUME NEW d \in DriveType, NEW item \in Items
    PROVE  Done(d, item) \in DriveType
<1>1. /\ d.reg \in [Fields -> Int] /\ d.task \in [Handles -> [Fields -> Int]]
      /\ item.p \in Handles /\ item.val \in Int
  BY DEF DriveType, Items
<1>2. CASE item.op = "field"
  <2>1. Done(d, item) = [d EXCEPT !.reg = [d.reg EXCEPT ![item.f] = item.val]]
    BY <1>2 DEF Done
  <2>2. [d.reg EXCEPT ![item.f] = item.val] \in [Fields -> Int]
    BY <1>1
  <2> QED
    BY <1>1, <2>1, <2>2 DEF DriveType
<1>3. CASE item.op = "load"
  <2>1. Done(d, item) = [d EXCEPT !.reg = d.task[item.p]]
    BY <1>3 DEF Done
  <2> QED
    BY <1>1, <2>1 DEF DriveType
<1>4. CASE item.op = "store"
  <2>1. Done(d, item) = [d EXCEPT !.task = [d.task EXCEPT ![item.p] = d.reg]]
    BY <1>4 DEF Done
  <2>2. [d.task EXCEPT ![item.p] = d.reg] \in [Handles -> [Fields -> Int]]
    BY <1>1
  <2> QED
    BY <1>1, <2>1, <2>2 DEF DriveType
<1>5. CASE item.op \notin {"field", "load", "store"}
  BY <1>5 DEF Done
<1> QED
  BY <1>2, <1>3, <1>4, <1>5

\* Nothing to execute.
LEMMA RunsNothing == ASSUME NEW d PROVE Runs(d, <<>>, d)
<1> DEFINE t == [i \in {0} |-> d]
<1>1. IsRun(t, d, <<>>) /\ t[Len(<<>>)] = d
  BY DEF IsRun
<1> QED
  BY <1>1 DEF Runs

\* One item to execute.
LEMMA RunsOne == ASSUME NEW d, NEW item PROVE Runs(d, <<item>>, Done(d, item))
<1> DEFINE t == [i \in 0..1 |-> IF i = 0 THEN d ELSE Done(d, item)]
           s == <<item>>
<1>1. Len(s) = 1 /\ s[1] = item
  OBVIOUS
<1>2. t[0] = d /\ t[1] = Done(d, item)
  OBVIOUS
<1> HIDE DEF t, s
<1>3. IsRun(t, d, s) /\ t[Len(s)] = Done(d, item)
  BY <1>1, <1>2 DEF IsRun
<1> QED
  BY <1>3 DEF Runs, s

\* One sequence after the other.
LEMMA RunsBoth ==
    ASSUME NEW S, NEW s \in Seq(S), NEW u \in Seq(S), NEW d, NEW m, NEW e,
           Runs(d, s, m), Runs(m, u, e)
    PROVE  Runs(d, s \o u, e)
<1>1. PICK t1 : IsRun(t1, d, s) /\ m = t1[Len(s)]
  BY DEF Runs
<1>2. PICK t2 : IsRun(t2, m, u) /\ e = t2[Len(u)]
  BY DEF Runs
<1> DEFINE n == Len(s)
           k == Len(u)
           w == s \o u
           t == [i \in 0..(n + k) |-> IF i <= n THEN t1[i] ELSE t2[i - n]]
<1>3. /\ n \in Nat /\ k \in Nat /\ Len(w) = n + k
      /\ \A i \in 1..n : w[i] = s[i]
      /\ \A i \in (n + 1)..(n + k) : w[i] = u[i - n]
  OBVIOUS
<1>4. /\ \A i \in 0..n : t[i] = t1[i]
      /\ \A i \in (n + 1)..(n + k) : t[i] = t2[i - n]
  BY <1>3
<1>5. t[n] = t2[0]
  BY <1>1, <1>2, <1>3, <1>4 DEF IsRun
<1>6. t[0] = d
  BY <1>1, <1>3, <1>4 DEF IsRun
<1> HIDE DEF t, w
<1>7. ASSUME NEW i \in 1..(n + k) PROVE t[i] = Done(t[i - 1], w[i])
  <2>1. CASE i <= n
    <3>1. i \in 1..n /\ i \in 0..n /\ i - 1 \in 0..n
      BY <1>3, <2>1
    <3>2. t1[i] = Done(t1[i - 1], s[i])
      BY <1>1, <3>1 DEF IsRun
    <3> QED
      BY <1>3, <1>4, <3>1, <3>2
  <2>2. CASE i = n + 1
    <3>1. i \in (n + 1)..(n + k) /\ i - n = 1 /\ i - 1 = n /\ 1 \in 1..k
      BY <1>3, <2>2
    <3>2. t2[1] = Done(t2[0], u[1])
      BY <1>2, <3>1 DEF IsRun
    <3> QED
      BY <1>3, <1>4, <1>5, <3>1, <3>2
  <2>3. CASE i > n + 1
    <3>1. /\ i \in (n + 1)..(n + k) /\ i - 1 \in (n + 1)..(n + k)
          /\ i - n \in 1..k /\ (i - 1) - n = (i - n) - 1
      BY <1>3, <2>3
    <3>2. t2[i - n] = Done(t2[(i - n) - 1], u[i - n])
      BY <1>2, <3>1 DEF IsRun
    <3>3. t[i] = t2[i - n] /\ t[i - 1] = t2[(i - n) - 1] /\ w[i] = u[i - n]
      BY <1>3, <1>4, <3>1
    <3> QED
      BY <3>2, <3>3
  <2>4. i <= n \/ i = n + 1 \/ i > n + 1
    BY <1>3
  <2> QED
    BY <2>1, <2>2, <2>3, <2>4
<1>8. t[n + k] = e
  <2>1. CASE k = 0
    <3>1. n + k = n /\ e = t2[0]
      BY <1>2, <1>3, <2>1
    <3> QED
      BY <1>5, <3>1
  <2>2. CASE k > 0
    <3>1. n + k \in (n + 1)..(n + k) /\ (n + k) - n = k
      BY <1>3, <2>2
    <3> QED
      BY <1>2, <1>4, <3>1
  <2> QED
    BY <1>3, <2>1, <2>2
<1>9. IsRun(t, d, w)
  BY <1>3, <1>6, <1>7 DEF IsRun
<1> QED
  BY <1>3, <1>8, <1>9 DEF Runs, w

\* The first item is executed first.
LEMMA RunsHead ==
    ASSUME NEW x \in Items, NEW q \in Seq(Items), NEW d, NEW e, Runs(d, <<x>> \o q, e)
    PROVE  Runs(Done(d, x), q, e)
<1> DEFINE s == <<x>> \o q
           n == Len(q)
<1>1. PICK t : IsRun(t, d, s) /\ e = t[Len(s)]
  BY DEF Runs
<1>2. /\ n \in Nat /\ Len(s) = n + 1 /\ s[1] = x
      /\ \A i \in 1..n : i + 1 \in 1..(n + 1) /\ s[i + 1] = q[i]
  OBVIOUS
<1> HIDE DEF s
<1> DEFINE u == [i \in 0..n |-> t[i + 1]]
<1>3. \A i \in 0..n : u[i] = t[i + 1]
  OBVIOUS
<1> HIDE DEF u
<1>4. u[0] = Done(d, x)
  <2>1. 1 \in 1..Len(s) /\ 0 \in 0..n
    BY <1>2
  <2>2. t[1] = Done(t[1 - 1], s[1]) /\ t[0] = d
    BY <1>1, <2>1 DEF IsRun
  <2> QED
    BY <1>2, <1>3, <2>1, <2>2
<1>5. ASSUME NEW i \in 1..n PROVE u[i] = Done(u[i - 1], q[i])
  <2>1. i \in 0..n /\ i - 1 \in 0..n /\ (i - 1) + 1 = i /\ (i + 1) - 1 = i
    BY <1>2
  <2>2. t[i + 1] = Done(t[(i + 1) - 1], s[i + 1])
    BY <1>1, <1>2 DEF IsRun
  <2> QED
    BY <1>2, <1>3, <2>1, <2>2
<1>6. IsRun(u, Done(d, x), q) /\ u[n] = e
  BY <1>1, <1>2, <1>3, <1>4, <1>5 DEF IsRun
<1> QED
  BY <1>6 DEF Runs

\* A task that nothing is stored to stays as it is.
LEMMA TaskStays ==
    ASSUME NEW d \in DriveType, NEW s \in Seq(Items), NEW e, Runs(d, s, e),
           NEW p \in Handles, \A i \in 1..Len(s) : ~(s[i].op = "store" /\ s[i].p = p)
    PROVE  e.task[p] = d.task[p]
<1>1. PICK t : IsRun(t, d, s) /\ e = t[Len(s)]
  BY DEF Runs
<1> DEFINE OK(c) == c \in DriveType /\ c.task[p] = d.task[p]
           N == {n \in Nat : n <= Len(s) => OK(t[n])}
<1>2. 0 \in N
  BY <1>1 DEF IsRun
<1>3. ASSUME NEW c, OK(c), NEW x \in Items, ~(x.op = "store" /\ x.p = p)
      PROVE  OK(Done(c, x))
  <2>1. Done(c, x) \in DriveType
    BY <1>3, DoneType
  <2>2. Done(c, x).task[p] = c.task[p]
    <3>1. c.task \in [Handles -> [Fields -> Int]] /\ x.p \in Handles
      BY <1>3 DEF DriveType, Items
    <3>2. CASE x.op = "store"
      <4>1. Done(c, x) = [c EXCEPT !.task = [c.task EXCEPT ![x.p] = c.reg]]
        BY <3>2 DEF Done
      <4>2. Done(c, x).task = [c.task EXCEPT ![x.p] = c.reg]
        BY <1>3, <4>1 DEF DriveType
      <4> QED
        BY <1>3, <3>1, <3>2, <4>2
    <3>3. CASE x.op # "store"
      BY <1>3, <3>3 DEF Done, DriveType
    <3> QED
      BY <3>2, <3>3
  <2> QED
    BY <1>3, <2>1, <2>2
<1>4. ASSUME NEW n \in Nat, n \in N PROVE n + 1 \in N
  <2>1. CASE n + 1 <= Len(s)
    <3>1. n + 1 \in 1..Len(s) /\ s[n + 1] \in Items /\ (n + 1) - 1 = n
      BY <2>1
    <3>2. t[n + 1] = Done(t[n], s[n + 1])
      BY <1>1, <3>1 DEF IsRun
    <3>3. OK(t[n])
      BY <1>4, <2>1
    <3> HIDE DEF OK
    <3> QED
      BY <1>3, <3>1, <3>2, <3>3
  <2> QED
    BY <2>1
<1>5. Len(s) \in Nat
  OBVIOUS
<1> HIDE DEF N
<1>6. Len(s) \in N
  BY <1>2, <1>4, <1>5, NatInductionOnSet
<1> QED
  BY <1>1, <1>5, <1>6 DEF N

-----------------------------------------------------------------------------
\* The register when the changed fields among fs have been written to it.
Upto(d, pr, fs) ==
    [d EXCEPT !.reg = [f \in Fields |->
        IF f \in fs /\ pr.state[f] = "FIELD_CHANGED" THEN FieldValue(pr, f) ELSE d.reg[f]]]

\* It has a type.
LEMMA UptoType ==
    ASSUME NEW d \in DriveType, NEW pr \in ProfileType, NEW fs
    PROVE  /\ Upto(d, pr, fs) \in DriveType /\ Upto(d, pr, fs).task = d.task
           /\ \A f \in Fields : Upto(d, pr, fs).reg[f] =
                 IF f \in fs /\ pr.state[f] = "FIELD_CHANGED" THEN FieldValue(pr, f)
                                                              ELSE d.reg[f]
<1> DEFINE r == [f \in Fields |->
        IF f \in fs /\ pr.state[f] = "FIELD_CHANGED" THEN FieldValue(pr, f) ELSE d.reg[f]]
<1>1. \A f \in Fields : FieldValue(pr, f) \in Int
  BY FieldValueType
<1>2. r \in [Fields -> Int]
  BY <1>1 DEF DriveType
<1>3. Upto(d, pr, fs) = [d EXCEPT !.reg = r]
  BY DEF Upto
<1>4. \A f \in Fields : r[f] =
          IF f \in fs /\ pr.state[f] = "FIELD_CHANGED" THEN FieldValue(pr, f) ELSE d.reg[f]
  OBVIOUS
<1> HIDE DEF r
<1> QED
  BY <1>2, <1>3, <1>4 DEF DriveType

\* WRITE_FIELD_IF_CHANGED, in the drive.
LEMMA RunsField ==
    ASSUME NEW d \in DriveType, NEW pr \in ProfileType, NEW p \in Handles, NEW f \in Fields,
           NEW fs
    PROVE  Runs(Upto(d, pr, fs), WriteIfChanged(pr, p, f), Upto(d, pr, fs \cup {f}))
<1> DEFINE a == Upto(d, pr, fs)
           b == Upto(d, pr, fs \cup {f})
<1>1. /\ a \in DriveType /\ a.task = d.task
      /\ \A g \in Fields : a.reg[g] = IF g \in fs /\ pr.state[g] = "FIELD_CHANGED"
                                      THEN FieldValue(pr, g) ELSE d.reg[g]
  BY UptoType
<1>2. /\ b \in DriveType /\ b.task = d.task
      /\ \A g \in Fields : b.reg[g] = IF g \in fs \cup {f} /\ pr.state[g] = "FIELD_CHANGED"
                                      THEN FieldValue(pr, g) ELSE d.reg[g]
  BY UptoType
<1> HIDE DEF a, b
<1>3. a.reg \in [Fields -> Int] /\ b.reg \in [Fields -> Int]
  BY <1>1, <1>2 DEF DriveType
<1>4. CASE pr.state[f] = "FIELD_CHANGED"
  <2> DEFINE item == WriteField(p, f, FieldValue(pr, f))
  <2>1. WriteIfChanged(pr, p, f) = <<item>>
    BY <1>4 DEF WriteIfChanged
  <2>2. item.op = "field" /\ item.f = f /\ item.val = FieldValue(pr, f)
    BY DEF WriteField
  <2> HIDE DEF item
  <2>3. Done(a, item) = [a EXCEPT !.reg = [a.reg EXCEPT ![f] = FieldValue(pr, f)]]
    BY <2>2 DEF Done
  <2>4. [a.reg EXCEPT ![f] = FieldValue(pr, f)] = b.reg
    <3> DEFINE r == [a.reg EXCEPT ![f] = FieldValue(pr, f)]
    <3>1. \A g \in Fields : r[g] = b.reg[g]
      BY <1>1, <1>2, <1>3, <1>4
    <3>2. r \in [Fields -> Int]
      BY <1>3, FieldValueType
    <3> HIDE DEF r
    <3>3. r = b.reg
      BY <1>3, <3>1, <3>2
    <3> QED
      BY <3>3 DEF r
  <2>5. Done(a, item) = b
    BY <1>1, <1>2, <2>3, <2>4 DEF DriveType
  <2> QED
    BY <2>1, <2>5, RunsOne DEF a, b
<1>5. CASE pr.state[f] # "FIELD_CHANGED"
  <2>1. WriteIfChanged(pr, p, f) = <<>>
    BY <1>5 DEF WriteIfChanged
  <2>2. \A g \in Fields : a.reg[g] = b.reg[g]
    BY <1>1, <1>2, <1>5
  <2>3. a.reg = b.reg
    BY <1>3, <2>2
  <2>4. a = b
    BY <1>1, <1>2, <2>3 DEF DriveType
  <2> QED
    BY <2>1, <2>4, RunsNothing DEF a, b
<1> QED
  BY <1>4, <1>5

\* The writes of a profile, in the drive.
LEMMA RunsFields ==
    ASSUME NEW d \in DriveType, NEW pr \in ProfileType, NEW p \in Handles
    PROVE  Runs(d, FieldWrites(pr, p), Upto(d, pr, Fields))
<1> DEFINE W(f) == WriteIfChanged(pr, p, f)
           U(fs) == Upto(d, pr, fs)
           To(s, fs) == s \in Seq(Queued) /\ Runs(d, s, U(fs))
<1>1. U({}) = d
  <2>1. /\ U({}) \in DriveType /\ U({}).task = d.task
        /\ \A f \in Fields : U({}).reg[f] = d.reg[f]
    BY UptoType
  <2> HIDE DEF U
  <2>2. U({}).reg = d.reg
    BY <2>1 DEF DriveType
  <2> QED
    BY <2>1, <2>2 DEF DriveType
<1>2. ASSUME NEW f \in Fields PROVE W(f) \in Seq(Queued)
  BY OneFieldWrites
<1>3. ASSUME NEW s, NEW fs, To(s, fs), NEW f \in Fields PROVE To(s \o W(f), fs \cup {f})
  <2>1. Runs(U(fs), W(f), U(fs \cup {f}))
    BY RunsField
  <2>2. s \o W(f) \in Seq(Queued)
    BY <1>2, <1>3
  <2> QED
    BY <1>2, <1>3, <2>1, <2>2, RunsBoth
<1>4. To(W("O_P"), {"O_P"})
  <2>1. Runs(U({}), W("O_P"), U({} \cup {"O_P"})) /\ {} \cup {"O_P"} = {"O_P"}
    BY RunsField DEF Fields
  <2> QED
    BY <1>1, <1>2, <2>1 DEF Fields
<1> HIDE DEF To, W
<1>5. To(W("O_P") \o W("O_V") \o W("O_C") \o W("O_ACC"),
         {"O_P"} \cup {"O_V"} \cup {"O_C"} \cup {"O_ACC"})
  BY <1>3, <1>4 DEF Fields
<1>6. To(W("O_P") \o W("O_V") \o W("O_C") \o W("O_ACC")
            \o W("O_DEC") \o W("O_TAB") \o W("O_FN") \o W("O_FT"),
         {"O_P"} \cup {"O_V"} \cup {"O_C"} \cup {"O_ACC"}
            \cup {"O_DEC"} \cup {"O_TAB"} \cup {"O_FN"} \cup {"O_FT"})
  BY <1>3, <1>5 DEF Fields
<1>7. {"O_P"} \cup {"O_V"} \cup {"O_C"} \cup {"O_ACC"}
            \cup {"O_DEC"} \cup {"O_TAB"} \cup {"O_FN"} \cup {"O_FT"} = Fields
  BY DEF Fields
<1> QED
  BY <1>6, <1>7 DEF To, W, FieldWrites

-----------------------------------------------------------------------------
(***************************************************************************)
(* The drive has of profile p what is not marked as changed; and if p was  *)
(* the last profile written, register 0 still holds it.                    *)
(***************************************************************************)
Fits(d, pr, own, p) ==
    /\ \A f \in Fields : pr.state[f] # "FIELD_CHANGED" => d.task[p][f] = FieldValue(pr, f)
    /\ own = p /\ (\E f \in Fields : pr.state[f] # "FIELD_CHANGED") => d.reg = d.task[p]

AllFit(d, ps, own, except) ==
    \A p \in Handles : ps[p].in_use /\ p \notin except => Fits(d, ps[p], own, p)

\* What w has written takes a drive from d to one that fits.
Lands(w, d, bad) ==
    \E e \in DriveType : /\ Runs(d, w.items, e)
                         /\ AllFit(e, w.profiles, w.owner, bad \cup w.mixed)

\* The drive that was in e has written profile p: the register is loaded or not,
\* the changed fields are written, and it is stored.
Stored(w, p, e, e3) ==
    LET pr == w.profiles[p]
    IN  /\ e3.reg = e3.task[p]
        /\ \A q \in Handles \ {p} : e3.task[q] = e.task[q]
        /\ \A f \in Fields :
              e3.task[p][f] = IF pr.state[f] = "FIELD_CHANGED" THEN FieldValue(pr, f)
                              ELSE IF ~pr.never_sent /\ w.current # p THEN e.task[p][f]
                              ELSE e.reg[f]

\* One profile, in the drive.
LEMMA WriteOneRuns ==
    ASSUME NEW ps, NEW w, Written(w, ps), NEW p \in Handles, NEW d,
           NEW e \in DriveType, Runs(d, w.items, e)
    PROVE  \E e3 \in DriveType : Runs(d, WriteOne(w, p).items, e3) /\ Stored(w, p, e, e3)
<1> DEFINE pr == w.profiles[p]
           load == ~pr.never_sent /\ w.current # p
           first == IF load THEN <<Command("load", p)>> ELSE <<>>
           fields == FieldWrites(pr, p)
           last == <<Command("store", p)>>
           g == WriteOne(w, p)
<1>1. g.items = w.items \o first \o fields \o last
  BY DEF WriteOne
<1>2. w.items \in Seq(Queued) /\ pr \in ProfileType
  BY DEF Written
<1>3. first \in Seq(Queued) /\ fields \in Seq(Queued) /\ last \in Seq(Queued)
  <2>1. <<>> \in Seq(Queued)
    OBVIOUS
  <2>2. <<Command("load", p)>> \in Seq(Queued) /\ last \in Seq(Queued)
    BY CommandWrites
  <2>3. fields \in Seq(Queued)
    BY <1>2, FieldsWritten DEF Fields
  <2> QED
    BY <2>1, <2>2, <2>3
<1> DEFINE e1 == IF load THEN [e EXCEPT !.reg = e.task[p]] ELSE e
           e2 == Upto(e1, pr, Fields)
           e3 == [e2 EXCEPT !.task = [e2.task EXCEPT ![p] = e2.reg]]
<1>4. /\ e.reg \in [Fields -> Int] /\ e.task \in [Handles -> [Fields -> Int]]
      /\ e.task[p] \in [Fields -> Int]
  BY DEF DriveType
<1>5. /\ e1 \in DriveType /\ e1.task = e.task
      /\ e1.reg = IF load THEN e.task[p] ELSE e.reg
  BY <1>4 DEF DriveType
<1>6. Runs(e, first, e1)
  <2> DEFINE x == Command("load", p)
  <2>1. x.op = "load" /\ x.p = p
    BY DEF Command
  <2>2. Done(e, x) = [e EXCEPT !.reg = e.task[p]]
    BY <2>1 DEF Done
  <2>3. Runs(e, <<x>>, Done(e, x)) /\ Runs(e, <<>>, e)
    BY RunsOne, RunsNothing
  <2> QED
    BY <2>2, <2>3
<1> HIDE DEF e1
<1>7. Runs(e1, fields, e2)
  BY <1>2, <1>5, RunsFields
<1>8. /\ e2 \in DriveType /\ e2.task = e.task
      /\ \A f \in Fields : e2.reg[f] = IF pr.state[f] = "FIELD_CHANGED"
                                       THEN FieldValue(pr, f) ELSE e1.reg[f]
  BY <1>2, <1>5, UptoType
<1> HIDE DEF e2
<1>9. e2.reg \in [Fields -> Int]
  BY <1>8 DEF DriveType
<1>10. /\ e3 \in DriveType /\ e3.reg = e2.reg /\ e3.task[p] = e2.reg
       /\ \A q \in Handles \ {p} : e3.task[q] = e.task[q]
  <2> DEFINE tk == [e2.task EXCEPT ![p] = e2.reg]
  <2>1. /\ tk \in [Handles -> [Fields -> Int]] /\ tk[p] = e2.reg
        /\ \A q \in Handles \ {p} : tk[q] = e.task[q]
    BY <1>4, <1>8, <1>9
  <2> HIDE DEF tk
  <2>2. e3 = [e2 EXCEPT !.task = tk]
    BY DEF tk
  <2> HIDE DEF e3
  <2> QED
    BY <1>8, <2>1, <2>2 DEF DriveType
<1>11. Runs(e2, last, e3)
  <2> DEFINE x == Command("store", p)
  <2>1. x.op = "store" /\ x.p = p
    BY DEF Command
  <2>2. Done(e2, x) = e3
    BY <2>1 DEF Done
  <2> HIDE DEF x, e3
  <2>3. Runs(e2, <<x>>, Done(e2, x))
    BY RunsOne
  <2> QED
    BY <2>2, <2>3 DEF x
<1> HIDE DEF e3, first, fields, last, load, g
<1>12. Runs(d, g.items, e3)
  <2> DEFINE a == w.items \o first
             b == a \o fields
  <2>1. a \in Seq(Queued) /\ Runs(d, a, e1)
    BY <1>2, <1>3, <1>6, RunsBoth
  <2> HIDE DEF a
  <2>2. b \in Seq(Queued) /\ Runs(d, b, e2)
    BY <1>3, <1>7, <2>1, RunsBoth
  <2> HIDE DEF b
  <2>3. Runs(d, b \o last, e3)
    BY <1>3, <1>11, <2>2, RunsBoth
  <2> QED
    BY <1>1, <2>3 DEF a, b
<1> QED
  BY <1>5, <1>8, <1>10, <1>12 DEF g, load, Stored

(***************************************************************************)
(* One profile: the register is loaded with what the drive has of it, or   *)
(* holds it, or every field is written; otherwise the profile is mixed.    *)
(***************************************************************************)
LEMMA WriteOneLands ==
    ASSUME NEW ps, NEW w, Written(w, ps), NEW p \in Handles, NEW d, NEW bad,
           Lands(w, d, bad)
    PROVE  Lands(WriteOne(w, p), d, bad)
<1> DEFINE pr == w.profiles[p]
           load == ~pr.never_sent /\ w.current # p
           new == [pr EXCEPT !.never_sent = FALSE,
                             !.state = [f \in Fields |->
                                 IF @[f] = "FIELD_CHANGED" THEN "FIELD_WRITING"
                                                           ELSE @[f]]]
           g == WriteOne(w, p)
           kept == \E f \in Fields : pr.state[f] # "FIELD_CHANGED"
<1>1. /\ g.profiles = [w.profiles EXCEPT ![p] = new]
      /\ g.owner = p
      /\ g.mixed = w.mixed \cup (IF ~load /\ w.owner # p /\ kept THEN {p} ELSE {})
  BY DEF WriteOne
<1>2. w.profiles \in [Handles -> ProfileType] /\ pr \in ProfileType
  BY DEF Written
<1>3. /\ new \in ProfileType /\ new.in_use = pr.in_use
      /\ \A f \in Fields : /\ new.state[f] = IF pr.state[f] = "FIELD_CHANGED"
                                            THEN "FIELD_WRITING" ELSE pr.state[f]
                           /\ FieldValue(new, f) = FieldValue(pr, f)
  BY <1>2, WriteOneProfile
<1>4. PICK e \in DriveType : /\ Runs(d, w.items, e)
                             /\ AllFit(e, w.profiles, w.owner, bad \cup w.mixed)
  BY DEF Lands
<1>5. PICK e3 \in DriveType : Runs(d, WriteOne(w, p).items, e3) /\ Stored(w, p, e, e3)
  BY <1>4, WriteOneRuns
<1> HIDE DEF new, kept, load, g
<1>6. /\ e3.reg = e3.task[p] /\ \A q \in Handles \ {p} : e3.task[q] = e.task[q]
      /\ \A f \in Fields : e3.task[p][f] = IF pr.state[f] = "FIELD_CHANGED"
                                           THEN FieldValue(pr, f)
                                           ELSE IF load THEN e.task[p][f] ELSE e.reg[f]
  BY <1>5 DEF Stored, load
<1>7. ASSUME NEW q \in Handles \ {p}, g.profiles[q].in_use, q \notin bad \cup g.mixed
       PROVE  Fits(e3, g.profiles[q], g.owner, q)
  <2>1. g.profiles[q] = w.profiles[q] /\ q \notin bad \cup w.mixed /\ g.owner # q
    BY <1>1, <1>2, <1>7
  <2>2. Fits(e, w.profiles[q], w.owner, q)
    BY <1>4, <1>7, <2>1 DEF AllFit
  <2> QED
    BY <1>6, <2>1, <2>2 DEF Fits
<1>8. ASSUME g.profiles[p].in_use, p \notin bad \cup g.mixed
       PROVE  Fits(e3, g.profiles[p], g.owner, p)
  <2>1. g.profiles[p] = new /\ p \notin bad \cup w.mixed /\ (load \/ w.owner = p \/ ~kept)
    BY <1>1, <1>2, <1>8
  <2>2. Fits(e, pr, w.owner, p)
    BY <1>3, <1>4, <1>8, <2>1 DEF AllFit
  <2>3. ASSUME NEW f \in Fields PROVE e3.task[p][f] = FieldValue(pr, f)
    <3>1. CASE pr.state[f] = "FIELD_CHANGED"
      BY <1>6, <3>1
    <3>2. CASE pr.state[f] # "FIELD_CHANGED"
      <4>1. kept /\ e.task[p][f] = FieldValue(pr, f)
        BY <2>2, <3>2 DEF Fits, kept
      <4>2. load \/ e.reg = e.task[p]
        BY <2>1, <2>2, <4>1 DEF Fits, kept
      <4> QED
        BY <1>6, <3>2, <4>1, <4>2
    <3> QED
      BY <3>1, <3>2
  <2> QED
    BY <1>3, <1>6, <2>1, <2>3 DEF Fits
<1>9. AllFit(e3, g.profiles, g.owner, bad \cup g.mixed)
  BY <1>7, <1>8 DEF AllFit
<1> QED
  BY <1>5, <1>9 DEF Lands, g

\* The whole chain.
LEMMA ChainLands ==
    ASSUME NEW ps, NEW start, Written(start, ps), NEW p \in Handles, NEW d, NEW bad,
           Lands(start, d, bad)
    PROVE  Lands(WriteChain(start, p), d, bad)
<1>1. PICK h : IsChain(h, start, p, NProfiles) /\ WriteChain(start, p) = h[NProfiles].w
  BY ChainIs
<1> DEFINE OK(c) == Written(c.w, ps) /\ Lands(c.w, d, bad) /\ c.at \in Handles \cup {-1}
           N == {n \in Nat : n <= NProfiles => OK(h[n])}
<1>2. 0 \in N
  BY <1>1, NProfilesAssumption DEF IsChain
<1>3. ASSUME NEW c, OK(c) PROVE OK(CallAgain(c))
  <2>1. CASE c.at < 0 \/ ~HasChangesPending(c.w.profiles[c.at])
    BY <1>3, <2>1 DEF CallAgain
  <2>2. CASE ~(c.at < 0 \/ ~HasChangesPending(c.w.profiles[c.at]))
    <3>1. c.at \in Handles
      BY <1>3, <2>2
    <3>2. Written(WriteOne(c.w, c.at), ps) /\ Lands(WriteOne(c.w, c.at), d, bad)
      BY <1>3, <3>1, WriteOneWritten, WriteOneLands
    <3>3. c.w.profiles[c.at].next_profile \in Handles \cup {-1}
      BY <1>3, <3>1 DEF Written, ProfileType
    <3>4. CallAgain(c) = [w |-> WriteOne(c.w, c.at), at |-> c.w.profiles[c.at].next_profile]
      BY <2>2 DEF CallAgain
    <3> QED
      BY <3>2, <3>3, <3>4
  <2> QED
    BY <2>1, <2>2
<1>4. ASSUME NEW n \in Nat, n \in N PROVE n + 1 \in N
  <2>1. CASE n + 1 <= NProfiles
    <3>1. h[n + 1] = CallAgain(h[n])
      BY <1>1, <2>1, n + 1 \in 0..NProfiles, n + 1 # 0, n + 1 - 1 = n, NProfilesAssumption
         DEF IsChain
    <3>2. OK(h[n])
      BY <1>4, <2>1, NProfilesAssumption
    <3> HIDE DEF OK
    <3> QED
      BY <1>3, <3>1, <3>2
  <2> QED
    BY <2>1
<1> HIDE DEF N
<1>5. NProfiles \in N
  BY <1>2, <1>4, NatInductionOnSet, NProfilesAssumption
<1> QED
  BY <1>1, <1>5, NProfilesAssumption DEF N

-----------------------------------------------------------------------------
(***************************************************************************)
(* The inductive invariant.  In touch with the drive, when everything in   *)
(* flight will have been executed the drive fits the profiles that are not *)
(* tainted, and no write of a field that has changed since is in flight.   *)
(* Out of touch nothing is promised, and nothing is left in flight by the  *)
(* time the sled is operational again.                                     *)
(***************************************************************************)
Quiet == net # "oper" /\ sdo = "enabled" => net = "preop" /\ active = NoItem

WillFit == InTouch => \E e \in DriveType : /\ Runs(drive, InFlight, e)
                                           /\ AllFit(e, profiles, owner, tainted)

NoneChanged ==
    InTouch => \A p \in Handles, f \in Fields :
                  profiles[p].in_use /\ p \notin tainted /\ ~NoWrites(InFlight, p, f) =>
                      profiles[p].state[f] # "FIELD_CHANGED"

TInv == PInv /\ drive \in DriveType /\ Quiet /\ WillFit /\ NoneChanged

\* The drive that has forgotten its tasks.
LEMMA EmptyDrive ==
    [reg |-> AllFields(-1), task |-> [p \in Handles |-> AllFields(-1)]] \in DriveType
BY DEF DriveType, AllFields

\* Out of touch to begin with.
LEMMA TInvInit == Init => TInv
<1> SUFFICES ASSUME Init PROVE TInv
  OBVIOUS
<1>1. PInv /\ drive \in DriveType
  BY PInvInit, EmptyDrive DEF Init
<1>2. ~InTouch /\ Quiet
  BY DEF Init, InTouch, Quiet
<1> QED
  BY <1>1, <1>2 DEF TInv, WillFit, NoneChanged

\* Nothing of a profile in flight: no writes of its fields either.
LEMMA NotPending ==
    ASSUME NEW p, ~Pending(p), NEW f
    PROVE  NoWrites(InFlight, p, f)
BY DEF Pending, NoWrites, IsWrite

\* A step that changes one profile, and nothing of the line.
LEMMA TInvOne ==
    ASSUME TInv, PInv', NEW p \in Handles, NEW new, profiles' = [profiles EXCEPT ![p] = new],
           UNCHANGED <<net, sdo, active, queue, status, drive, owner>>,
           tainted \ {p} \subseteq tainted',
           new.in_use /\ p \notin tainted' =>
               /\ ~Pending(p)
               /\ \A d : AllFit(d, profiles, owner, tainted) => Fits(d, new, owner, p)
    PROVE  TInv'
<1>1. InFlight' = InFlight /\ InTouch' = InTouch /\ Quiet' /\ drive' \in DriveType
  BY DEF InFlight, InTouch, Running, Quiet, TInv
<1>2. \A q \in Handles : profiles'[q] = IF q = p THEN new ELSE profiles[q]
  BY DEF TInv, PInv, TypeInv
<1>3. ASSUME InTouch
      PROVE  \E e \in DriveType : /\ Runs(drive', InFlight', e)
                                  /\ AllFit(e, profiles', owner', tainted')
  <2>1. PICK e \in DriveType : /\ Runs(drive, InFlight, e)
                               /\ AllFit(e, profiles, owner, tainted)
    BY <1>3 DEF TInv, WillFit
  <2>2. ASSUME NEW q \in Handles, profiles'[q].in_use, q \notin tainted'
        PROVE  Fits(e, profiles'[q], owner', q)
    <3>1. CASE q = p
      BY <1>2, <2>1, <2>2, <3>1
    <3>2. CASE q # p
      BY <1>2, <2>1, <2>2, <3>2 DEF AllFit
    <3> QED
      BY <3>1, <3>2
  <2>3. AllFit(e, profiles', owner', tainted')
    BY <2>2 DEF AllFit
  <2> QED
    BY <1>1, <2>1, <2>3
<1>4. ASSUME InTouch, NEW q \in Handles, NEW f \in Fields, profiles'[q].in_use,
             q \notin tainted', ~NoWrites(InFlight, q, f)
      PROVE  profiles'[q].state[f] # "FIELD_CHANGED"
  <2>1. q # p
    BY <1>2, <1>4, NotPending
  <2> QED
    BY <1>2, <1>4, <2>1 DEF TInv, NoneChanged
<1>5. WillFit'
  BY <1>1, <1>3 DEF WillFit
<1>6. NoneChanged'
  BY <1>1, <1>4 DEF NoneChanged
<1> QED
  BY <1>1, <1>5, <1>6 DEF TInv

\* The setters: what they mark as changed need not fit any more.
LEMMA TInvEdit ==
    ASSUME TInv, PInv', NEW p \in Handles, NEW pr, MarksChanges(profiles[p], pr), Edit(p, pr)
    PROVE  TInv'
<1>1. /\ profiles' = [profiles EXCEPT ![p] = pr] /\ profiles[p].in_use
      /\ UNCHANGED <<net, sdo, active, queue, status, drive, owner>>
      /\ tainted \subseteq tainted' /\ (p \notin tainted' => ~Pending(p) /\ p \notin tainted)
  BY DEF Edit, line
<1>2. ASSUME NEW d, AllFit(d, profiles, owner, tainted), p \notin tainted
      PROVE  Fits(d, pr, owner, p)
  <2>1. Fits(d, profiles[p], owner, p)
    BY <1>1, <1>2 DEF AllFit
  <2> QED
    BY <2>1 DEF Fits, MarksChanges
<1> QED
  BY <1>1, <1>2, TInvOne

\* A new profile has nothing in the drive yet.
LEMMA TInvCreate == TInv /\ PInv' /\ Create => TInv'
<1> SUFFICES ASSUME TInv, PInv', Create PROVE TInv'
  OBVIOUS
<1> DEFINE new == Profile(TRUE, TRUE)
<1>1. PICK p \in Handles :
         /\ profiles' = [profiles EXCEPT ![p] = new]
         /\ tainted' = IF Pending(p) THEN tainted \cup {p} ELSE tainted \ {p}
  BY DEF Create
<1>2. UNCHANGED <<net, sdo, active, queue, status, drive, owner>>
  BY DEF Create, line
<1>3. \A f \in Fields : new.state[f] = "FIELD_CHANGED"
  BY DEF Profile, AllFields
<1> HIDE DEF new
<1>4. \A d : Fits(d, new, owner, p)
  BY <1>3 DEF Fits
<1> QED
  BY <1>1, <1>2, <1>4, TInvOne

\* Nothing is promised of a profile that is not in use.
LEMMA TInvDestroy == TInv /\ PInv' /\ Destroy => TInv'
<1> SUFFICES ASSUME TInv, PInv', Destroy PROVE TInv'
  OBVIOUS
<1>1. PICK p \in Handles : profiles' = [profiles EXCEPT ![p].in_use = FALSE]
  BY DEF Destroy
<1>2. UNCHANGED <<net, sdo, active, queue, status, drive, owner, tainted>>
  BY DEF Destroy, line
<1> DEFINE new == [profiles[p] EXCEPT !.in_use = FALSE]
<1>3. profiles' = [profiles EXCEPT ![p] = new]
  BY <1>1
<1>4. profiles[p] \in ProfileType
  BY DEF TInv, PInv, TypeInv
<1>5. ~new.in_use
  BY <1>4 DEF ProfileType
<1> HIDE DEF new
<1> QED
  BY <1>2, <1>3, <1>5, TInvOne

\* A step after which the server is out of touch with the drive.
LEMMA TInvOut ==
    ASSUME PInv', drive' \in DriveType, ~InTouch', Quiet'
    PROVE  TInv'
BY DEF TInv, WillFit, NoneChanged

\* Aborts and the loss of the link.
LEMMA TInvLost == TInv /\ PInv' /\ (Abort \/ OtherAbort \/ LinkLost) => TInv'
<1> SUFFICES ASSUME TInv, PInv', Abort \/ OtherAbort \/ LinkLost PROVE TInv'
  OBVIOUS
<1>1. drive' \in DriveType
  BY EmptyDrive DEF TInv, Abort, OtherAbort, LinkLost
<1>2. ~InTouch'
  BY DEF InTouch, Running, Abort, OtherAbort, LinkLost
<1>3. Quiet'
  BY DEF TInv, Quiet, Abort, OtherAbort, LinkLost
<1> QED
  BY <1>1, <1>2, <1>3, TInvOut

\* SDOs are enabled with an empty queue.
LEMMA TInvEnabled == TInv /\ PInv' /\ SdosEnabled => TInv'
<1> SUFFICES ASSUME TInv, PInv', SdosEnabled PROVE TInv'
  OBVIOUS
<1>1. drive' \in DriveType /\ ~InTouch'
  BY DEF TInv, InTouch, SdosEnabled
<1>2. Quiet'
  BY DEF TInv, Quiet, SdosEnabled, Enable
<1> QED
  BY <1>1, <1>2, TInvOut

\* Nothing is in flight when the sled becomes operational.
LEMMA TInvOperational == TInv /\ PInv' /\ EnterOperational => TInv'
<1> SUFFICES ASSUME TInv, PInv', EnterOperational PROVE TInv'
  OBVIOUS
<1>1. drive' = drive /\ drive \in DriveType /\ Quiet'
  BY DEF TInv, EnterOperational, Quiet
<1>2. CASE ~InTouch'
  BY <1>1, <1>2, TInvOut
<1>3. CASE InTouch'
  <2>1. active' = NoItem /\ queue' = <<>>
    BY <1>3 DEF EnterOperational, Enable, InTouch, Running, TInv, Quiet, PInv, NoRest
  <2>2. InFlight' = <<NoItem>>
    BY <2>1 DEF InFlight
  <2>3. ASSUME NEW p \in Handles, profiles'[p].in_use
        PROVE  \A f \in Fields : profiles'[p].state[f] = "FIELD_CHANGED"
    <3>1. profiles[p] \in ProfileType
      BY DEF TInv, PInv, TypeInv
    <3>2. profiles'[p] = IF profiles[p].in_use THEN MarkAsUnsaved(profiles[p])
                                              ELSE profiles[p]
      BY DEF EnterOperational, ProfilesReset
    <3>3. MarkAsUnsaved(profiles[p]).state = AllFields("FIELD_CHANGED")
      BY <3>1 DEF MarkAsUnsaved, ProfileType
    <3> QED
      BY <2>3, <3>2, <3>3 DEF AllFields
  <2>4. Runs(drive', InFlight', drive)
    <3>1. Done(drive, NoItem) = drive
      BY DEF Done, NoItem, Command
    <3> QED
      BY <1>1, <2>2, <3>1, RunsOne
  <2>5. AllFit(drive, profiles', owner', tainted')
    BY <2>3 DEF AllFit, Fits
  <2>6. \A p, f : NoWrites(InFlight', p, f)
    <3>1. Len(InFlight') = 1 /\ InFlight'[1] = NoItem
      BY <2>2
    <3>2. \A i \in 1..1 : i = 1
      OBVIOUS
    <3> QED
      BY <3>1, <3>2, NoItemType DEF NoWrites
  <2> QED
    BY <1>1, <2>4, <2>5, <2>6 DEF TInv, WillFit, NoneChanged
<1> QED
  BY <1>2, <1>3

\* The item is executed, and the rest stays in flight.
LEMMA ConfirmRuns ==
    ASSUME PInv, Confirm
    PROVE  /\ drive' = Done(drive, active)
           /\ queue # <<>> => InFlight' = queue
           /\ queue = <<>> => InFlight' = <<NoItem>>
           /\ \A e : Runs(drive, InFlight, e) => Runs(drive', InFlight', e)
<1>1. active \in Items /\ queue \in Seq(Items)
  BY DEF PInv, TypeInv
<1>2. drive' = Done(drive, active)
  BY DEF Confirm, DriveAfter, Done
<1>3. /\ queue # <<>> => InFlight' = queue
      /\ queue = <<>> => InFlight' = <<NoItem>>
  <2>1. CASE queue = <<>>
    BY <2>1 DEF Confirm, Advance, InFlight
  <2>2. CASE queue # <<>>
    <3>1. <<Head(queue)>> \o Tail(queue) = queue
      BY <1>1, <2>2
    <3> QED
      BY <2>2, <3>1 DEF Confirm, Advance, InFlight
  <2> QED
    BY <2>1, <2>2
<1>4. ASSUME NEW e, Runs(drive, InFlight, e) PROVE Runs(drive', InFlight', e)
  <2>1. Runs(drive', queue, e)
    BY <1>1, <1>2, <1>4, RunsHead DEF InFlight
  <2>2. CASE queue = <<>>
    <3>1. Runs(drive', <<>>, e)
      BY <2>1, <2>2
    <3>2. e = drive'
      BY <3>1 DEF Runs, IsRun
    <3>3. Done(drive', NoItem) = drive'
      BY DEF Done, NoItem, Command
    <3>4. Runs(drive', <<NoItem>>, Done(drive', NoItem))
      BY RunsOne
    <3> QED
      BY <1>3, <2>2, <3>2, <3>3, <3>4
  <2>3. CASE queue # <<>>
    BY <1>3, <2>1, <2>3
  <2> QED
    BY <2>2, <2>3
<1> QED
  BY <1>2, <1>3, <1>4

\* The drive catches up by one item.
LEMMA TInvConfirm == TInv /\ PInv' /\ Confirm => TInv'
<1> SUFFICES ASSUME TInv, PInv', Confirm PROVE TInv'
  OBVIOUS
<1>1. PInv /\ active \in Items /\ queue \in Seq(Items) /\ drive \in DriveType
  BY DEF TInv, PInv, TypeInv
<1>2. drive' = Done(drive, active)
  BY <1>1, ConfirmRuns
<1>3. drive' \in DriveType
  BY <1>1, <1>2, DoneType
<1>4. Quiet' /\ InTouch' = InTouch
  BY DEF TInv, Quiet, Confirm, InTouch, Running
<1>5. /\ queue # <<>> => InFlight' = queue
      /\ queue = <<>> => InFlight' = <<NoItem>>
  BY <1>1, ConfirmRuns
<1>6. ASSUME NEW p, NEW f, ~NoWrites(InFlight', p, f) PROVE ~NoWrites(InFlight, p, f)
  <2>1. CASE queue = <<>>
    <3>1. InFlight' = <<NoItem>>
      BY <1>5, <2>1
    <3>2. Len(<<NoItem>>) = 1 /\ <<NoItem>>[1] = NoItem /\ \A i \in 1..1 : i = 1
      OBVIOUS
    <3> QED
      BY <1>6, <3>1, <3>2, NoItemType DEF NoWrites
  <2>2. CASE queue # <<>>
    <3>1. PICK i \in 1..Len(queue) : IsWrite(queue[i], p, f)
      BY <1>5, <1>6, <2>2 DEF NoWrites
    <3>2. /\ i + 1 \in 1..Len(<<active>> \o queue)
          /\ (<<active>> \o queue)[i + 1] = queue[i]
      BY <1>1
    <3> QED
      BY <3>1, <3>2 DEF NoWrites, InFlight
  <2> QED
    BY <2>1, <2>2
<1>7. ASSUME InTouch, NEW q \in Handles, profiles'[q].in_use, q \notin tainted
      PROVE  /\ profiles[q].in_use
             /\ \A f \in Fields :
                   /\ FieldValue(profiles'[q], f) = FieldValue(profiles[q], f)
                   /\ profiles'[q].state[f] = "FIELD_CHANGED" <=>
                          profiles[q].state[f] = "FIELD_CHANGED"
  <2>1. /\ profiles'[q].in_use = profiles[q].in_use
        /\ \A f \in Fields :
              /\ FieldValue(profiles'[q], f) = FieldValue(profiles[q], f)
              /\ profiles'[q].state[f] = IF IsWrite(active, q, f) THEN "FIELD_WRITTEN"
                                                              ELSE profiles[q].state[f]
    BY <1>1, ConfirmedProfile
  <2>2. ASSUME NEW f \in Fields, IsWrite(active, q, f)
        PROVE  profiles[q].state[f] # "FIELD_CHANGED"
    <3>1. 1 \in 1..Len(InFlight) /\ InFlight[1] = active
      BY <1>1 DEF InFlight
    <3>2. ~NoWrites(InFlight, q, f)
      BY <2>2, <3>1 DEF NoWrites
    <3> QED
      BY <1>7, <2>1, <3>2 DEF TInv, NoneChanged
  <2> QED
    BY <1>7, <2>1, <2>2
<1>8. tainted' = tainted /\ owner' = owner
  BY DEF Confirm
<1>9. ASSUME InTouch
      PROVE  \E e \in DriveType : /\ Runs(drive', InFlight', e)
                                  /\ AllFit(e, profiles', owner', tainted')
  <2>1. PICK e \in DriveType : /\ Runs(drive, InFlight, e)
                               /\ AllFit(e, profiles, owner, tainted)
    BY <1>9 DEF TInv, WillFit
  <2>2. Runs(drive', InFlight', e)
    BY <1>1, <2>1, ConfirmRuns
  <2>3. ASSUME NEW q \in Handles, profiles'[q].in_use, q \notin tainted
        PROVE  Fits(e, profiles'[q], owner, q)
    <3>1. /\ profiles[q].in_use
          /\ \A f \in Fields :
                /\ FieldValue(profiles'[q], f) = FieldValue(profiles[q], f)
                /\ profiles'[q].state[f] = "FIELD_CHANGED" <=>
                       profiles[q].state[f] = "FIELD_CHANGED"
      BY <1>7, <1>9, <2>3
    <3>2. Fits(e, profiles[q], owner, q)
      BY <2>1, <2>3, <3>1 DEF AllFit
    <3> QED
      BY <3>1, <3>2 DEF Fits
  <2>4. AllFit(e, profiles', owner', tainted')
    BY <1>8, <2>3 DEF AllFit
  <2> QED
    BY <2>1, <2>2, <2>4
<1>10. ASSUME InTouch, NEW q \in Handles, NEW f \in Fields, profiles'[q].in_use,
              q \notin tainted, ~NoWrites(InFlight', q, f)
       PROVE  profiles'[q].state[f] # "FIELD_CHANGED"
  BY <1>6, <1>7, <1>10 DEF TInv, NoneChanged
<1>11. WillFit'
  BY <1>4, <1>9 DEF WillFit
<1>12. NoneChanged'
  BY <1>4, <1>8, <1>10 DEF NoneChanged
<1> QED
  BY <1>3, <1>4, <1>11, <1>12 DEF TInv

\* sled_profile_execute queues what takes the drive on to fit again.
LEMMA TInvExecute ==
    ASSUME TInv, PInv', NEW p \in Handles, Execute(p)
    PROVE  TInv'
<1> DEFINE start == NothingWritten(profiles)
           w == WriteChain(start, p)
           run == <<Command("run", p)>>
           items == Append(w.items, Command("run", p))
<1>1. /\ profiles' = w.profiles /\ owner' = w.owner /\ tainted' = tainted \cup w.mixed
      /\ Push(items) /\ UNCHANGED <<net, sdo, status, drive>> /\ net = "oper"
  BY DEF Execute, WritePendingChanges, MotionIdle
<1>2. PInv /\ TypeInv /\ drive \in DriveType /\ profiles \in [Handles -> ProfileType]
  BY DEF TInv, PInv, TypeInv
<1>3. Written(start, profiles) /\ Written(w, profiles)
  BY <1>2, NothingIsWritten, ChainWritten
<1>4. start.items = <<>> /\ start.profiles = profiles /\ start.owner = owner
      /\ start.mixed = {}
  BY DEF NothingWritten
<1> HIDE DEF start
<1>5. ASSUME NEW d \in DriveType, AllFit(d, profiles, owner, tainted)
      PROVE  Lands(w, d, tainted)
  <2>1. Runs(d, start.items, d)
    BY <1>4, RunsNothing
  <2>2. AllFit(d, start.profiles, start.owner, tainted \cup start.mixed)
    BY <1>4, <1>5 DEF AllFit
  <2>3. Lands(start, d, tainted)
    BY <1>5, <2>1, <2>2 DEF Lands
  <2> QED
    BY <1>3, <2>3, ChainLands
<1>6. w.items \in Seq(Queued)
  BY <1>3 DEF Written
<1> HIDE DEF w
<1>7. /\ run \in Seq(Queued)
      /\ \A q, f, v : NoWrites(run, q, f) /\ AllWrite(run, q, f, v)
  BY CommandWrites
<1>8. items = w.items \o run /\ items # <<>>
  <2>1. Command("run", p) \in Queued
    BY DEF Command, Queued, Items
  <2> QED
    BY <1>6, <2>1
<1>9. \A d : Runs(d, run, d)
  <2>1. \A d : Done(d, Command("run", p)) = d
    BY DEF Done, Command
  <2> QED
    BY <2>1, RunsOne
<1> HIDE DEF run, items
<1>10. items \in Seq(Queued)
  BY <1>6, <1>7, <1>8
<1>11. sdo = "enabled" => \/ InFlight' = InFlight \o items
                          \/ InFlight = <<NoItem>> /\ InFlight' = items
  BY <1>1, <1>2, <1>8, <1>10, PushInFlight
<1>12. InFlight \in Seq(Items) /\ items \in Seq(Items)
  BY <1>2, <1>10 DEF TypeInv, InFlight, Queued
<1>13. Quiet' /\ InTouch' = InTouch /\ drive' \in DriveType
  BY <1>1, <1>2 DEF Quiet, InTouch, Running
<1>14. ASSUME InTouch
       PROVE  \E e \in DriveType : /\ Runs(drive', InFlight', e)
                                   /\ AllFit(e, profiles', owner', tainted')
  <2>1. PICK d \in DriveType : /\ Runs(drive, InFlight, d)
                               /\ AllFit(d, profiles, owner, tainted)
    BY <1>14 DEF TInv, WillFit
  <2>2. PICK e \in DriveType : /\ Runs(d, w.items, e)
                               /\ AllFit(e, w.profiles, w.owner, tainted \cup w.mixed)
    BY <1>5, <2>1 DEF Lands
  <2>3. Runs(d, items, e)
    BY <1>6, <1>7, <1>8, <1>9, <2>2, RunsBoth
  <2>4. Runs(drive, InFlight', e)
    <3>1. CASE InFlight' = InFlight \o items
      BY <1>12, <2>1, <2>3, <3>1, RunsBoth
    <3>2. CASE InFlight = <<NoItem>> /\ InFlight' = items
      <4> DEFINE one == <<NoItem>>
      <4>1. Len(one) = 1 /\ one[1] = NoItem /\ 1 \in 1..1 /\ 1 - 1 = 0
        OBVIOUS
      <4> HIDE DEF one
      <4>2. Runs(drive, one, d)
        BY <2>1, <3>2 DEF one
      <4>3. d = Done(drive, NoItem)
        BY <4>1, <4>2 DEF Runs, IsRun
      <4>4. d = drive
        BY <4>3 DEF Done, NoItem, Command
      <4> QED
        BY <2>3, <3>2, <4>4
    <3> QED
      BY <1>11, <1>14, <3>1, <3>2 DEF InTouch
  <2> QED
    BY <1>1, <2>2, <2>4
<1>15. ASSUME InTouch, NEW q \in Handles, NEW f \in Fields, profiles'[q].in_use,
              q \notin tainted', ~NoWrites(InFlight', q, f)
       PROVE  profiles'[q].state[f] # "FIELD_CHANGED"
  <2>1. WrittenField(w, profiles, q, f) /\ w.profiles[q].in_use = profiles[q].in_use
    BY <1>3 DEF Written
  <2>2. NoWrites(items, q, f) <=> NoWrites(w.items, q, f)
    BY <1>6, <1>7, <1>8, ConcatWrites
  <2>3. CASE ~NoWrites(items, q, f)
    BY <1>1, <2>1, <2>2, <2>3 DEF WrittenField
  <2>4. CASE NoWrites(items, q, f)
    <3>1. ~NoWrites(InFlight, q, f)
      <4>1. CASE InFlight' = InFlight \o items
        BY <1>12, <1>15, <2>4, <4>1, ConcatWrites
      <4>2. CASE InFlight' = items
        BY <1>15, <2>4, <4>2
      <4> QED
        BY <1>11, <1>15, <4>1, <4>2 DEF InTouch
    <3>2. profiles[q].state[f] # "FIELD_CHANGED"
      BY <1>1, <1>15, <2>1, <3>1 DEF TInv, NoneChanged
    <3> QED
      BY <1>1, <2>1, <3>2 DEF WrittenField
  <2> QED
    BY <2>3, <2>4
<1>16. WillFit'
  BY <1>13, <1>14 DEF WillFit
<1>17. NoneChanged'
  BY <1>13, <1>15 DEF NoneChanged
<1> QED
  BY <1>13, <1>16, <1>17 DEF TInv

-----------------------------------------------------------------------------
\* Every step keeps the invariant.
LEMMA TInvStep == TInv /\ [Next]_vars => TInv'
<1> SUFFICES ASSUME TInv, [Next]_vars PROVE TInv'
  OBVIOUS
<1>0. PInv'
  BY PInvStep DEF TInv
<1>1. ASSUME NEW p \in Handles PROVE profiles[p] \in ProfileType
  BY DEF TInv, PInv, TypeInv
<1>2. CASE SetTable
  <2>1. PICK p \in Handles, t \in Tables : Edit(p, SetTableOf(profiles[p], t))
    BY <1>2 DEF SetTable
  <2> QED
    BY <1>0, <1>1, <2>1, TableMarks, TInvEdit
<1>3. CASE SetTarget
  <2>1. PICK p \in Handles, type \in PositionTypes, x \in Positions, t \in Times :
            Edit(p, SetTargetOf(profiles[p], type, x, t))
    BY <1>3 DEF SetTarget
  <2> QED
    BY <1>0, <1>1, <2>1, TargetMarks, TInvEdit, ParametersAssumption DEF PositionTypesOK
<1>4. CASE SetNext
  <2>1. PICK p \in Handles, n \in Handles \cup {-1}, d \in Delays, b \in BlendTypes :
            Edit(p, SetNextOf(profiles[p], n, d, b))
    BY <1>4 DEF SetNext
  <2> QED
    BY <1>0, <1>1, <2>1, NextMarks, TInvEdit, ParametersAssumption DEF BlendTypesOK
<1>5. CASE \E p \in Handles : Execute(p)
  BY <1>0, <1>5, TInvExecute
<1>6. CASE UNCHANGED vars
  BY <1>0, <1>6 DEF vars, TInv, Quiet, WillFit, NoneChanged, InTouch, Running, InFlight
<1> QED
  BY <1>0, <1>2, <1>3, <1>4, <1>5, <1>6, TInvCreate, TInvDestroy, TInvConfirm, TInvLost,
     TInvEnabled, TInvOperational DEF Next

\* What is settled is in the drive already.
LEMMA SettledIsInDrive == TInv => TaskIsProfile
<1> SUFFICES ASSUME TInv, NEW p \in Handles, Settled(p), p \notin tainted
             PROVE  InDrive(p)
  BY DEF TaskIsProfile
<1>1. /\ InTouch /\ profiles[p].in_use /\ ~Pending(p)
      /\ \A f \in Fields : profiles[p].state[f] = "FIELD_WRITTEN"
  BY DEF Settled
<1>2. PICK e \in DriveType : /\ Runs(drive, InFlight, e)
                             /\ AllFit(e, profiles, owner, tainted)
  BY <1>1 DEF TInv, WillFit
<1>3. InFlight \in Seq(Items) /\ drive \in DriveType
  BY DEF TInv, PInv, TypeInv, InFlight
<1>4. \A i \in 1..Len(InFlight) : ~(InFlight[i].op = "store" /\ InFlight[i].p = p)
  BY <1>1 DEF Pending
<1>5. e.task[p] = drive.task[p]
  BY <1>2, <1>3, <1>4, TaskStays
<1>6. \A f \in Fields : e.task[p][f] = FieldValue(profiles[p], f)
  BY <1>1, <1>2 DEF AllFit, Fits
<1> QED
  BY <1>5, <1>6 DEF InDrive

(***************************************************************************)
(* When every field of a profile counts as written and nothing of it is on *)
(* its way, the motion task stored in the drive is the profile: through    *)
(* chains of profiles written over one register, restarts of the drive and *)
(* lost links, unless the profile is tainted (see TaskIsProfile).          *)
(***************************************************************************)
THEOREM TaskIsProfileHolds == Spec => []TaskIsProfile
<1>1. Spec => []TInv
  BY TInvInit, TInvStep, PTL DEF Spec
<1> QED
  BY <1>1, SettledIsInDrive, PTL
=============================================================================
