------------------------- MODULE SledSinusoidProofs -------------------------
(***************************************************************************)
(* Proofs about the sinusoid commands (SledSinusoid): a stop stops, and    *)
(* the sled is set in motion only when the oscillation is complete in the  *)
(* drive, whatever the order of the commands, for any amplitudes, periods  *)
(* and positions.                                                          *)
(*                                                                         *)
(* As in SledTask the argument is about the drive as it will be when what  *)
(* is in flight has been executed, and, for LoopIsClosed, as it will be    *)
(* when the command that starts the motion is executed.                    *)
(***************************************************************************)
EXTENDS SledSinusoid, SledTask

-----------------------------------------------------------------------------
\* The drive goes one way.
LEMMA RunsUnique ==
    ASSUME NEW S, NEW s \in Seq(S), NEW d, NEW t, IsRun(t, d, s), NEW e, Runs(d, s, e)
    PROVE  e = t[Len(s)]
<1>1. PICK u : IsRun(u, d, s) /\ e = u[Len(s)]
  BY DEF Runs
<1> DEFINE N == {n \in Nat : n <= Len(s) => t[n] = u[n]}
<1>2. 0 \in N
  BY <1>1 DEF IsRun
<1>3. ASSUME NEW n \in Nat, n \in N PROVE n + 1 \in N
  <2>1. CASE n + 1 <= Len(s)
    <3>1. n + 1 \in 1..Len(s) /\ (n + 1) - 1 = n /\ n <= Len(s)
      BY <2>1
    <3>2. t[n + 1] = Done(t[n], s[n + 1]) /\ u[n + 1] = Done(u[n], s[n + 1])
      BY <1>1, <3>1 DEF IsRun
    <3> QED
      BY <1>3, <3>1, <3>2
  <2> QED
    BY <2>1
<1>4. Len(s) \in Nat
  OBVIOUS
<1> HIDE DEF N
<1>5. Len(s) \in N
  BY <1>2, <1>3, <1>4, NatInductionOnSet
<1> QED
  BY <1>1, <1>4, <1>5 DEF N

\* What comes first is executed as if nothing came after it.
LEMMA RunOfFirst ==
    ASSUME NEW S, NEW s \in Seq(S), NEW u \in Seq(S), NEW d, NEW t, IsRun(t, d, s \o u)
    PROVE  IsRun(t, d, s)
<1> DEFINE w == s \o u
<1>1. \A i \in 1..Len(s) : i \in 1..Len(w) /\ w[i] = s[i]
  OBVIOUS
<1> HIDE DEF w
<1>2. IsRun(t, d, w)
  BY DEF w
<1> QED
  BY <1>1, <1>2 DEF IsRun

\* An item in front.
LEMMA RunOfRest ==
    ASSUME NEW x \in Items, NEW q \in Seq(Items), NEW d, NEW t, IsRun(t, Done(d, x), q)
    PROVE  \E u : /\ IsRun(u, d, <<x>> \o q)
                  /\ \A i \in 0..Len(q) : u[i + 1] = t[i]
<1> DEFINE n == Len(q)
           s == <<x>> \o q
           u == [i \in 0..(n + 1) |-> IF i = 0 THEN d ELSE t[i - 1]]
<1>1. /\ n \in Nat /\ Len(s) = n + 1 /\ s[1] = x
      /\ \A i \in 1..(n + 1) : i # 1 => s[i] = q[i - 1]
  OBVIOUS
<1> HIDE DEF s
<1>2. u[0] = d /\ \A i \in 1..(n + 1) : u[i] = t[i - 1]
  BY <1>1
<1> HIDE DEF u
<1>3. ASSUME NEW i \in 1..(n + 1) PROVE u[i] = Done(u[i - 1], s[i])
  <2>1. CASE i = 1
    <3>1. i - 1 = 0 /\ t[0] = Done(d, x)
      BY <2>1 DEF IsRun
    <3> QED
      BY <1>1, <1>2, <2>1, <3>1
  <2>2. CASE i # 1
    <3>1. i - 1 \in 1..n /\ i - 1 \in 1..(n + 1)
      BY <1>1, <2>2
    <3>2. t[i - 1] = Done(t[(i - 1) - 1], q[i - 1])
      BY <3>1 DEF IsRun
    <3> QED
      BY <1>1, <1>2, <2>2, <3>1, <3>2
  <2> QED
    BY <2>1, <2>2
<1>4. IsRun(u, d, s)
  BY <1>1, <1>2, <1>3 DEF IsRun
<1>5. \A i \in 0..n : u[i + 1] = t[i]
  <2> TAKE i \in 0..n
  <2>1. i + 1 \in 1..(n + 1) /\ (i + 1) - 1 = i
    BY <1>1
  <2> QED
    BY <1>2, <2>1
<1> QED
  BY <1>4, <1>5 DEF s

-----------------------------------------------------------------------------
\* After, of any state of the drive.
AfterIn(d, p) ==
    IF d.task[p]["O_C"] > 0 /\ (d.task[p]["O_C"] \div 8) % 2 = 1
    THEN d.task[p]["O_FN"] - TaskNumber(0) ELSE -1

\* The fields that say which task comes next.
Links == {"O_C", "O_FN"}

\* The control word has the bit for the next task where there is one.
LEMMA LinkBit ==
    ASSUME NEW pr \in ProfileType
    PROVE  /\ ControlWord(pr) \in Int /\ ControlWord(pr) > 0
           /\ (ControlWord(pr) \div 8) % 2 = 1 <=> pr.next_profile >= 0
<1>1. /\ pr.next_profile \in Int
      /\ pr.position_type \in PositionTypesOK /\ pr.blend_type \in BlendTypesOK
  BY NProfilesAssumption DEF ProfileType, Handles
<1> DEFINE a == CASE pr.position_type = "pos_absolute"        -> 0
                  [] pr.position_type = "pos_relative_actual" -> 5
                  [] pr.position_type = "pos_relative_target" -> 3
           b == IF pr.next_profile >= 0 THEN 8 ELSE 0
           c == CASE pr.blend_type = "bln_none"   -> 0
                  [] pr.blend_type = "bln_before" -> 272
                  [] pr.blend_type = "bln_after"  -> 16
<1>2. ControlWord(pr) = a + b + c + 512 + 8192
  BY DEF ControlWord
<1>3. a \in {0, 5, 3}
  BY <1>1 DEF PositionTypesOK
<1>4. c \in {0, 272, 16}
  BY <1>1 DEF BlendTypesOK
<1>5. b \in {0, 8} /\ (b = 8 <=> pr.next_profile >= 0)
  BY <1>1
<1> HIDE DEF a, b, c
<1>6. a + b + c + 512 + 8192 \in Int /\ a + b + c + 512 + 8192 > 0
  BY <1>3, <1>4, <1>5
<1>7. ((a + b + c + 512 + 8192) \div 8) % 2 = 1 <=> b = 8
  BY <1>3, <1>4, <1>5
<1> QED
  BY <1>2, <1>5, <1>6, <1>7

\* The drive has the links of a profile: it goes on as the profile says.
LEMMA LinksFollow ==
    ASSUME NEW pr \in ProfileType, NEW d, NEW p,
           \A f \in Links : d.task[p][f] = FieldValue(pr, f)
    PROVE  AfterIn(d, p) = pr.next_profile
<1>1. d.task[p]["O_C"] = ControlWord(pr)
  BY DEF Links, FieldValue
<1>2. d.task[p]["O_FN"] = IF pr.next_profile >= 0 THEN TaskNumber(pr.next_profile) ELSE 0
  BY DEF Links, FieldValue
<1>3. pr.next_profile \in Int /\ (~(pr.next_profile >= 0) => pr.next_profile = -1)
  BY NProfilesAssumption DEF ProfileType, Handles
<1>4. TaskNumber(pr.next_profile) - TaskNumber(0) = pr.next_profile
  BY <1>3 DEF TaskNumber
<1> QED
  BY <1>1, <1>2, <1>3, <1>4, LinkBit DEF AfterIn

-----------------------------------------------------------------------------
\* Changes on top of changes.
LEMMA MarksTwice ==
    ASSUME NEW a, NEW b, NEW c, MarksChanges(a, b), MarksChanges(b, c)
    PROVE  MarksChanges(a, c)
BY DEF MarksChanges

\* A profile that is left alone.
LEMMA MarksNothing == ASSUME NEW pr \in ProfileType PROVE MarksChanges(pr, pr)
BY DEF MarksChanges

\* A change is never forgotten by a setter.
LEMMA MarksKeepPending ==
    ASSUME NEW a, NEW b, MarksChanges(a, b)
    PROVE  HasChangesPending(a) => HasChangesPending(b)
BY DEF MarksChanges, HasChangesPending

\* sled_profile_set_target leaves the links alone.
LEMMA TargetKeeps ==
    ASSUME NEW pr \in ProfileType, NEW x \in Nat, NEW t \in Nat
    PROVE  LET new == Target(pr, x, t)
           IN  /\ MarksChanges(pr, new)
               /\ new.position_type = "pos_absolute" /\ new.next_profile = pr.next_profile
               /\ new.delay = pr.delay /\ new.blend_type = pr.blend_type
               /\ pr.position_type = "pos_absolute" =>
                      \A f \in Links : new.state[f] = pr.state[f]
<1> DEFINE change1 == pr.position_type # "pos_absolute"
           change2 == pr.position # x
           change3 == pr.time # t
           a == Marked(pr, change1, {"O_C"})
           b == Marked(a, change2, {"O_P"})
           c == Marked(b, change3, {"O_ACC", "O_DEC"})
           new == [c EXCEPT !.position_type = "pos_absolute", !.position = x, !.time = t]
<1>1. Target(pr, x, t) = new
  BY DEF Target, SetTargetOf
<1>2. MarksChanges(pr, Target(pr, x, t))
  BY TargetMarks DEF Target, PositionTypesOK
<1> HIDE DEF change1, change2, change3
<1>3. /\ a \in ProfileType /\ a = [pr EXCEPT !.state = a.state]
      /\ a.state = [f \in Fields |-> IF change1 /\ f \in {"O_C"}
                                     THEN "FIELD_CHANGED" ELSE pr.state[f]]
  BY MarkedIs
<1> HIDE DEF a
<1>4. /\ b \in ProfileType /\ b = [a EXCEPT !.state = b.state]
      /\ b.state = [f \in Fields |-> IF change2 /\ f \in {"O_P"}
                                     THEN "FIELD_CHANGED" ELSE a.state[f]]
  BY <1>3, MarkedIs
<1> HIDE DEF b
<1>5. /\ c \in ProfileType /\ c = [b EXCEPT !.state = c.state]
      /\ c.state = [f \in Fields |-> IF change3 /\ f \in {"O_ACC", "O_DEC"}
                                     THEN "FIELD_CHANGED" ELSE b.state[f]]
  BY <1>4, MarkedIs
<1> HIDE DEF c
<1>6. /\ a.next_profile = pr.next_profile /\ a.delay = pr.delay
      /\ a.blend_type = pr.blend_type
  BY <1>3 DEF ProfileType
<1>7. /\ b.next_profile = a.next_profile /\ b.delay = a.delay
      /\ b.blend_type = a.blend_type
  BY <1>3, <1>4 DEF ProfileType
<1>8. /\ c.next_profile = b.next_profile /\ c.delay = b.delay
      /\ c.blend_type = b.blend_type
  BY <1>4, <1>5 DEF ProfileType
<1>9. /\ new.position_type = "pos_absolute" /\ new.next_profile = c.next_profile
      /\ new.delay = c.delay /\ new.blend_type = c.blend_type /\ new.state = c.state
  BY <1>5 DEF ProfileType
<1>10. ASSUME ~change1, NEW f \in Links PROVE c.state[f] = pr.state[f]
  <2>1. f \in Fields /\ f \notin {"O_P", "O_ACC", "O_DEC"}
    BY DEF Links, Fields
  <2> QED
    BY <1>3, <1>4, <1>5, <1>10, <2>1
<1> HIDE DEF new
<1> QED
  BY <1>1, <1>2, <1>6, <1>7, <1>8, <1>9, <1>10 DEF change1

\* sled_profile_set_next marks the links if there is a change, and nothing if not.
LEMMA NextKeeps ==
    ASSUME NEW pr \in ProfileType, NEW n \in Handles \cup {-1}
    PROVE  LET new == NextIs(pr, n)
           IN  /\ MarksChanges(pr, new)
               /\ new.position_type = pr.position_type /\ new.next_profile = n
               /\ new.delay = 0 /\ new.blend_type = "bln_after"
               /\ pr.next_profile # n =>
                      \A f \in Links : new.state[f] = "FIELD_CHANGED"
               /\ pr.next_profile = n /\ pr.delay = 0 /\ pr.blend_type = "bln_after" =>
                      \A f \in Fields : new.state[f] = pr.state[f]
<1> DEFINE change1 == pr.next_profile # n
           change2 == pr.delay # 0
           change3 == pr.blend_type # "bln_after"
           a == Marked(pr, change1, {"O_C", "O_FN"})
           b == Marked(a, change2, {"O_C", "O_FT"})
           c == Marked(b, change3, {"O_C"})
           new == [c EXCEPT !.next_profile = n, !.delay = 0, !.blend_type = "bln_after"]
<1>1. NextIs(pr, n) = new
  BY DEF NextIs, SetNextOf
<1>2. MarksChanges(pr, NextIs(pr, n))
  BY NextMarks DEF NextIs, BlendTypesOK
<1> HIDE DEF change1, change2, change3
<1>3. /\ a \in ProfileType /\ a = [pr EXCEPT !.state = a.state]
      /\ a.state = [f \in Fields |-> IF change1 /\ f \in {"O_C", "O_FN"}
                                     THEN "FIELD_CHANGED" ELSE pr.state[f]]
  BY MarkedIs
<1> HIDE DEF a
<1>4. /\ b \in ProfileType /\ b = [a EXCEPT !.state = b.state]
      /\ b.state = [f \in Fields |-> IF change2 /\ f \in {"O_C", "O_FT"}
                                     THEN "FIELD_CHANGED" ELSE a.state[f]]
  BY <1>3, MarkedIs
<1> HIDE DEF b
<1>5. /\ c \in ProfileType /\ c = [b EXCEPT !.state = c.state]
      /\ c.state = [f \in Fields |-> IF change3 /\ f \in {"O_C"}
                                     THEN "FIELD_CHANGED" ELSE b.state[f]]
  BY <1>4, MarkedIs
<1> HIDE DEF c
<1>6. /\ a.position_type = pr.position_type /\ b.position_type = a.position_type
      /\ c.position_type = b.position_type
  <2>1. a.position_type = pr.position_type
    BY <1>3 DEF ProfileType
  <2>2. b.position_type = a.position_type
    BY <1>3, <1>4 DEF ProfileType
  <2>3. c.position_type = b.position_type
    BY <1>4, <1>5 DEF ProfileType
  <2> QED
    BY <2>1, <2>2, <2>3
<1>7. /\ new.position_type = c.position_type /\ new.next_profile = n
      /\ new.delay = 0 /\ new.blend_type = "bln_after" /\ new.state = c.state
  BY <1>5 DEF ProfileType
<1>8. ASSUME change1, NEW f \in Links PROVE c.state[f] = "FIELD_CHANGED"
  <2>1. f \in Fields /\ f \in {"O_C", "O_FN"}
    BY DEF Links, Fields
  <2> QED
    BY <1>3, <1>4, <1>5, <1>8, <2>1
<1>9. ASSUME ~change1, ~change2, ~change3, NEW f \in Fields
      PROVE  c.state[f] = pr.state[f]
  <2> QED
    BY <1>3, <1>4, <1>5, <1>9
<1> HIDE DEF new
<1> QED
  BY <1>1, <1>2, <1>6, <1>7, <1>8, <1>9 DEF change1, change2, change3

-----------------------------------------------------------------------------
\* What never changes of the built-in profiles.
Laid(ps) ==
    /\ \A p \in BuiltIn : /\ ps[p].in_use /\ ps[p].position_type = "pos_absolute"
                          /\ ps[p].delay = 0
    /\ \A p \in {There, RThere, Back} : ps[p].blend_type = "bln_after"
    /\ ps[RThere].next_profile = Back /\ ps[RBack].next_profile = -1
    /\ ps[There].next_profile \in {Back, RBack, -1}
    /\ ps[Back].next_profile \in {There, -1}

\* What the edits of a command may be.
Edits(ps) == /\ ps \in [Handles -> ProfileType] /\ Laid(ps)
             /\ \A p \in Handles : MarksChanges(profiles[p], ps[p])

\* The handles.
LEMMA BuiltInHandles ==
    /\ BuiltIn \subseteq Handles /\ -1 \notin Handles
    /\ There # RThere /\ There # Back /\ There # RBack
    /\ RThere # Back /\ RThere # RBack /\ Back # RBack
    /\ There # -1 /\ Back # -1 /\ RBack # -1
BY NProfilesAssumption, SinusoidAssumption
   DEF BuiltIn, There, RThere, Back, RBack, Handles

\* A target and a link at once.
LEMMA TargetNextKeeps ==
    ASSUME NEW pr \in ProfileType, NEW x \in Nat, NEW t \in Nat,
           NEW n \in Handles \cup {-1}, pr.position_type = "pos_absolute"
    PROVE  LET new == NextIs(Target(pr, x, t), n)
           IN  /\ MarksChanges(pr, new)
               /\ new.position_type = "pos_absolute" /\ new.next_profile = n
               /\ new.delay = 0 /\ new.blend_type = "bln_after"
               /\ pr.next_profile # n =>
                      \A f \in Links : new.state[f] = "FIELD_CHANGED"
               /\ pr.next_profile = n /\ pr.delay = 0 /\ pr.blend_type = "bln_after" =>
                      \A f \in Links : new.state[f] = pr.state[f]
<1> DEFINE m == Target(pr, x, t)
           new == NextIs(m, n)
<1>1. /\ MarksChanges(pr, m) /\ m.position_type = "pos_absolute"
      /\ m.next_profile = pr.next_profile /\ m.delay = pr.delay
      /\ m.blend_type = pr.blend_type /\ \A f \in Links : m.state[f] = pr.state[f]
  BY TargetKeeps
<1>2. m \in ProfileType
  BY <1>1 DEF MarksChanges
<1> HIDE DEF m
<1>3. /\ MarksChanges(m, new) /\ new.position_type = m.position_type
      /\ new.next_profile = n /\ new.delay = 0 /\ new.blend_type = "bln_after"
      /\ m.next_profile # n => \A f \in Links : new.state[f] = "FIELD_CHANGED"
      /\ m.next_profile = n /\ m.delay = 0 /\ m.blend_type = "bln_after" =>
             \A f \in Fields : new.state[f] = m.state[f]
  BY <1>2, NextKeeps
<1> HIDE DEF new
<1>4. MarksChanges(pr, new)
  BY <1>1, <1>3, MarksTwice
<1>5. Links \subseteq Fields
  BY DEF Links, Fields
<1> QED
  BY <1>1, <1>3, <1>4, <1>5 DEF new, m

\* The edits of sled_sinusoid_start.
LEMMA StartEditsMark ==
    ASSUME TypeInv, Laid(profiles), NEW x \in Nat, NEW top \in Nat, NEW t \in Nat
    PROVE  LET ps == StartEdits(x, top, t)
           IN  /\ Edits(ps)
               /\ ps[There].next_profile = Back /\ ps[Back].next_profile = There
               /\ ps[RThere] = profiles[RThere] /\ ps[RBack] = profiles[RBack]
               /\ profiles[There].next_profile # Back => HasChangesPending(ps[There])
               /\ profiles[Back].next_profile = There =>
                      \A f \in Links : ps[Back].state[f] = profiles[Back].state[f]
<1> DEFINE ps == StartEdits(x, top, t)
           th == NextIs(Target(profiles[There], top, t), Back)
           bk == NextIs(Target(profiles[Back], x, t), There)
<1>1. profiles \in [Handles -> ProfileType] /\ There \in Handles /\ Back \in Handles
      /\ RThere \in Handles /\ RBack \in Handles
  BY BuiltInHandles DEF TypeInv, BuiltIn
<1>2. /\ profiles[There] \in ProfileType /\ profiles[Back] \in ProfileType
      /\ profiles[There].position_type = "pos_absolute"
      /\ profiles[Back].position_type = "pos_absolute"
      /\ profiles[Back].delay = 0 /\ profiles[Back].blend_type = "bln_after"
  BY <1>1 DEF Laid, BuiltIn
<1>3. /\ MarksChanges(profiles[There], th) /\ th.position_type = "pos_absolute"
      /\ th.next_profile = Back /\ th.delay = 0 /\ th.blend_type = "bln_after"
      /\ profiles[There].next_profile # Back =>
             \A f \in Links : th.state[f] = "FIELD_CHANGED"
  <2> DEFINE a == profiles[There]
  <2>1. a \in ProfileType /\ a.position_type = "pos_absolute" /\ Back \in Handles \cup {-1}
    BY <1>1, <1>2
  <2> HIDE DEF a, ps, bk
  <2>2. LET new == NextIs(Target(a, top, t), Back)
        IN  /\ MarksChanges(a, new) /\ new.position_type = "pos_absolute"
            /\ new.next_profile = Back /\ new.delay = 0 /\ new.blend_type = "bln_after"
            /\ a.next_profile # Back => \A f \in Links : new.state[f] = "FIELD_CHANGED"
    BY <2>1, TargetNextKeeps
  <2> QED
    BY <2>2 DEF a
<1>4. /\ MarksChanges(profiles[Back], bk) /\ bk.position_type = "pos_absolute"
      /\ bk.next_profile = There /\ bk.delay = 0 /\ bk.blend_type = "bln_after"
      /\ profiles[Back].next_profile = There =>
             \A f \in Links : bk.state[f] = profiles[Back].state[f]
  BY <1>1, <1>2, TargetNextKeeps
<1>5. ps = [profiles EXCEPT ![There] = th, ![Back] = bk]
  BY DEF StartEdits
<1> HIDE DEF th, bk, ps
<1>6. th \in ProfileType /\ bk \in ProfileType /\ th.in_use /\ bk.in_use
  BY <1>3, <1>4 DEF MarksChanges, Laid, BuiltIn
<1>7. /\ ps \in [Handles -> ProfileType]
      /\ \A p \in Handles : ps[p] = IF p = There THEN th ELSE IF p = Back THEN bk
                                    ELSE profiles[p]
  BY <1>1, <1>5, <1>6, BuiltInHandles
<1>8. /\ ps[There] = th /\ ps[Back] = bk /\ ps[RThere] = profiles[RThere]
      /\ ps[RBack] = profiles[RBack]
  BY <1>1, <1>7, BuiltInHandles
<1>9. Laid(ps)
  <2>1. BuiltIn = {There, RThere, Back, RBack}
    BY DEF BuiltIn
  <2> QED
    BY <1>3, <1>4, <1>6, <1>8, <2>1 DEF Laid
<1>10. ASSUME NEW p \in Handles PROVE MarksChanges(profiles[p], ps[p])
  BY <1>1, <1>3, <1>4, <1>7, MarksNothing
<1>11. profiles[There].next_profile # Back => HasChangesPending(ps[There])
  BY <1>3, <1>8 DEF HasChangesPending, Links, Fields
<1> QED
  BY <1>3, <1>4, <1>7, <1>8, <1>9, <1>10, <1>11 DEF Edits, ps

\* The edits of sled_rsinusoid_start.
LEMMA RStartEditsMark ==
    ASSUME TypeInv, Laid(profiles), NEW x \in Nat, NEW top \in Nat, NEW t \in Nat
    PROVE  LET ps == RStartEdits(x, top, t)
           IN  /\ Edits(ps)
               /\ ps[There].next_profile = Back /\ ps[Back].next_profile = There
<1> DEFINE ss == StartEdits(x, top, t)
           ps == RStartEdits(x, top, t)
           th == NextIs(Target(ss[RThere], top, t), Back)
           bk == Target(ss[RBack], x, t)
<1>1. /\ There \in Handles /\ Back \in Handles /\ RThere \in Handles /\ RBack \in Handles
      /\ profiles \in [Handles -> ProfileType]
  BY BuiltInHandles DEF BuiltIn, TypeInv
<1>2. /\ ss \in [Handles -> ProfileType] /\ Laid(ss)
      /\ \A p \in Handles : MarksChanges(profiles[p], ss[p])
      /\ ss[There].next_profile = Back /\ ss[Back].next_profile = There
      /\ ss[RThere] = profiles[RThere] /\ ss[RBack] = profiles[RBack]
  BY StartEditsMark DEF Edits
<1>3. ps = [ss EXCEPT ![RThere] = th, ![RBack] = bk]
  BY DEF RStartEdits
<1> HIDE DEF ss
<1>4. /\ ss[RThere] \in ProfileType /\ ss[RBack] \in ProfileType
      /\ ss[RThere].position_type = "pos_absolute"
      /\ ss[RBack].position_type = "pos_absolute" /\ ss[RBack].delay = 0
      /\ ss[RBack].next_profile = -1
  BY <1>1, <1>2 DEF Laid, BuiltIn
<1>5. /\ MarksChanges(ss[RThere], th) /\ th.position_type = "pos_absolute"
      /\ th.next_profile = Back /\ th.delay = 0 /\ th.blend_type = "bln_after"
  BY <1>1, <1>4, TargetNextKeeps
<1>6. /\ MarksChanges(ss[RBack], bk) /\ bk.position_type = "pos_absolute"
      /\ bk.next_profile = -1 /\ bk.delay = 0
  BY <1>4, TargetKeeps
<1> HIDE DEF th, bk, ps
<1>7. th \in ProfileType /\ bk \in ProfileType /\ th.in_use /\ bk.in_use
  BY <1>2, <1>5, <1>6 DEF MarksChanges, Laid, BuiltIn
<1>8. /\ ps \in [Handles -> ProfileType]
      /\ \A p \in Handles : ps[p] = IF p = RThere THEN th ELSE IF p = RBack THEN bk
                                    ELSE ss[p]
  BY <1>1, <1>2, <1>3, <1>7, BuiltInHandles
<1>9. /\ ps[RThere] = th /\ ps[RBack] = bk /\ ps[There] = ss[There] /\ ps[Back] = ss[Back]
  BY <1>1, <1>8, BuiltInHandles
<1>10. Laid(ps)
  <2>1. BuiltIn = {There, RThere, Back, RBack}
    BY DEF BuiltIn
  <2> QED
    BY <1>2, <1>5, <1>6, <1>7, <1>9, <2>1 DEF Laid
<1>11. ASSUME NEW p \in Handles PROVE MarksChanges(profiles[p], ps[p])
  <2>1. CASE p \in {RThere, RBack}
    BY <1>1, <1>2, <1>5, <1>6, <1>9, <2>1
  <2>2. CASE p \notin {RThere, RBack}
    BY <1>2, <1>8, <2>2
  <2> QED
    BY <2>1, <2>2
<1> QED
  BY <1>2, <1>8, <1>9, <1>10, <1>11 DEF Edits, ps

\* The edits of the two stop commands: There is linked to n, Back to m or left alone.
LEMMA StopEditsMark ==
    ASSUME TypeInv, Laid(profiles), NEW n \in {RBack, -1}, NEW ps,
           \/ ps = [profiles EXCEPT ![There] = NextIs(@, n)]
           \/ ps = [profiles EXCEPT ![There] = NextIs(@, n), ![Back] = NextIs(@, -1)]
    PROVE  /\ Edits(ps) /\ ps[There].next_profile = n
           /\ profiles[There].next_profile # n =>
                  \A f \in Links : ps[There].state[f] = "FIELD_CHANGED"
           /\ profiles[There].next_profile = n =>
                  \A f \in Fields : ps[There].state[f] = profiles[There].state[f]
<1> DEFINE th == NextIs(profiles[There], n)
           bk == NextIs(profiles[Back], -1)
<1>1. /\ profiles \in [Handles -> ProfileType] /\ There \in Handles /\ Back \in Handles
      /\ RThere \in Handles /\ RBack \in Handles /\ n \in Handles \cup {-1}
  BY BuiltInHandles DEF TypeInv, BuiltIn
<1>2. /\ profiles[There] \in ProfileType /\ profiles[Back] \in ProfileType
      /\ profiles[There].position_type = "pos_absolute"
      /\ profiles[Back].position_type = "pos_absolute"
      /\ profiles[There].delay = 0 /\ profiles[There].blend_type = "bln_after"
  BY <1>1 DEF Laid, BuiltIn
<1>3. /\ MarksChanges(profiles[There], th)
      /\ th.position_type = profiles[There].position_type
      /\ th.next_profile = n /\ th.delay = 0 /\ th.blend_type = "bln_after"
      /\ profiles[There].next_profile # n =>
             \A f \in Links : th.state[f] = "FIELD_CHANGED"
      /\ profiles[There].next_profile = n =>
             \A f \in Fields : th.state[f] = profiles[There].state[f]
  BY <1>1, <1>2, NextKeeps
<1>4. /\ MarksChanges(profiles[Back], bk)
      /\ bk.position_type = profiles[Back].position_type
      /\ bk.next_profile = -1 /\ bk.delay = 0 /\ bk.blend_type = "bln_after"
  BY <1>1, <1>2, NextKeeps
<1>5. \/ ps = [profiles EXCEPT ![There] = th]
      \/ ps = [profiles EXCEPT ![There] = th, ![Back] = bk]
  BY <1>1, BuiltInHandles
<1> HIDE DEF th, bk
<1>6. th \in ProfileType /\ bk \in ProfileType /\ th.in_use /\ bk.in_use
  BY <1>3, <1>4 DEF MarksChanges, Laid, BuiltIn
<1>7. /\ ps \in [Handles -> ProfileType] /\ ps[There] = th
      /\ ps[Back] \in {bk, profiles[Back]}
      /\ \A p \in Handles : p \notin {There, Back} => ps[p] = profiles[p]
  BY <1>1, <1>5, <1>6, BuiltInHandles
<1>8. ps[RThere] = profiles[RThere] /\ ps[RBack] = profiles[RBack]
  BY <1>1, <1>7, BuiltInHandles
<1>9. Laid(ps)
  <2>1. BuiltIn = {There, RThere, Back, RBack}
    BY DEF BuiltIn
  <2> QED
    BY <1>2, <1>3, <1>4, <1>6, <1>7, <1>8, <2>1 DEF Laid
<1>10. ASSUME NEW p \in Handles PROVE MarksChanges(profiles[p], ps[p])
  BY <1>1, <1>3, <1>4, <1>7, MarksNothing
<1> QED
  BY <1>3, <1>7, <1>9, <1>10 DEF Edits

-----------------------------------------------------------------------------
\* The parameters of a profile that are never written over.
Alike(a, b) == /\ a.in_use = b.in_use /\ a.next_profile = b.next_profile
               /\ a.position_type = b.position_type /\ a.delay = b.delay
               /\ a.blend_type = b.blend_type

\* What a write of pending changes puts into the queue.
Writes == {x \in Queued : x.op # "run"}

(***************************************************************************)
(* From v to w some more is written: parameters stay, nothing is marked as *)
(* changed, nothing is set in motion, and a profile without changes is     *)
(* left alone in the drive.                                                *)
(***************************************************************************)
Onward(v, w) ==
    /\ \A q \in Handles : /\ Alike(w.profiles[q], v.profiles[q])
                          /\ \A f \in Fields : w.profiles[q].state[f] = "FIELD_CHANGED" =>
                                                   v.profiles[q].state[f] = "FIELD_CHANGED"
    /\ v.items \in Seq(Writes) => w.items \in Seq(Writes)
    /\ \A q \in Handles, d, e \in DriveType :
          ~HasChangesPending(v.profiles[q]) /\ Runs(d, v.items, e) =>
              \E e2 \in DriveType : Runs(d, w.items, e2) /\ e2.task[q] = e.task[q]

\* Nothing more.
LEMMA OnwardNothing == ASSUME NEW w PROVE Onward(w, w)
<1>1. \A q \in Handles : Alike(w.profiles[q], w.profiles[q])
  BY DEF Alike
<1> QED
  BY <1>1, Zenon DEF Onward

\* No changes: none later.
LEMMA OnwardPending ==
    ASSUME NEW v, NEW w, Onward(v, w), NEW q \in Handles
    PROVE  ~HasChangesPending(v.profiles[q]) => ~HasChangesPending(w.profiles[q])
<1>1. \A f \in Fields : w.profiles[q].state[f] = "FIELD_CHANGED" =>
                            v.profiles[q].state[f] = "FIELD_CHANGED"
  BY Zenon DEF Onward
<1> QED
  BY <1>1 DEF HasChangesPending

\* Some more, and some more.
LEMMA OnwardTwice ==
    ASSUME NEW u, NEW v, NEW w, Onward(u, v), Onward(v, w)
    PROVE  Onward(u, w)
<1>1. ASSUME NEW q \in Handles
      PROVE  /\ Alike(w.profiles[q], u.profiles[q])
             /\ \A f \in Fields : w.profiles[q].state[f] = "FIELD_CHANGED" =>
                                      u.profiles[q].state[f] = "FIELD_CHANGED"
  <2>1. Alike(v.profiles[q], u.profiles[q]) /\ Alike(w.profiles[q], v.profiles[q])
    BY DEF Onward
  <2>2. Alike(w.profiles[q], u.profiles[q])
    BY <2>1 DEF Alike
  <2> QED
    BY <2>2 DEF Onward
<1>2. u.items \in Seq(Writes) => w.items \in Seq(Writes)
  BY DEF Onward
<1>3. ASSUME NEW q \in Handles, NEW d \in DriveType, NEW e \in DriveType,
             ~HasChangesPending(u.profiles[q]), Runs(d, u.items, e)
      PROVE  \E e2 \in DriveType : Runs(d, w.items, e2) /\ e2.task[q] = e.task[q]
  <2>1. PICK e1 \in DriveType : Runs(d, v.items, e1) /\ e1.task[q] = e.task[q]
    BY <1>3 DEF Onward
  <2>2. ~HasChangesPending(v.profiles[q])
    BY <1>3, OnwardPending
  <2>3. PICK e2 \in DriveType : Runs(d, w.items, e2) /\ e2.task[q] = e1.task[q]
    BY <2>1, <2>2 DEF Onward
  <2> QED
    BY <2>1, <2>3
<1> QED
  BY <1>1, <1>2, <1>3 DEF Onward

\* WRITE_FIELD_IF_CHANGED sets nothing in motion.
LEMMA FieldWritesOnly ==
    ASSUME NEW pr \in ProfileType, NEW p \in Handles
    PROVE  FieldWrites(pr, p) \in Seq(Writes)
<1>1. ASSUME NEW f \in Fields PROVE WriteIfChanged(pr, p, f) \in Seq(Writes)
  <2> DEFINE x == WriteField(p, f, FieldValue(pr, f))
  <2>1. x \in Writes
    <3>1. FieldValue(pr, f) \in Int
      BY FieldValueType
    <3> QED
      BY <3>1 DEF WriteField, Writes, Queued, Items
  <2> HIDE DEF x
  <2>2. <<x>> \in Seq(Writes) /\ <<>> \in Seq(Writes)
    BY <2>1
  <2> QED
    BY <2>2 DEF WriteIfChanged, x
<1>2. ASSUME NEW s \in Seq(Writes), NEW u \in Seq(Writes) PROVE s \o u \in Seq(Writes)
  OBVIOUS
<1> DEFINE W(f) == WriteIfChanged(pr, p, f)
<1>3. /\ W("O_P") \in Seq(Writes) /\ W("O_V") \in Seq(Writes) /\ W("O_C") \in Seq(Writes)
      /\ W("O_ACC") \in Seq(Writes) /\ W("O_DEC") \in Seq(Writes)
      /\ W("O_TAB") \in Seq(Writes) /\ W("O_FN") \in Seq(Writes)
      /\ W("O_FT") \in Seq(Writes)
  BY <1>1 DEF Fields
<1> HIDE DEF W
<1>4. W("O_P") \o W("O_V") \o W("O_C") \o W("O_ACC") \in Seq(Writes)
  BY <1>2, <1>3
<1>5. W("O_P") \o W("O_V") \o W("O_C") \o W("O_ACC")
         \o W("O_DEC") \o W("O_TAB") \o W("O_FN") \o W("O_FT") \in Seq(Writes)
  BY <1>2, <1>3, <1>4
<1> QED
  BY <1>5 DEF W, FieldWrites

\* One profile that has changes.
LEMMA WriteOneOnward ==
    ASSUME NEW ps, NEW w, Written(w, ps), NEW p \in Handles,
           HasChangesPending(w.profiles[p])
    PROVE  Onward(w, WriteOne(w, p)) /\ ~HasChangesPending(WriteOne(w, p).profiles[p])
<1> DEFINE pr == w.profiles[p]
           st == [f \in Fields |-> IF pr.state[f] = "FIELD_CHANGED" THEN "FIELD_WRITING"
                                                                   ELSE pr.state[f]]
           new == [pr EXCEPT !.never_sent = FALSE, !.state = st]
           load == ~pr.never_sent /\ w.current # p
           first == IF load THEN <<Command("load", p)>> ELSE <<>>
           fields == FieldWrites(pr, p)
           last == <<Command("store", p)>>
           g == WriteOne(w, p)
<1>1. /\ g.profiles = [w.profiles EXCEPT ![p] = new]
      /\ g.items = w.items \o first \o fields \o last
  BY DEF WriteOne
<1>2. w.profiles \in [Handles -> ProfileType] /\ pr \in ProfileType
  BY DEF Written
<1>3. Alike(new, pr) /\ new.state = st
  BY <1>2 DEF ProfileType, Alike
<1>4. \A f \in Fields : st[f] # "FIELD_CHANGED"
  OBVIOUS
<1> HIDE DEF st, new
<1>5. \A q \in Handles : g.profiles[q] = IF q = p THEN new ELSE w.profiles[q]
  BY <1>1, <1>2
<1>6. ASSUME NEW q \in Handles
      PROVE  /\ Alike(g.profiles[q], w.profiles[q])
             /\ \A f \in Fields : g.profiles[q].state[f] = "FIELD_CHANGED" =>
                                      w.profiles[q].state[f] = "FIELD_CHANGED"
  <2>1. CASE q = p
    BY <1>3, <1>4, <1>5, <2>1
  <2>2. CASE q # p
    <3>1. g.profiles[q] = w.profiles[q]
      BY <1>5, <2>2
    <3> QED
      BY <3>1 DEF Alike
  <2> QED
    BY <2>1, <2>2
<1>7. ~HasChangesPending(g.profiles[p])
  BY <1>3, <1>4, <1>5 DEF HasChangesPending
<1>8. w.items \in Seq(Writes) => g.items \in Seq(Writes)
  <2>1. Command("load", p) \in Writes /\ Command("store", p) \in Writes
    BY DEF Command, Writes, Queued, Items
  <2>2. first \in Seq(Writes) /\ last \in Seq(Writes)
    BY <2>1
  <2>3. fields \in Seq(Writes)
    BY <1>2, FieldWritesOnly
  <2> HIDE DEF first, fields, last, load
  <2> QED
    BY <1>1, <2>2, <2>3
<1> HIDE DEF first, fields, last, load
<1>9. ASSUME NEW q \in Handles, NEW d \in DriveType, NEW e \in DriveType,
             ~HasChangesPending(w.profiles[q]), Runs(d, w.items, e)
      PROVE  \E e2 \in DriveType : Runs(d, g.items, e2) /\ e2.task[q] = e.task[q]
  <2>1. PICK e3 \in DriveType : Runs(d, WriteOne(w, p).items, e3) /\ Stored(w, p, e, e3)
    BY <1>9, WriteOneRuns
  <2>2. q # p
    BY <1>9
  <2> QED
    BY <2>1, <2>2 DEF Stored
<1> HIDE DEF g
<1>10. Onward(w, g)
  BY <1>6, <1>8, <1>9 DEF Onward
<1> QED
  BY <1>7, <1>10 DEF g

\* One call.
LEMMA CallOnward ==
    ASSUME NEW ps, NEW c, Written(c.w, ps), c.at \in Handles \cup {-1}
    PROVE  LET n == CallAgain(c)
           IN  /\ Written(n.w, ps) /\ n.at \in Handles \cup {-1} /\ Onward(c.w, n.w)
               /\ c.at = -1 => n.at = -1 /\ n.w = c.w
<1> DEFINE n == CallAgain(c)
<1>1. CASE c.at < 0 \/ ~HasChangesPending(c.w.profiles[c.at])
  <2>1. n = [w |-> c.w, at |-> -1]
    BY <1>1 DEF CallAgain
  <2>2. n.w = c.w /\ n.at = -1
    BY <2>1
  <2> QED
    BY <2>2, OnwardNothing
<1>2. CASE ~(c.at < 0 \/ ~HasChangesPending(c.w.profiles[c.at]))
  <2>1. c.at \in Handles /\ c.at # -1
    BY <1>2
  <2>2. n = [w |-> WriteOne(c.w, c.at), at |-> c.w.profiles[c.at].next_profile]
    BY <1>2 DEF CallAgain
  <2>3. n.w = WriteOne(c.w, c.at) /\ n.at = c.w.profiles[c.at].next_profile
    BY <2>2
  <2>4. Written(WriteOne(c.w, c.at), ps) /\ Onward(c.w, WriteOne(c.w, c.at))
    BY <1>2, <2>1, WriteOneWritten, WriteOneOnward
  <2>5. c.w.profiles[c.at].next_profile \in Handles \cup {-1}
    BY <2>1 DEF Written, ProfileType
  <2> QED
    BY <2>1, <2>3, <2>4, <2>5
<1> QED
  BY <1>1, <1>2

\* The calls that follow the i-th, which finds v and is for profile at.
Reached(h, i, v, at) == /\ i \in 0..NProfiles /\ at \in Handles \cup {-1}
                        /\ h[i].w = v /\ h[i].at = at

LEMMA ChainFrom ==
    ASSUME NEW ps, NEW start, NEW p, NEW h, IsChain(h, start, p, NProfiles),
           NEW i, NEW v, NEW at, Reached(h, i, v, at), Written(v, ps)
    PROVE  /\ Written(h[NProfiles].w, ps) /\ Onward(v, h[NProfiles].w)
           /\ at \notin Handles => h[NProfiles].w = v
<1> USE DEF Reached
<1> DEFINE OK(c) == /\ Written(c.w, ps) /\ c.at \in Handles \cup {-1}
                    /\ Onward(h[i].w, c.w)
                    /\ h[i].at = -1 => c.at = -1 /\ c.w = h[i].w
           N == {n \in Nat : i + n <= NProfiles => OK(h[i + n])}
<1>1. 0 \in N
  BY OnwardNothing, NProfilesAssumption
<1>2. ASSUME NEW c, OK(c) PROVE OK(CallAgain(c))
  <2> DEFINE n == CallAgain(c)
  <2>1. /\ Written(n.w, ps) /\ n.at \in Handles \cup {-1} /\ Onward(c.w, n.w)
        /\ c.at = -1 => n.at = -1 /\ n.w = c.w
    BY <1>2, CallOnward
  <2> HIDE DEF n
  <2>2. Onward(h[i].w, n.w)
    BY <1>2, <2>1, OnwardTwice
  <2>3. OK(n)
    BY <1>2, <2>1, <2>2
  <2> QED
    BY <2>3 DEF n
<1>3. ASSUME NEW n \in Nat, n \in N PROVE n + 1 \in N
  <2>1. CASE i + (n + 1) <= NProfiles
    <3>1. /\ i + (n + 1) \in 0..NProfiles /\ i + (n + 1) # 0 /\ i + n <= NProfiles
          /\ i + (n + 1) - 1 = i + n
      BY <2>1, NProfilesAssumption
    <3>2. h[i + (n + 1)] = CallAgain(h[i + n])
      BY <3>1 DEF IsChain
    <3>3. OK(h[i + n])
      BY <1>3, <3>1
    <3> HIDE DEF OK
    <3> QED
      BY <1>2, <3>2, <3>3
  <2> QED
    BY <2>1
<1> HIDE DEF N
<1>4. NProfiles - i \in Nat /\ i + (NProfiles - i) = NProfiles
  BY NProfilesAssumption
<1>5. NProfiles - i \in N
  BY <1>1, <1>3, <1>4, NatInductionOnSet
<1> HIDE DEF OK
<1>6. OK(h[NProfiles])
  <2>1. i + (NProfiles - i) <= NProfiles => OK(h[i + (NProfiles - i)])
    BY <1>5 DEF N
  <2> QED
    BY <1>4, <2>1, NProfilesAssumption
<1> QED
  BY <1>6 DEF OK

\* The whole chain: the profile and the next one have no changes left, and
\* what was changed of the profile is in the drive.
LEMMA ChainOnward ==
    ASSUME NEW ps, NEW start, Written(start, ps), NEW p \in Handles
    PROVE  LET w == WriteChain(start, p)
               pr == start.profiles[p]
           IN  /\ Written(w, ps) /\ Onward(start, w)
               /\ ~HasChangesPending(pr) => w = start
               /\ ~HasChangesPending(w.profiles[p])
               /\ HasChangesPending(pr) /\ pr.next_profile \in Handles =>
                      ~HasChangesPending(w.profiles[pr.next_profile])
               /\ HasChangesPending(pr) =>
                      \A d, e \in DriveType : Runs(d, start.items, e) =>
                          \E e2 \in DriveType :
                             /\ Runs(d, w.items, e2)
                             /\ \A f \in Fields : pr.state[f] = "FIELD_CHANGED" =>
                                                      e2.task[p][f] = FieldValue(pr, f)
<1> DEFINE w == WriteChain(start, p)
           pr == start.profiles[p]
           n == pr.next_profile
<1>1. PICK h : IsChain(h, start, p, NProfiles) /\ w = h[NProfiles].w
  BY ChainIs
<1> HIDE DEF w
<1>2. NProfiles \in Nat /\ 0 \in 0..NProfiles /\ 1 \in 0..NProfiles /\ 2 \in 0..NProfiles
  BY NProfilesAssumption, SinusoidAssumption
<1>3. h[0] = [w |-> start, at |-> p] /\ h[1] = CallAgain(h[0]) /\ h[2] = CallAgain(h[1])
  <2>1. 1 # 0 /\ 2 # 0 /\ 1 - 1 = 0 /\ 2 - 1 = 1
    OBVIOUS
  <2> QED
    BY <1>1, <1>2, <2>1 DEF IsChain
<1>4. Reached(h, 0, start, p)
  BY <1>2, <1>3 DEF Reached
<1>5. Written(w, ps) /\ Onward(start, w)
  BY <1>1, <1>4, ChainFrom
<1>6. p # -1 /\ ~(p < 0)
  BY NProfilesAssumption DEF Handles
<1>7. CASE ~HasChangesPending(pr)
  <2>1. h[1] = [w |-> start, at |-> -1]
    BY <1>3, <1>7 DEF CallAgain
  <2>2. Reached(h, 1, start, -1) /\ -1 \notin Handles
    BY <1>2, <2>1, BuiltInHandles DEF Reached
  <2>3. w = start
    BY <1>1, <2>2, ChainFrom
  <2> QED
    BY <1>5, <1>7, <2>3 DEF w
<1>8. CASE HasChangesPending(pr)
  <2> DEFINE w1 == WriteOne(start, p)
  <2>1. h[1] = [w |-> w1, at |-> n]
    BY <1>3, <1>6, <1>8 DEF CallAgain
  <2>2. h[1].w = w1 /\ h[1].at = n
    BY <2>1
  <2>3. n \in Handles \cup {-1}
    BY DEF Written, ProfileType
  <2>4. /\ Written(w1, ps) /\ Onward(start, w1) /\ ~HasChangesPending(w1.profiles[p])
    BY <1>8, WriteOneWritten, WriteOneOnward
  <2>5. Onward(w1, w)
    <3> HIDE DEF w1, n
    <3>1. Reached(h, 1, w1, n)
      BY <1>2, <2>2, <2>3 DEF Reached
    <3> QED
      BY <1>1, <2>4, <3>1, ChainFrom
  <2>6. ~HasChangesPending(w.profiles[p])
    BY <2>4, <2>5, OnwardPending
  <2>7. ASSUME n \in Handles PROVE ~HasChangesPending(w.profiles[n])
    <3>1. CASE ~HasChangesPending(w1.profiles[n])
      BY <2>5, <2>7, <3>1, OnwardPending
    <3>2. CASE HasChangesPending(w1.profiles[n])
      <4> DEFINE w2 == WriteOne(w1, n)
                 m == w1.profiles[n].next_profile
      <4>1. ~(n < 0)
        BY <2>7, NProfilesAssumption DEF Handles
      <4> HIDE DEF w1
      <4>2. h[2] = [w |-> w2, at |-> m]
        BY <1>3, <2>2, <3>2, <4>1 DEF CallAgain
      <4>3. h[2].w = w2 /\ h[2].at = m
        BY <4>2
      <4>4. m \in Handles \cup {-1}
        BY <2>4, <2>7 DEF Written, ProfileType
      <4>5. Written(w2, ps) /\ ~HasChangesPending(w2.profiles[n])
        BY <2>4, <2>7, <3>2, WriteOneWritten, WriteOneOnward
      <4>6. Onward(w2, w)
        <5> HIDE DEF w2, m
        <5>1. Reached(h, 2, w2, m)
          BY <1>2, <4>3, <4>4 DEF Reached
        <5> QED
          BY <1>1, <4>5, <5>1, ChainFrom
      <4> QED
        BY <2>7, <4>5, <4>6, OnwardPending
    <3> QED
      BY <3>1, <3>2
  <2>8. ASSUME NEW d \in DriveType, NEW e \in DriveType, Runs(d, start.items, e)
        PROVE  \E e2 \in DriveType :
                  /\ Runs(d, w.items, e2)
                  /\ \A f \in Fields : pr.state[f] = "FIELD_CHANGED" =>
                                           e2.task[p][f] = FieldValue(pr, f)
    <3>1. PICK e1 \in DriveType : Runs(d, w1.items, e1) /\ Stored(start, p, e, e1)
      BY <2>8, WriteOneRuns
    <3>2. \A f \in Fields : pr.state[f] = "FIELD_CHANGED" =>
                                e1.task[p][f] = FieldValue(pr, f)
      BY <3>1 DEF Stored
    <3> HIDE DEF w1
    <3>3. PICK e2 \in DriveType : Runs(d, w.items, e2) /\ e2.task[p] = e1.task[p]
      BY <2>4, <2>5, <2>8, <3>1 DEF Onward
    <3> QED
      BY <3>2, <3>3
  <2> HIDE DEF w1
  <2> QED
    BY <1>5, <1>8, <2>6, <2>7, <2>8 DEF w
<1> QED
  BY <1>7, <1>8

-----------------------------------------------------------------------------
\* w is what a command has written of the profiles ps.
Good(ps, w) ==
    /\ Written(w, ps) /\ Onward(NothingWritten(ps), w)
    /\ \A d \in DriveType : \A bad : Lands(NothingWritten(ps), d, bad) => Lands(w, d, bad)

\* Nothing.
LEMMA GoodNothing ==
    ASSUME TypeInv, NEW ps \in [Handles -> ProfileType]
    PROVE  Good(ps, NothingWritten(ps))
BY NothingIsWritten, OnwardNothing DEF Good

\* The changes of one profile, and of the ones it leads to.
LEMMA GoodChain ==
    ASSUME NEW ps, NEW w, Good(ps, w), NEW p \in Handles
    PROVE  Good(ps, WriteChain(w, p))
<1>1. Written(w, ps) /\ Onward(NothingWritten(ps), w)
  BY DEF Good
<1>2. Written(WriteChain(w, p), ps) /\ Onward(w, WriteChain(w, p))
  BY <1>1, ChainOnward
<1>3. Onward(NothingWritten(ps), WriteChain(w, p))
  BY <1>1, <1>2, OnwardTwice
<1>4. ASSUME NEW d \in DriveType, NEW bad, Lands(NothingWritten(ps), d, bad)
      PROVE  Lands(WriteChain(w, p), d, bad)
  <2>1. Lands(w, d, bad)
    BY <1>4 DEF Good
  <2> QED
    BY <1>1, <2>1, ChainLands
<1> QED
  BY <1>2, <1>3, <1>4 DEF Good

\* Executed twice, the same.
LEMMA RunsSame ==
    ASSUME NEW S, NEW s \in Seq(S), NEW d, NEW a, NEW b, Runs(d, s, a), Runs(d, s, b)
    PROVE  a = b
<1>1. PICK t : IsRun(t, d, s) /\ a = t[Len(s)]
  BY DEF Runs
<1> QED
  BY <1>1, RunsUnique

\* What is queued is in flight, if it is anything.
LEMMA PushAny ==
    ASSUME PInv, NEW items \in Seq(Queued), Push(items), UNCHANGED sdo
    PROVE  /\ active' \in Items /\ queue' \in Seq(Items)
           /\ NoRest'
           /\ sdo = "enabled" => \/ InFlight' = InFlight \o items
                                 \/ InFlight = <<NoItem>> /\ InFlight' = items
<1>1. CASE items # <<>>
  BY <1>1, PushInFlight
<1>2. CASE items = <<>>
  <2>1. active \in Items /\ queue \in Seq(Items)
    BY DEF PInv, TypeInv
  <2>2. queue \o <<>> = queue
    BY <2>1
  <2>3. active' = active /\ queue' = queue
    BY <1>2, <2>2 DEF Push
  <2>4. InFlight \o <<>> = InFlight
    <3>1. InFlight \in Seq(Items)
      BY <2>1 DEF InFlight
    <3> QED
      BY <3>1
  <2> QED
    BY <1>2, <2>1, <2>3, <2>4 DEF InFlight, PInv, NoRest
<1> QED
  BY <1>1, <1>2

-----------------------------------------------------------------------------
(***************************************************************************)
(* The inductive invariant.  In touch with the drive, and if no writes     *)
(* were lost when the sled became operational:                             *)
(***************************************************************************)
Live == InTouch /\ wish # "cut"

\* A drive that is told to stop will.
Obeys(e, k, bad) ==
    /\ k = "stop" => AfterIn(e, There) = -1
    /\ k = "rstop" => /\ AfterIn(e, There) = RBack
                      /\ RBack \notin bad => AfterIn(e, RBack) = -1

\* The oscillation that starts with task p is complete.
Closed(e, p, bad) ==
    {There, Back, p} \cap bad = {} =>
        /\ p \in {There, RThere}
        /\ AfterIn(e, There) = Back /\ AfterIn(e, Back) = There
        /\ p = RThere => AfterIn(e, RThere) = Back

\* When everything in flight has been executed, the drive fits the profiles
\* that are not tainted, and does what it was told last;
LiveFit ==
    Live => \E e \in DriveType : /\ Runs(drive, InFlight, e)
                                 /\ AllFit(e, profiles, owner, tainted)
                                 /\ Obeys(e, wish, tainted)

\* no write of a field that has changed since is in flight;
LiveNone ==
    Live => \A p \in Handles, f \in Fields :
               profiles[p].in_use /\ p \notin tainted /\ ~NoWrites(InFlight, p, f) =>
                   profiles[p].state[f] # "FIELD_CHANGED"

\* by the time it is set in motion, the oscillation is complete;
LiveRuns ==
    Live => \A t : IsRun(t, drive, InFlight) =>
               \A i \in 1..Len(InFlight) :
                  InFlight[i].op = "run" => Closed(t[i], InFlight[i].p, tainted)

\* as long as there was no command, nothing is written;
Fresh ==
    Live /\ wish = "none" =>
        /\ InFlight = <<NoItem>>
        /\ \A p \in BuiltIn, f \in Fields : profiles[p].state[f] = "FIELD_CHANGED"

\* the way there leads away from the oscillation only if that was the wish, and
\* then it was written;
Told ==
    Live /\ wish # "none" /\ profiles[There].next_profile # Back =>
        /\ wish = IF profiles[There].next_profile = -1 THEN "stop" ELSE "rstop"
        /\ ~HasChangesPending(profiles[There])

\* and if the way there leads back and was written, so was the link of the way
\* back: start writes the second only if there is a change in the first.
Closable ==
    Live /\ wish # "none" /\ There \notin tainted
         /\ profiles[There].next_profile = Back /\ ~HasChangesPending(profiles[There]) =>
        /\ profiles[Back].next_profile = There
        /\ \A f \in Links : profiles[Back].state[f] # "FIELD_CHANGED"

\* At any time: commands are not heeded before the sled is operational.
Static == /\ PInv /\ drive \in DriveType /\ Laid(profiles)
          /\ net = "down" => sdo # "enabled"
          /\ wish # "none" => net = "oper"

SInv == Static /\ LiveFit /\ LiveNone /\ LiveRuns /\ Fresh /\ Told /\ Closable

\* Nothing more is promised when not in touch.
LEMMA SInvOut == ASSUME Static', ~Live' PROVE SInv'
BY DEF SInv, LiveFit, LiveNone, LiveRuns, Fresh, Told, Closable

-----------------------------------------------------------------------------
\* What is queued for w: its writes, and perhaps the start of a motion.
Goes(w, items) ==
    \/ items = w.items
    \/ \E p \in Handles : items = Append(w.items, Command("run", p))

\* A command.
Commanded(ps, w, items) ==
    /\ Edits(ps) /\ Good(ps, w) /\ Goes(w, items) /\ Edited(ps, w) /\ Push(items)
    /\ UNCHANGED <<net, sdo, status, drive>>
    /\ wish' = "cut" <=> wish = "cut"
    /\ wish' # "none" => net = "oper"

\* The start of a motion writes nothing.
LEMMA GoesWrites ==
    ASSUME NEW ps, NEW w, Written(w, ps), NEW items, Goes(w, items)
    PROVE  /\ items \in Seq(Queued)
           /\ \A q, f, v : /\ NoWrites(items, q, f) <=> NoWrites(w.items, q, f)
                           /\ AllWrite(items, q, f, v) <=> AllWrite(w.items, q, f, v)
           /\ \A d, e : Runs(d, w.items, e) => Runs(d, items, e)
<1>1. w.items \in Seq(Queued)
  BY DEF Written
<1>2. CASE items = w.items
  BY <1>1, <1>2
<1>3. ASSUME NEW p \in Handles, items = Append(w.items, Command("run", p))
      PROVE  /\ items \in Seq(Queued)
             /\ \A q, f, v : /\ NoWrites(items, q, f) <=> NoWrites(w.items, q, f)
                             /\ AllWrite(items, q, f, v) <=> AllWrite(w.items, q, f, v)
             /\ \A d, e : Runs(d, w.items, e) => Runs(d, items, e)
  <2> DEFINE run == <<Command("run", p)>>
  <2>1. /\ run \in Seq(Queued)
        /\ \A q, f, v : NoWrites(run, q, f) /\ AllWrite(run, q, f, v)
    BY CommandWrites
  <2>2. items = w.items \o run
    <3>1. Command("run", p) \in Queued
      BY DEF Command, Queued, Items
    <3> QED
      BY <1>1, <1>3, <3>1
  <2>3. \A d : Runs(d, run, d)
    <3>1. \A d : Done(d, Command("run", p)) = d
      BY DEF Done, Command
    <3> QED
      BY <3>1, RunsOne
  <2> HIDE DEF run
  <2>4. /\ items \in Seq(Queued)
        /\ \A q, f, v : /\ NoWrites(items, q, f) <=> NoWrites(w.items, q, f)
                        /\ AllWrite(items, q, f, v) <=> AllWrite(w.items, q, f, v)
    BY <1>1, <2>1, <2>2, ConcatWrites
  <2>5. ASSUME NEW d, NEW e, Runs(d, w.items, e) PROVE Runs(d, items, e)
    BY <1>1, <2>1, <2>2, <2>3, <2>5, RunsBoth
  <2> QED
    BY <2>4, <2>5
<1> QED
  BY <1>2, <1>3 DEF Goes

\* In flight: what was, and what is queued.
LEMMA CommandPush ==
    ASSUME PInv, NEW ps, NEW w, NEW items, Commanded(ps, w, items)
    PROVE  /\ active' \in Items /\ queue' \in Seq(Items) /\ NoRest'
           /\ InFlight \in Seq(Items) /\ items \in Seq(Items)
           /\ sdo = "enabled" => \/ InFlight' = InFlight \o items
                                 \/ InFlight = <<NoItem>> /\ InFlight' = items
<1>1. items \in Seq(Queued) /\ Push(items) /\ sdo' = sdo
  BY GoesWrites DEF Commanded, Good
<1>2. items \in Seq(Items)
  BY <1>1 DEF Queued
<1>3. InFlight \in Seq(Items)
  BY DEF InFlight, PInv, TypeInv
<1> QED
  BY <1>1, <1>2, <1>3, PushAny

\* What holds at any time still does.
LEMMA CommandStatic ==
    ASSUME Static, NEW ps, NEW w, NEW items, Commanded(ps, w, items)
    PROVE  Static' /\ Live' = Live
<1>1. /\ Edits(ps) /\ Written(w, ps) /\ Onward(NothingWritten(ps), w) /\ Goes(w, items)
      /\ profiles' = w.profiles /\ current' = w.current /\ net' = net /\ sdo' = sdo
      /\ status' = status /\ drive' = drive
  BY DEF Commanded, Good, Edited
<1>2. /\ items \in Seq(Queued)
      /\ \A q, f, v : /\ NoWrites(items, q, f) <=> NoWrites(w.items, q, f)
                      /\ AllWrite(items, q, f, v) <=> AllWrite(w.items, q, f, v)
  BY <1>1, GoesWrites
<1>3. /\ active' \in Items /\ queue' \in Seq(Items) /\ NoRest'
      /\ InFlight \in Seq(Items)
      /\ sdo = "enabled" => \/ InFlight' = InFlight \o items
                            \/ InFlight = <<NoItem>> /\ InFlight' = items
  BY CommandPush DEF Static
<1>4. TypeInv'
  BY <1>1, <1>3 DEF Static, PInv, TypeInv, Written
<1>5. InTouch' = InTouch /\ Live' = Live
  BY <1>1 DEF InTouch, Running, Live, Commanded
<1>6. ASSUME InTouch, NEW q \in Handles PROVE UnderWay(InFlight', profiles'[q], q)
  <2>1. UnderWay(InFlight, profiles[q], q)
    BY <1>6 DEF Static, PInv, AllUnderWay
  <2>2. UnderWay(InFlight, ps[q], q)
    BY <1>1, <2>1, UnderWayMarks DEF Edits
  <2>3. CASE InFlight' = InFlight \o items
    BY <1>1, <1>2, <1>3, <2>2, <2>3, UnderWayQueued
  <2>4. CASE InFlight = <<NoItem>> /\ InFlight' = items
    <3>1. UnderWay(<<>>, ps[q], q)
      <4>1. ASSUME NEW f, NEW v PROVE ~LastWrites(<<NoItem>>, q, f, v)
        BY NoItemType DEF LastWrites
      <4> QED
        BY <2>2, <2>4, <4>1 DEF UnderWay
    <3>2. UnderWay(<<>> \o items, w.profiles[q], q)
      BY <1>1, <1>2, <3>1, UnderWayQueued, <<>> \in Seq(Items)
    <3>3. <<>> \o items = items
      BY <1>2
    <3> QED
      BY <1>1, <2>4, <3>2, <3>3
  <2> QED
    BY <1>3, <1>6, <2>3, <2>4 DEF InTouch
<1>7. PInv'
  BY <1>3, <1>4, <1>5, <1>6 DEF PInv, AllUnderWay
<1>8. Laid(profiles')
  <2>1. Laid(ps) /\ NothingWritten(ps).profiles = ps
    BY <1>1 DEF Edits, NothingWritten
  <2>2. \A q \in Handles : Alike(profiles'[q], ps[q])
    BY <1>1, <2>1 DEF Onward
  <2>3. ASSUME NEW q \in BuiltIn PROVE Alike(profiles'[q], ps[q])
    BY <2>2, BuiltInHandles
  <2>4. BuiltIn = {There, RThere, Back, RBack}
    BY DEF BuiltIn
  <2> QED
    BY <2>1, <2>3, <2>4 DEF Laid, Alike
<1>9. (net = "down" => sdo # "enabled")' /\ (wish # "none" => net = "oper")'
  BY <1>1 DEF Static, Commanded
<1> QED
  BY <1>1, <1>5, <1>7, <1>8, <1>9 DEF Static

\* The drive that has nothing to execute stays as it is.
LEMMA RunsIdle == ASSUME NEW d, NEW e, Runs(d, <<NoItem>>, e) PROVE e = d
<1> DEFINE one == <<NoItem>>
<1>1. Len(one) = 1 /\ one[1] = NoItem /\ 1 \in 1..1 /\ 1 - 1 = 0
  OBVIOUS
<1> HIDE DEF one
<1>2. Runs(d, one, e)
  BY DEF one
<1>3. e = Done(d, NoItem)
  BY <1>1, <1>2 DEF Runs, IsRun
<1> QED
  BY <1>3 DEF Done, NoItem, Command

\* When the command has been executed too, the drive fits again.
LEMMA CommandFits ==
    ASSUME Static, LiveFit, Live, NEW ps, NEW w, NEW items, Commanded(ps, w, items)
    PROVE  \E d \in DriveType : \E e \in DriveType :
              /\ Runs(drive, InFlight, d) /\ Obeys(d, wish, tainted)
              /\ Runs(d, w.items, e) /\ Runs(drive', InFlight', e)
              /\ AllFit(e, profiles', owner', tainted')
<1>1. /\ Edits(ps) /\ Written(w, ps) /\ Goes(w, items)
      /\ profiles' = w.profiles /\ owner' = w.owner /\ drive' = drive
      /\ tainted' = tainted \cup w.mixed
                       \cup {p \in Handles : ps[p] # profiles[p] /\ Pending(p)}
  BY DEF Commanded, Good, Edited
<1>2. PICK d \in DriveType : /\ Runs(drive, InFlight, d)
                             /\ AllFit(d, profiles, owner, tainted)
                             /\ Obeys(d, wish, tainted)
  BY DEF LiveFit
<1> DEFINE start == NothingWritten(ps)
           bad == tainted \cup {p \in Handles : ps[p] # profiles[p] /\ Pending(p)}
<1>3. start.items = <<>> /\ start.profiles = ps /\ start.owner = owner /\ start.mixed = {}
  BY DEF NothingWritten
<1>4. \A b : Lands(start, d, b) => Lands(w, d, b)
  BY DEF Commanded, Good
<1> HIDE DEF start
<1>5. Lands(start, d, bad)
  <2>1. Runs(d, start.items, d)
    BY <1>3, RunsNothing
  <2>2. ASSUME NEW p \in Handles, ps[p].in_use, p \notin tainted
        PROVE  Fits(d, ps[p], owner, p)
    <3>1. MarksChanges(profiles[p], ps[p])
      BY <1>1 DEF Edits
    <3>2. Fits(d, profiles[p], owner, p)
      BY <1>2, <2>2, <3>1 DEF AllFit, MarksChanges
    <3> QED
      BY <3>1, <3>2 DEF Fits, MarksChanges
  <2>3. AllFit(d, start.profiles, start.owner, bad \cup start.mixed)
    BY <1>3, <2>2 DEF AllFit
  <2> QED
    BY <2>1, <2>3 DEF Lands
<1>6. PICK e \in DriveType : /\ Runs(d, w.items, e)
                             /\ AllFit(e, w.profiles, w.owner, bad \cup w.mixed)
  BY <1>4, <1>5 DEF Lands
<1>7. bad \cup w.mixed = tainted'
  BY <1>1
<1> HIDE DEF bad
<1>8. Runs(d, items, e)
  BY <1>1, <1>6, GoesWrites
<1>9. Runs(drive, InFlight', e)
  <2>1. /\ InFlight \in Seq(Items) /\ items \in Seq(Items)
        /\ InFlight' = InFlight \o items \/ (InFlight = <<NoItem>> /\ InFlight' = items)
    BY CommandPush DEF Static, Live, InTouch
  <2>2. CASE InFlight' = InFlight \o items
    BY <1>2, <1>8, <2>1, <2>2, RunsBoth
  <2>3. CASE InFlight = <<NoItem>> /\ InFlight' = items
    <3>1. d = drive
      BY <1>2, <2>3, RunsIdle
    <3> QED
      BY <1>8, <2>3, <3>1
  <2> QED
    BY <2>1, <2>2, <2>3
<1> QED
  BY <1>1, <1>2, <1>6, <1>7, <1>9

\* No write of a field that was changed since is in flight.
LEMMA CommandNone ==
    ASSUME Static, LiveNone, NEW ps, NEW w, NEW items, Commanded(ps, w, items)
    PROVE  LiveNone'
<1> SUFFICES ASSUME Live', NEW q \in Handles, NEW f \in Fields, profiles'[q].in_use,
                    q \notin tainted', ~NoWrites(InFlight', q, f)
             PROVE  profiles'[q].state[f] # "FIELD_CHANGED"
  BY DEF LiveNone
<1>1. /\ Edits(ps) /\ Written(w, ps) /\ Goes(w, items) /\ profiles' = w.profiles
      /\ tainted' = tainted \cup w.mixed
                       \cup {p \in Handles : ps[p] # profiles[p] /\ Pending(p)}
  BY DEF Commanded, Good, Edited
<1>2. Live /\ sdo = "enabled"
  <2>1. Live
    BY CommandStatic
  <2> QED
    BY <2>1 DEF Live, InTouch
<1>3. /\ InFlight \in Seq(Items) /\ items \in Seq(Items)
      /\ InFlight' = InFlight \o items \/ InFlight' = items
  BY <1>2, CommandPush DEF Static
<1>4. WrittenField(w, ps, q, f) /\ w.profiles[q].in_use = ps[q].in_use
  BY <1>1 DEF Written
<1>5. NoWrites(items, q, f) <=> NoWrites(w.items, q, f)
  BY <1>1, GoesWrites
<1>6. CASE ~NoWrites(items, q, f)
  BY <1>1, <1>4, <1>5, <1>6 DEF WrittenField
<1>7. CASE NoWrites(items, q, f)
  <2>1. ~NoWrites(InFlight, q, f)
    <3>1. CASE InFlight' = InFlight \o items
      BY <1>3, <1>7, <3>1, ConcatWrites
    <3>2. CASE InFlight' = items
      BY <1>7, <3>2
    <3> QED
      BY <1>3, <3>1, <3>2
  <2>2. Pending(q)
    BY <2>1, NotPending
  <2>3. ps[q] = profiles[q] /\ q \notin tainted
    BY <1>1, <2>2
  <2>4. profiles[q].state[f] # "FIELD_CHANGED"
    BY <1>1, <1>2, <1>4, <2>1, <2>3 DEF LiveNone
  <2> QED
    BY <1>1, <1>4, <2>3, <2>4 DEF WrittenField
<1> QED
  BY <1>6, <1>7

\* What is taken to be incomplete still is.
LEMMA ClosedLess ==
    ASSUME NEW e, NEW p, NEW a, NEW b, a \subseteq b, Closed(e, p, a)
    PROVE  Closed(e, p, b)
<1>1. {There, Back, p} \cap b = {} => {There, Back, p} \cap a = {}
  OBVIOUS
<1> QED
  BY <1>1 DEF Closed

\* The command that sets the sled in motion comes last, if there is one.
LEMMA GoesRuns ==
    ASSUME NEW ps, NEW w, Good(ps, w), NEW items, Goes(w, items),
           NEW i \in 1..Len(items), items[i].op = "run"
    PROVE  i = Len(items) /\ items = Append(w.items, Command("run", items[i].p))
<1>1. w.items \in Seq(Writes)
  <2>1. NothingWritten(ps).items \in Seq(Writes)
    BY DEF NothingWritten
  <2> QED
    BY <2>1 DEF Good, Onward
<1>2. \A j \in 1..Len(w.items) : w.items[j].op # "run"
  <2>1. \A x \in Writes : x.op # "run"
    BY DEF Writes
  <2> QED
    BY <1>1, <2>1
<1>3. PICK p \in Handles : items = Append(w.items, Command("run", p))
  BY <1>2 DEF Goes
<1> DEFINE x == Command("run", p)
<1>4. x \in Items /\ x.p = p
  BY DEF Command, Items
<1> HIDE DEF x
<1>5. /\ Len(w.items) \in Nat /\ Len(items) = Len(w.items) + 1
      /\ items[Len(w.items) + 1] = x
      /\ \A j \in 1..Len(w.items) : items[j] = w.items[j]
  BY <1>1, <1>3 DEF x
<1>6. i = Len(items)
  BY <1>2, <1>5
<1> QED
  BY <1>3, <1>4, <1>5, <1>6 DEF x

\* If it is complete then, all is well.
LEMMA CommandRuns ==
    ASSUME Static, LiveRuns, NEW ps, NEW w, NEW items, Commanded(ps, w, items),
           NEW e, Live => Runs(drive', InFlight', e),
           \A p \in Handles : Live /\ items = Append(w.items, Command("run", p)) =>
                                  Closed(e, p, tainted')
    PROVE  LiveRuns'
<1> SUFFICES ASSUME Live', NEW t, IsRun(t, drive', InFlight'),
                    NEW i \in 1..Len(InFlight'), InFlight'[i].op = "run"
             PROVE  Closed(t[i], InFlight'[i].p, tainted')
  BY DEF LiveRuns
<1>1. Good(ps, w) /\ Goes(w, items) /\ drive' = drive /\ tainted \subseteq tainted'
  BY DEF Commanded, Edited
<1>2. Live /\ sdo = "enabled"
  <2>1. Live
    BY CommandStatic
  <2> QED
    BY <2>1 DEF Live, InTouch
<1>3. /\ InFlight \in Seq(Items) /\ items \in Seq(Items)
      /\ \/ InFlight' = InFlight \o items
         \/ InFlight = <<NoItem>> /\ InFlight' = items
  BY <1>2, CommandPush DEF Static
<1>4. InFlight' \in Seq(Items)
  <2>1. \A a \in Seq(Items), b \in Seq(Items) : a \o b \in Seq(Items)
    OBVIOUS
  <2> QED
    BY <1>3, <2>1
<1>5. t[Len(InFlight')] = e
  BY <1>2, <1>4, RunsUnique
<1>6. ASSUME NEW j \in 1..Len(items), InFlight'[i] = items[j],
             i = Len(InFlight') <=> j = Len(items)
      PROVE  Closed(t[i], InFlight'[i].p, tainted')
  <2>1. j = Len(items) /\ items = Append(w.items, Command("run", items[j].p))
    BY <1>1, <1>6, GoesRuns
  <2>2. items[j].p \in Handles
    <3>1. items[j] \in Items
      BY <1>3
    <3> QED
      BY <3>1 DEF Items
  <2> QED
    BY <1>2, <1>5, <1>6, <2>1, <2>2
<1>7. CASE InFlight' = InFlight \o items
  <2>1. CASE i <= Len(InFlight)
    <3>1. i \in 1..Len(InFlight) /\ InFlight'[i] = InFlight[i]
      BY <1>3, <1>7, <2>1
    <3>2. IsRun(t, drive, InFlight)
      BY <1>1, <1>3, <1>7, RunOfFirst
    <3>3. Closed(t[i], InFlight[i].p, tainted)
      BY <1>2, <3>1, <3>2 DEF LiveRuns
    <3> QED
      BY <1>1, <3>1, <3>3, ClosedLess
  <2>2. CASE ~(i <= Len(InFlight))
    <3> DEFINE j == i - Len(InFlight)
    <3>1. /\ j \in 1..Len(items) /\ InFlight'[i] = items[j]
          /\ i = Len(InFlight') <=> j = Len(items)
      <4> DEFINE s == InFlight
      <4>1. s \in Seq(Items) /\ i \in 1..Len(s \o items) /\ ~(i <= Len(s))
        BY <1>3, <1>7, <2>2
      <4> HIDE DEF s
      <4>2. /\ i - Len(s) \in 1..Len(items) /\ (s \o items)[i] = items[i - Len(s)]
            /\ i = Len(s \o items) <=> i - Len(s) = Len(items)
        BY <1>3, <4>1
      <4> QED
        BY <1>7, <4>2 DEF s
    <3> HIDE DEF j
    <3> QED
      BY <1>6, <3>1
  <2> QED
    BY <2>1, <2>2
<1>8. CASE InFlight' = items
  BY <1>6, <1>8
<1> QED
  BY <1>3, <1>7, <1>8

\* All there is to show of a command.
LEMMA CommandInv ==
    ASSUME SInv, NEW ps, NEW w, NEW items, Commanded(ps, w, items),
           \A d, e \in DriveType :
              Live /\ Obeys(d, wish, tainted) /\ Runs(d, w.items, e)
                   /\ AllFit(e, profiles', owner', tainted') =>
                  /\ Obeys(e, wish', tainted')
                  /\ \A p \in Handles : items = Append(w.items, Command("run", p)) =>
                                            Closed(e, p, tainted'),
           Fresh', Told', Closable'
    PROVE  SInv'
<1>1. Static /\ LiveFit /\ LiveNone /\ LiveRuns
  BY DEF SInv
<1>2. Static' /\ Live' = Live
  BY <1>1, CommandStatic
<1>3. CASE ~Live
  BY <1>2, <1>3, SInvOut
<1>4. CASE Live
  <2>1. PICK d \in DriveType : \E e \in DriveType :
              /\ Runs(drive, InFlight, d) /\ Obeys(d, wish, tainted)
              /\ Runs(d, w.items, e) /\ Runs(drive', InFlight', e)
              /\ AllFit(e, profiles', owner', tainted')
    BY <1>1, <1>4, CommandFits
  <2>2. PICK e \in DriveType :
              /\ Runs(d, w.items, e) /\ Runs(drive', InFlight', e)
              /\ AllFit(e, profiles', owner', tainted')
    BY <2>1
  <2>3. /\ Obeys(e, wish', tainted')
        /\ \A p \in Handles : items = Append(w.items, Command("run", p)) =>
                                  Closed(e, p, tainted')
    BY <1>4, <2>1, <2>2
  <2>4. LiveFit'
    BY <2>2, <2>3 DEF LiveFit
  <2>5. LiveNone'
    BY <1>1, CommandNone
  <2>6. LiveRuns'
    BY <1>1, <2>2, <2>3, CommandRuns
  <2> QED
    BY <1>2, <2>4, <2>5, <2>6 DEF SInv
<1> QED
  BY <1>3, <1>4

\* The wish, once it is heeded.
LEMMA WishesKind ==
    ASSUME Static, NEW kind \in {"loop", "rloop", "stop", "rstop"}, Wishes(kind)
    PROVE  /\ wish' = "cut" <=> wish = "cut"
           /\ wish' # "none" => net = "oper"
           /\ Live => wish' = kind
BY DEF Static, Wishes, Live, InTouch

\* A drive that fits a profile goes on as the profile says.
LEMMA FitsFollow ==
    ASSUME NEW ps \in [Handles -> ProfileType], NEW q \in Handles, NEW own, NEW bad, NEW e,
           AllFit(e, ps, own, bad), ps[q].in_use, q \notin bad,
           \A f \in Links : ps[q].state[f] # "FIELD_CHANGED"
    PROVE  AfterIn(e, q) = ps[q].next_profile
<1>1. \A f \in Links : e.task[q][f] = FieldValue(ps[q], f)
  <2>1. Links \subseteq Fields
    BY DEF Links, Fields
  <2>2. \A f \in Fields : ps[q].state[f] # "FIELD_CHANGED" =>
                              e.task[q][f] = FieldValue(ps[q], f)
    BY DEF AllFit, Fits
  <2> QED
    BY <2>1, <2>2
<1>2. ps[q] \in ProfileType
  OBVIOUS
<1> QED
  BY <1>1, <1>2, LinksFollow

\* What a profile without changes has not changed.
LEMMA PendingLinks ==
    ASSUME NEW pr, ~HasChangesPending(pr)
    PROVE  \A f \in Links : pr.state[f] # "FIELD_CHANGED"
BY DEF HasChangesPending, Links, Fields

\* A sled that is not idle has been told something.
LEMMA BusyWish ==
    ASSUME SInv, Live, ~MotionIdle
    PROVE  wish # "none"
<1> SUFFICES ASSUME wish = "none" PROVE FALSE
  OBVIOUS
<1>1. InFlight = <<NoItem>>
  BY DEF SInv, Fresh
<1>2. Len(<<NoItem>>) = 1 /\ <<NoItem>>[1] = NoItem /\ \A i \in 1..1 : i = 1
  OBVIOUS
<1>3. NoItem.op # "run"
  BY DEF NoItem, Command
<1> QED
  BY <1>1, <1>2, <1>3 DEF MotionIdle, Live, InTouch

\* If sled_sinusoid_start finds nothing to write of the way there, the link of the
\* way back is written already.
LEMMA StartClosable ==
    ASSUME SInv, Live, There \notin tainted, NEW x \in Nat, NEW top \in Nat, NEW t \in Nat,
           ~HasChangesPending(StartEdits(x, top, t)[There])
    PROVE  \A f \in Links : StartEdits(x, top, t)[Back].state[f] # "FIELD_CHANGED"
<1> DEFINE ps == StartEdits(x, top, t)
<1>1. TypeInv /\ Laid(profiles)
  BY DEF SInv, Static, PInv
<1>2. /\ Edits(ps)
      /\ profiles[There].next_profile # Back => HasChangesPending(ps[There])
      /\ profiles[Back].next_profile = There =>
             \A f \in Links : ps[Back].state[f] = profiles[Back].state[f]
  BY <1>1, StartEditsMark
<1>3. There \in Handles /\ There \in BuiltIn
  BY BuiltInHandles DEF BuiltIn
<1>4. ~HasChangesPending(profiles[There])
  BY <1>2, <1>3, MarksKeepPending DEF Edits
<1>5. wish # "none"
  BY <1>3, <1>4 DEF SInv, Fresh, HasChangesPending, Fields
<1> QED
  BY <1>2, <1>4, <1>5 DEF SInv, Closable

\* One sequence of items starts one motion.
LEMMA SameRun ==
    ASSUME NEW s \in Seq(Queued), NEW p \in Handles, NEW q \in Handles,
           Append(s, Command("run", p)) = Append(s, Command("run", q))
    PROVE  p = q
<1> DEFINE a == Command("run", p)
           b == Command("run", q)
<1>1. a \in Queued /\ b \in Queued /\ a.p = p /\ b.p = q /\ Append(s, a) = Append(s, b)
  BY DEF Queued, Command, Items
<1> HIDE DEF a, b
<1>2. Append(s, a)[Len(s) + 1] = a /\ Append(s, b)[Len(s) + 1] = b
  BY <1>1
<1>3. a = b
  BY <1>1, <1>2
<1> QED
  BY <1>1, <1>3

\* sled_sinusoid_start that is accepted.
LEMMA StartInv ==
    ASSUME SInv, NEW x \in Nat, NEW top \in Nat, NEW t \in Nat, MotionIdle,
           Started(StartEdits(x, top, t), NothingWritten(StartEdits(x, top, t)), There, "loop")
    PROVE  SInv'
<1> DEFINE ps == StartEdits(x, top, t)
           start == NothingWritten(ps)
           w == WriteChain(start, There)
           items == Append(w.items, Command("run", There))
<1>1. /\ Edited(ps, w) /\ Push(items) /\ Wishes("loop")
      /\ UNCHANGED <<net, sdo, status, drive>>
  BY DEF Started
<1>2. TypeInv /\ Laid(profiles) /\ Static
  BY DEF SInv, Static, PInv
<1>3. /\ Edits(ps) /\ ps[There].next_profile = Back /\ ps[Back].next_profile = There
  BY <1>2, StartEditsMark
<1>4. There \in Handles /\ Back \in Handles /\ There \in BuiltIn /\ Back \in BuiltIn
  BY BuiltInHandles DEF BuiltIn
<1>5. ASSUME Live, There \notin tainted, ~HasChangesPending(ps[There])
      PROVE  \A f \in Links : ps[Back].state[f] # "FIELD_CHANGED"
  BY <1>5, StartClosable
<1> HIDE DEF ps
<1>6. Good(ps, start) /\ Good(ps, w)
  BY <1>2, <1>3, <1>4, GoodNothing, GoodChain DEF Edits
<1>7. start.profiles = ps
  BY DEF NothingWritten
<1> HIDE DEF start
<1>8. /\ Written(w, ps) /\ Onward(start, w)
      /\ ~HasChangesPending(ps[There]) => w = start
      /\ ~HasChangesPending(w.profiles[There])
      /\ HasChangesPending(ps[There]) => ~HasChangesPending(w.profiles[Back])
  <2>1. Written(start, ps)
    BY <1>6 DEF Good
  <2> QED
    BY <1>3, <1>4, <1>7, <2>1, ChainOnward
<1> HIDE DEF w
<1>9. /\ wish' = "cut" <=> wish = "cut"
      /\ wish' # "none" => net = "oper"
      /\ Live => wish' = "loop"
  BY <1>1, <1>2, WishesKind
<1>10. Goes(w, items)
  BY <1>4 DEF Goes
<1> HIDE DEF items
<1>11. Commanded(ps, w, items)
  BY <1>1, <1>3, <1>6, <1>9, <1>10 DEF Commanded
<1>12. Live' = Live /\ Static'
  BY <1>2, <1>11, CommandStatic
<1>13. /\ profiles' = w.profiles /\ tainted \subseteq tainted'
       /\ profiles' \in [Handles -> ProfileType] /\ Laid(profiles')
  BY <1>1, <1>12 DEF Edited, Static, PInv, TypeInv
<1>14. profiles'[There].next_profile = Back /\ profiles'[Back].next_profile = There
  BY <1>3, <1>4, <1>7, <1>8, <1>13 DEF Onward, Alike
<1>15. ASSUME Live, There \notin tainted'
       PROVE  \A f \in Links : profiles'[Back].state[f] # "FIELD_CHANGED"
  <2>1. CASE HasChangesPending(ps[There])
    BY <1>8, <1>13, <2>1, PendingLinks
  <2>2. CASE ~HasChangesPending(ps[There])
    BY <1>5, <1>7, <1>8, <1>13, <1>15, <2>2
  <2> QED
    BY <2>1, <2>2
<1>16. Fresh' /\ Told' /\ Closable'
  BY <1>9, <1>12, <1>14, <1>15 DEF Fresh, Told, Closable
<1>17. ASSUME NEW e, Live, AllFit(e, profiles', owner', tainted'),
              There \notin tainted', Back \notin tainted'
       PROVE  AfterIn(e, There) = Back /\ AfterIn(e, Back) = There
  <2>1. profiles'[There].in_use /\ profiles'[Back].in_use
    BY <1>4, <1>13 DEF Laid
  <2>2. \A f \in Links : profiles'[There].state[f] # "FIELD_CHANGED"
    BY <1>8, <1>13, PendingLinks
  <2>3. AfterIn(e, There) = Back
    BY <1>4, <1>13, <1>14, <1>17, <2>1, <2>2, FitsFollow
  <2>4. AfterIn(e, Back) = There
    BY <1>4, <1>13, <1>14, <1>15, <1>17, <2>1, FitsFollow
  <2> QED
    BY <2>3, <2>4
<1>18. ASSUME NEW e, Live, AllFit(e, profiles', owner', tainted'),
              NEW p \in Handles, items = Append(w.items, Command("run", p))
       PROVE  Closed(e, p, tainted')
  <2>1. w.items \in Seq(Queued) /\ p = There
    BY <1>4, <1>8, <1>18, SameRun DEF Written, items
  <2> QED
    BY <1>17, <1>18, <2>1, BuiltInHandles DEF Closed
<1>19. ASSUME NEW e, Live PROVE Obeys(e, wish', tainted')
  BY <1>9, <1>19 DEF Obeys
<1> QED
  BY <1>11, <1>16, <1>18, <1>19, CommandInv

\* A stop is a stop, though less is known.
LEMMA ObeysLess ==
    ASSUME NEW e, NEW k, NEW a, NEW b, a \subseteq b, Obeys(e, k, a)
    PROVE  Obeys(e, k, b)
<1>1. RBack \notin b => RBack \notin a
  OBVIOUS
<1> QED
  BY <1>1 DEF Obeys

\* Without one more item no motion is started.
LEMMA NoRunAppended ==
    ASSUME NEW s \in Seq(Queued), NEW p \in Handles
    PROVE  s # Append(s, Command("run", p))
<1> DEFINE x == Command("run", p)
<1>1. x \in Queued
  BY DEF Queued, Command, Items
<1> HIDE DEF x
<1>2. Len(Append(s, x)) = Len(s) + 1 /\ Len(s) \in Nat
  BY <1>1
<1>3. s # Append(s, x)
  BY <1>2
<1> QED
  BY <1>3 DEF x

\* Nothing is executed.
LEMMA RunsEmpty == ASSUME NEW d, NEW e, Runs(d, <<>>, e) PROVE e = d
BY DEF Runs, IsRun

\* sled_sinusoid_start that is refused: its edits are made, and left for later.
LEMMA StartRefusedInv ==
    ASSUME SInv, NEW x \in Nat, NEW top \in Nat, NEW t \in Nat, ~MotionIdle,
           Started(StartEdits(x, top, t), NothingWritten(StartEdits(x, top, t)), There, "loop")
    PROVE  SInv'
<1> DEFINE ps == StartEdits(x, top, t)
           w == NothingWritten(ps)
<1>1. w.items = <<>> /\ w.profiles = ps
  BY DEF NothingWritten
<1>2. /\ Edited(ps, w) /\ Push(w.items) /\ wish' = wish
      /\ UNCHANGED <<net, sdo, status, drive>>
  BY <1>1 DEF Started
<1>3. TypeInv /\ Laid(profiles) /\ Static
  BY DEF SInv, Static, PInv
<1>4. /\ Edits(ps) /\ ps[There].next_profile = Back /\ ps[Back].next_profile = There
  BY <1>3, StartEditsMark
<1>5. ASSUME Live, There \notin tainted, ~HasChangesPending(ps[There])
      PROVE  \A f \in Links : ps[Back].state[f] # "FIELD_CHANGED"
  BY <1>5, StartClosable
<1> HIDE DEF ps
<1>6. Good(ps, w)
  BY <1>3, <1>4, GoodNothing DEF Edits
<1> HIDE DEF w
<1>7. Commanded(ps, w, w.items)
  BY <1>2, <1>3, <1>4, <1>6 DEF Commanded, Goes, Static
<1>8. Live' = Live
  BY <1>3, <1>7, CommandStatic
<1>9. profiles' = ps /\ tainted \subseteq tainted'
  BY <1>1, <1>2 DEF Edited
<1>10. Live => wish # "none"
  BY BusyWish
<1>11. Fresh' /\ Told' /\ Closable'
  BY <1>2, <1>4, <1>5, <1>8, <1>9, <1>10 DEF Fresh, Told, Closable
<1>12. ASSUME NEW d, NEW e, Obeys(d, wish, tainted), Runs(d, w.items, e)
       PROVE  Obeys(e, wish', tainted')
  BY <1>1, <1>2, <1>9, <1>12, RunsEmpty, ObeysLess
<1>13. w.items \in Seq(Queued)
  BY <1>6 DEF Good, Written
<1> QED
  BY <1>7, <1>11, <1>12, <1>13, NoRunAppended, CommandInv

\* The two stop commands.
LEMMA StopInv ==
    ASSUME SInv, NEW n \in {RBack, -1}, NEW ps,
           \/ ps = [profiles EXCEPT ![There] = NextIs(@, n)]
           \/ ps = [profiles EXCEPT ![There] = NextIs(@, n), ![Back] = NextIs(@, -1)],
           NEW kind, kind = (IF n = -1 THEN "stop" ELSE "rstop"), Stopped(ps, There, kind)
    PROVE  SInv'
<1> DEFINE start == NothingWritten(ps)
           w == WriteChain(start, There)
<1>1. /\ Edited(ps, w) /\ Push(w.items) /\ Wishes(kind)
      /\ UNCHANGED <<net, sdo, status, drive>>
  BY DEF Stopped
<1>2. TypeInv /\ Laid(profiles) /\ Static
  BY DEF SInv, Static, PInv
<1>3. /\ Edits(ps) /\ ps[There].next_profile = n
      /\ profiles[There].next_profile # n =>
             \A f \in Links : ps[There].state[f] = "FIELD_CHANGED"
      /\ profiles[There].next_profile = n =>
             \A f \in Fields : ps[There].state[f] = profiles[There].state[f]
  BY <1>2, StopEditsMark
<1>4. There \in Handles /\ RBack \in Handles /\ There \in BuiltIn /\ RBack \in BuiltIn
  BY BuiltInHandles DEF BuiltIn
<1>5. Good(ps, start) /\ Good(ps, w)
  BY <1>2, <1>3, <1>4, GoodNothing, GoodChain DEF Edits
<1>6. start.profiles = ps /\ start.items = <<>>
  BY DEF NothingWritten
<1> HIDE DEF start
<1>7. /\ Written(w, ps) /\ Onward(start, w)
      /\ ~HasChangesPending(ps[There]) => w = start
      /\ ~HasChangesPending(w.profiles[There])
      /\ HasChangesPending(ps[There]) /\ n \in Handles => ~HasChangesPending(w.profiles[n])
      /\ HasChangesPending(ps[There]) =>
             \A d, e \in DriveType : Runs(d, start.items, e) =>
                 \E e2 \in DriveType :
                    /\ Runs(d, w.items, e2)
                    /\ \A f \in Fields : ps[There].state[f] = "FIELD_CHANGED" =>
                                            e2.task[There][f] = FieldValue(ps[There], f)
  <2>1. Written(start, ps)
    BY <1>5 DEF Good
  <2> HIDE DEF w
  <2>2. LET pr == start.profiles[There]
        IN  /\ Written(w, ps) /\ Onward(start, w)
            /\ ~HasChangesPending(pr) => w = start
            /\ ~HasChangesPending(w.profiles[There])
            /\ HasChangesPending(pr) /\ pr.next_profile \in Handles =>
                   ~HasChangesPending(w.profiles[pr.next_profile])
            /\ HasChangesPending(pr) =>
                   \A d, e \in DriveType : Runs(d, start.items, e) =>
                       \E e2 \in DriveType :
                          /\ Runs(d, w.items, e2)
                          /\ \A f \in Fields : pr.state[f] = "FIELD_CHANGED" =>
                                                   e2.task[There][f] = FieldValue(pr, f)
    BY <1>4, <2>1, ChainOnward DEF w
  <2> QED
    BY <1>3, <1>6, <2>2
<1> HIDE DEF w
<1>8. /\ kind \in {"stop", "rstop"}
      /\ wish' = "cut" <=> wish = "cut"
      /\ wish' # "none" => net = "oper"
      /\ Live => wish' = kind
  BY <1>1, <1>2, WishesKind
<1>9. Commanded(ps, w, w.items)
  BY <1>1, <1>3, <1>5, <1>8 DEF Commanded, Goes
<1>10. Live' = Live /\ Static'
  BY <1>2, <1>9, CommandStatic
<1>11. /\ profiles' = w.profiles /\ tainted \subseteq tainted'
       /\ profiles' \in [Handles -> ProfileType] /\ Laid(profiles')
  BY <1>1, <1>10 DEF Edited, Static, PInv, TypeInv
<1>12. profiles'[There].next_profile = n
  BY <1>3, <1>4, <1>6, <1>7, <1>11 DEF Onward, Alike
<1>13. n # Back /\ (n # -1 => n = RBack)
  BY BuiltInHandles
<1>14. Fresh' /\ Told' /\ Closable'
  BY <1>7, <1>8, <1>10, <1>11, <1>12, <1>13 DEF Fresh, Told, Closable
<1>15. ASSUME NEW d \in DriveType, NEW e \in DriveType, Live, Obeys(d, wish, tainted),
              Runs(d, w.items, e), AllFit(e, profiles', owner', tainted')
       PROVE  Obeys(e, wish', tainted')
  <2>1. CASE HasChangesPending(ps[There])
    <3>1. \A f \in Links : f \in Fields /\ ps[There].state[f] = "FIELD_CHANGED"
      <4>1. Links \subseteq Fields
        BY DEF Links, Fields
      <4>2. CASE profiles[There].next_profile # n
        BY <1>3, <4>1, <4>2
      <4>3. CASE profiles[There].next_profile = n
        <5>1. HasChangesPending(profiles[There])
          BY <1>3, <2>1, <4>3 DEF HasChangesPending
        <5>2. wish = "none"
          BY <1>13, <1>15, <4>3, <5>1 DEF SInv, Told
        <5>3. \A f \in Fields : profiles[There].state[f] = "FIELD_CHANGED"
          BY <1>4, <1>15, <5>2 DEF SInv, Fresh
        <5> QED
          BY <1>3, <4>1, <4>3, <5>3
      <4> QED
        BY <4>2, <4>3
    <3>2. Runs(d, start.items, d)
      BY <1>6, RunsNothing
    <3>3. PICK e2 \in DriveType :
                /\ Runs(d, w.items, e2)
                /\ \A f \in Fields : ps[There].state[f] = "FIELD_CHANGED" =>
                                        e2.task[There][f] = FieldValue(ps[There], f)
      BY <1>7, <2>1, <3>2
    <3>4. e2 = e
      <4>1. w.items \in Seq(Queued)
        BY <1>7 DEF Written
      <4> QED
        BY <1>15, <3>3, <4>1, RunsSame
    <3>5. AfterIn(e, There) = n
      <4>1. ps[There] \in ProfileType
        BY <1>3, <1>4 DEF Edits
      <4>2. \A f \in Links : e.task[There][f] = FieldValue(ps[There], f)
        BY <3>1, <3>3, <3>4
      <4> QED
        BY <1>3, <4>1, <4>2, LinksFollow
    <3>6. ASSUME n = RBack, RBack \notin tainted' PROVE AfterIn(e, RBack) = -1
      <4>1. /\ profiles'[RBack].in_use /\ profiles'[RBack].next_profile = -1
        BY <1>4, <1>11 DEF Laid
      <4>2. \A f \in Links : profiles'[RBack].state[f] # "FIELD_CHANGED"
        BY <1>4, <1>7, <1>11, <2>1, <3>6, PendingLinks
      <4> QED
        BY <1>4, <1>11, <1>15, <3>6, <4>1, <4>2, FitsFollow
    <3> QED
      BY <1>8, <1>13, <1>15, <3>5, <3>6 DEF Obeys
  <2>2. CASE ~HasChangesPending(ps[There])
    <3>1. e = d
      BY <1>6, <1>7, <1>15, <2>2, RunsEmpty
    <3>2. profiles[There].next_profile = n
      BY <1>3, <2>2 DEF HasChangesPending, Links, Fields
    <3>3. ~HasChangesPending(profiles[There])
      BY <1>3, <2>2, <3>2 DEF HasChangesPending
    <3>4. wish # "none"
      BY <1>4, <1>15, <3>3 DEF SInv, Fresh, HasChangesPending, Fields
    <3>5. wish = kind
      BY <1>13, <1>15, <3>2, <3>4 DEF SInv, Told
    <3> QED
      BY <1>8, <1>11, <1>15, <3>1, <3>5, ObeysLess
  <2> QED
    BY <2>1, <2>2
<1>16. w.items \in Seq(Queued)
  BY <1>7 DEF Written
<1> QED
  BY <1>9, <1>14, <1>15, <1>16, NoRunAppended, CommandInv

\* One of several profiles that are written.
LEMMA ChainClears ==
    ASSUME NEW ps, NEW w, Good(ps, w), NEW p \in Handles, NEW S \in SUBSET Handles,
           \A q \in S : ~HasChangesPending(w.profiles[q])
    PROVE  \A q \in S \cup {p} : ~HasChangesPending(WriteChain(w, p).profiles[q])
<1>1. Written(w, ps)
  BY DEF Good
<1>2. /\ Onward(w, WriteChain(w, p))
      /\ ~HasChangesPending(WriteChain(w, p).profiles[p])
  BY <1>1, ChainOnward
<1>3. ASSUME NEW q \in S PROVE ~HasChangesPending(WriteChain(w, p).profiles[q])
  <2>1. q \in Handles
    OBVIOUS
  <2> QED
    BY <1>2, <2>1, OnwardPending
<1> QED
  BY <1>2, <1>3

\* sled_rsinusoid_start writes all four profiles.
LEMMA RStartWritten ==
    ASSUME TypeInv, NEW ps \in [Handles -> ProfileType], NEW w,
           w = WriteChain(WriteChain(WriteChain(WriteChain(
                   NothingWritten(ps), RThere), There), Back), RBack)
    PROVE  Good(ps, w) /\ \A p \in BuiltIn : ~HasChangesPending(w.profiles[p])
<1> DEFINE w0 == NothingWritten(ps)
           w1 == WriteChain(w0, RThere)
           w2 == WriteChain(w1, There)
           w3 == WriteChain(w2, Back)
           w4 == WriteChain(w3, RBack)
<1>1. RThere \in Handles /\ There \in Handles /\ Back \in Handles /\ RBack \in Handles
  BY BuiltInHandles DEF BuiltIn
<1>2. Good(ps, w0)
  BY GoodNothing
<1> HIDE DEF w0
<1>3. Good(ps, w1) /\ \A q \in {RThere} : ~HasChangesPending(w1.profiles[q])
  <2>1. Written(w0, ps)
    BY <1>2 DEF Good
  <2> QED
    BY <1>1, <1>2, <2>1, GoodChain, ChainOnward
<1> HIDE DEF w1
<1>4. Good(ps, w2) /\ \A q \in {RThere} \cup {There} : ~HasChangesPending(w2.profiles[q])
  <2>1. {RThere} \in SUBSET Handles
    BY <1>1
  <2> QED
    BY <1>1, <1>3, <2>1, GoodChain, ChainClears
<1> HIDE DEF w2
<1>5. /\ Good(ps, w3)
      /\ \A q \in {RThere, There} \cup {Back} : ~HasChangesPending(w3.profiles[q])
  <2>1. {RThere, There} \in SUBSET Handles
    BY <1>1
  <2> QED
    BY <1>1, <1>4, <2>1, GoodChain, ChainClears
<1> HIDE DEF w3
<1>6. /\ Good(ps, w4)
      /\ \A q \in {RThere, There, Back} \cup {RBack} : ~HasChangesPending(w4.profiles[q])
  <2>1. {RThere, There, Back} \in SUBSET Handles
    BY <1>1
  <2> QED
    BY <1>1, <1>5, <2>1, GoodChain, ChainClears
<1> HIDE DEF w4
<1>7. w = w4 /\ BuiltIn = {RThere, There, Back} \cup {RBack}
  BY DEF w0, w1, w2, w3, w4, BuiltIn
<1> QED
  BY <1>6, <1>7

\* A command that writes all four profiles.
LEMMA AllWrittenInv ==
    ASSUME SInv, NEW ps, Edits(ps), ps[There].next_profile = Back,
           ps[Back].next_profile = There,
           NEW w, Good(ps, w), \A p \in BuiltIn : ~HasChangesPending(w.profiles[p]),
           NEW items, items = w.items \/ items = Append(w.items, Command("run", RThere)),
           Edited(ps, w), Push(items), UNCHANGED <<net, sdo, status, drive>>,
           \/ Wishes("rloop")
           \/ items = <<>> /\ items = w.items /\ wish' = wish /\ ~MotionIdle
    PROVE  SInv'
<1>1. Static
  BY DEF SInv
<1>2. BuiltIn = {There, RThere, Back, RBack} /\ BuiltIn \subseteq Handles
  BY BuiltInHandles DEF BuiltIn
<1>3. /\ wish' = "cut" <=> wish = "cut"
      /\ wish' # "none" => net = "oper"
      /\ Live => \/ wish' = "rloop"
                 \/ items = <<>> /\ items = w.items /\ wish' = wish /\ ~MotionIdle
  <2>1. CASE Wishes("rloop")
    BY <1>1, <2>1, WishesKind
  <2>2. CASE items = <<>> /\ items = w.items /\ wish' = wish /\ ~MotionIdle
    BY <1>1, <2>2 DEF Static
  <2> QED
    BY <2>1, <2>2
<1>4. Goes(w, items)
  BY <1>2 DEF Goes
<1>5. Commanded(ps, w, items)
  BY <1>3, <1>4 DEF Commanded
<1>6. Live' = Live /\ Static'
  BY <1>1, <1>5, CommandStatic
<1>7. /\ profiles' = w.profiles /\ tainted \subseteq tainted'
      /\ profiles' \in [Handles -> ProfileType] /\ Laid(profiles')
  BY <1>6 DEF Edited, Static, PInv, TypeInv
<1>8. /\ profiles'[There].next_profile = Back /\ profiles'[Back].next_profile = There
      /\ profiles'[RThere].next_profile = Back
  <2>1. NothingWritten(ps).profiles = ps
    BY DEF NothingWritten
  <2>2. /\ Alike(profiles'[There], ps[There]) /\ Alike(profiles'[Back], ps[Back])
    BY <1>2, <1>7, <2>1 DEF Good, Onward
  <2> QED
    BY <1>7, <2>2 DEF Alike, Laid
<1>9. ASSUME NEW p \in BuiltIn
      PROVE  \A f \in Links : profiles'[p].state[f] # "FIELD_CHANGED"
  BY <1>7, PendingLinks
<1>10. Live => wish' # "none"
  BY <1>3, BusyWish
<1>11. Fresh' /\ Told' /\ Closable'
  BY <1>2, <1>6, <1>8, <1>9, <1>10 DEF Fresh, Told, Closable
<1>12. ASSUME NEW e, AllFit(e, profiles', owner', tainted'), NEW p \in BuiltIn,
              p \notin tainted'
       PROVE  AfterIn(e, p) = profiles'[p].next_profile
  <2>1. profiles'[p].in_use
    BY <1>7 DEF Laid
  <2> QED
    BY <1>2, <1>7, <1>9, <1>12, <2>1, FitsFollow
<1>13. w.items \in Seq(Queued)
  BY DEF Good, Written
<1>14. ASSUME NEW e, AllFit(e, profiles', owner', tainted'),
              NEW p \in Handles, items = Append(w.items, Command("run", p))
       PROVE  Closed(e, p, tainted')
  <2>1. p = RThere
    <3>1. items # w.items
      BY <1>13, <1>14, NoRunAppended
    <3> QED
      BY <1>2, <1>13, <1>14, <3>1, SameRun
  <2> QED
    BY <1>2, <1>8, <1>12, <1>14, <2>1 DEF Closed
<1>15. ASSUME NEW d, NEW e, Live, Obeys(d, wish, tainted), Runs(d, w.items, e)
       PROVE  Obeys(e, wish', tainted')
  <2>1. CASE wish' = "rloop"
    BY <2>1 DEF Obeys
  <2>2. CASE items = <<>> /\ items = w.items /\ wish' = wish
    BY <1>7, <1>15, <2>2, RunsEmpty, ObeysLess
  <2> QED
    BY <1>3, <1>15, <2>1, <2>2
<1> QED
  BY <1>5, <1>11, <1>14, <1>15, CommandInv

\* sled_rsinusoid_start, accepted or not.
LEMMA RStartInv ==
    ASSUME SInv, NEW x \in Nat, NEW top \in Nat, NEW t \in Nat, NEW w,
           w = WriteChain(WriteChain(WriteChain(WriteChain(
                   NothingWritten(RStartEdits(x, top, t)), RThere), There), Back), RBack),
           Started(RStartEdits(x, top, t), w, RThere, "rloop")
    PROVE  SInv'
<1> DEFINE ps == RStartEdits(x, top, t)
<1>1. TypeInv /\ Laid(profiles)
  BY DEF SInv, Static, PInv
<1>2. Edits(ps) /\ ps[There].next_profile = Back /\ ps[Back].next_profile = There
  BY <1>1, RStartEditsMark
<1>3. Started(ps, w, RThere, "rloop")
  OBVIOUS
<1>4. w = WriteChain(WriteChain(WriteChain(WriteChain(
                   NothingWritten(ps), RThere), There), Back), RBack)
  OBVIOUS
<1> HIDE DEF ps
<1>5. Good(ps, w) /\ \A p \in BuiltIn : ~HasChangesPending(w.profiles[p])
  BY <1>1, <1>2, <1>4, RStartWritten DEF Edits
<1>6. UNCHANGED <<net, sdo, status, drive>>
  BY <1>3 DEF Started
<1>7. CASE MotionIdle
  <2> DEFINE v == WriteChain(w, RThere)
             items == Append(v.items, Command("run", RThere))
  <2>1. Edited(ps, v) /\ Push(items) /\ Wishes("rloop")
    BY <1>3, <1>7 DEF Started
  <2>2. RThere \in Handles /\ BuiltIn \in SUBSET Handles
    BY BuiltInHandles DEF BuiltIn
  <2>3. Good(ps, v) /\ \A p \in BuiltIn \cup {RThere} : ~HasChangesPending(v.profiles[p])
    BY <1>5, <2>2, GoodChain, ChainClears
  <2>4. \A p \in BuiltIn : ~HasChangesPending(v.profiles[p])
    BY <2>3
  <2> HIDE DEF v
  <2>5. items = Append(v.items, Command("run", RThere))
    OBVIOUS
  <2> HIDE DEF items
  <2> QED
    BY <1>2, <1>6, <2>1, <2>3, <2>4, <2>5, AllWrittenInv
<1>8. CASE ~MotionIdle
  <2>1. /\ Edited(ps, w) /\ Push(w.items)
        /\ (w.items = <<>> /\ wish' = wish) \/ Wishes("rloop")
    BY <1>3, <1>8 DEF Started
  <2> QED
    BY <1>2, <1>5, <1>6, <1>8, <2>1, AllWrittenInv
<1> QED
  BY <1>7, <1>8

-----------------------------------------------------------------------------
\* In touch, this is the invariant of SledTask and more.
LEMMA LiveTask == ASSUME SInv, Live PROVE TInv
<1>1. WillFit
  BY DEF SInv, LiveFit, WillFit
<1>2. NoneChanged
  BY DEF SInv, LiveNone, NoneChanged
<1> QED
  BY <1>1, <1>2 DEF SInv, Static, TInv, Quiet, Live, InTouch

\* on_success_callback leaves the parameters alone.
LEMMA ConfirmAlike ==
    ASSUME PInv, Confirm, NEW q \in Handles
    PROVE  Alike(profiles'[q], profiles[q])
<1>1. /\ profiles \in [Handles -> ProfileType] /\ active.p \in Handles
      /\ profiles[q] \in ProfileType
  BY DEF PInv, TypeInv, Items
<1>2. CASE active.op # "field"
  BY <1>2 DEF Confirm, Alike
<1>3. CASE active.op = "field"
  <2> DEFINE p == active.p
             st == [profiles[p].state EXCEPT ![active.f] = "FIELD_WRITTEN"]
             new == [profiles[p] EXCEPT !.state = st]
  <2>1. profiles' = [profiles EXCEPT ![p] = new]
    BY <1>3 DEF Confirm
  <2>2. profiles[p] \in ProfileType
    BY <1>1
  <2> HIDE DEF st
  <2>3. Alike(new, profiles[p])
    BY <2>2 DEF ProfileType, Alike
  <2> HIDE DEF new, p
  <2>4. profiles'[q] = IF q = p THEN new ELSE profiles[q]
    BY <1>1, <2>1
  <2> QED
    BY <2>3, <2>4 DEF Alike
<1> QED
  BY <1>2, <1>3

\* The drive executes one more item.
LEMMA ConfirmInv == ASSUME SInv, Confirm, wish' = wish PROVE SInv'
<1>1. /\ PInv /\ drive \in DriveType /\ Laid(profiles) /\ active \in Items
      /\ queue \in Seq(Items) /\ active # NoItem
  BY DEF SInv, Static, PInv, TypeInv, Confirm
<1>2. net' = net /\ sdo' = sdo /\ status' = status /\ tainted' = tainted /\ owner' = owner
  BY DEF Confirm
<1>3. Live' = Live /\ InTouch' = InTouch
  BY <1>2 DEF Live, InTouch, Running
<1>4. PInv'
  BY <1>1, PInvConfirm
<1>5. /\ drive' = Done(drive, active)
      /\ queue # <<>> => InFlight' = queue
      /\ queue = <<>> => InFlight' = <<NoItem>>
      /\ \A e : Runs(drive, InFlight, e) => Runs(drive', InFlight', e)
  BY <1>1, ConfirmRuns
<1>6. There \in BuiltIn /\ Back \in BuiltIn /\ BuiltIn = {There, RThere, Back, RBack}
      /\ BuiltIn \subseteq Handles
  BY BuiltInHandles DEF BuiltIn
<1>7. ASSUME NEW q \in BuiltIn PROVE Alike(profiles'[q], profiles[q])
  BY <1>1, <1>6, ConfirmAlike
<1>8. Laid(profiles')
  BY <1>1, <1>6, <1>7 DEF Laid, Alike
<1>9. Static'
  BY <1>1, <1>2, <1>4, <1>5, <1>8, DoneType DEF SInv, Static
<1>10. CASE ~Live
  BY <1>3, <1>9, <1>10, SInvOut
<1>11. CASE Live
  <2>1. TInv' /\ InTouch /\ InTouch'
    BY <1>3, <1>4, <1>11, LiveTask, TInvConfirm DEF Live
  <2>2. LiveNone'
    BY <2>1 DEF TInv, NoneChanged, LiveNone
  <2>3. LiveFit'
    <3>1. PICK e \in DriveType : Runs(drive, InFlight, e) /\ Obeys(e, wish, tainted)
      BY <1>11 DEF SInv, LiveFit
    <3>2. PICK e2 \in DriveType : /\ Runs(drive', InFlight', e2)
                                  /\ AllFit(e2, profiles', owner', tainted')
      BY <2>1 DEF TInv, WillFit
    <3>3. InFlight' \in Seq(Items)
      BY <1>4 DEF PInv, TypeInv, InFlight
    <3>4. e = e2
      BY <1>5, <3>1, <3>2, <3>3, RunsSame
    <3> QED
      BY <1>2, <3>1, <3>2, <3>4 DEF LiveFit
  <2>4. LiveRuns'
    <3> SUFFICES ASSUME NEW t, IsRun(t, drive', InFlight'),
                        NEW i \in 1..Len(InFlight'), InFlight'[i].op = "run"
                 PROVE  Closed(t[i], InFlight'[i].p, tainted)
      BY <1>2 DEF LiveRuns
    <3>1. CASE queue = <<>>
      <4>1. InFlight' = <<NoItem>> /\ NoItem.op # "run"
        BY <1>5, <3>1 DEF NoItem, Command
      <4>2. Len(<<NoItem>>) = 1 /\ <<NoItem>>[1] = NoItem /\ \A j \in 1..1 : j = 1
        OBVIOUS
      <4> QED
        BY <4>1, <4>2
    <3>2. CASE queue # <<>>
      <4>1. InFlight' = queue
        BY <1>5, <3>2
      <4>2. PICK u : /\ IsRun(u, drive, <<active>> \o queue)
                     /\ \A j \in 0..Len(queue) : u[j + 1] = t[j]
        BY <1>1, <1>5, <4>1, RunOfRest
      <4>3. i \in 1..Len(queue) /\ i \in 0..Len(queue) /\ queue[i].op = "run"
        BY <1>1, <4>1
      <4>4. /\ i + 1 \in 1..Len(<<active>> \o queue)
            /\ (<<active>> \o queue)[i + 1] = queue[i]
        BY <1>1, <4>3
      <4>5. Closed(u[i + 1], queue[i].p, tainted)
        BY <1>11, <4>2, <4>3, <4>4 DEF SInv, LiveRuns, InFlight
      <4> QED
        BY <4>1, <4>2, <4>3, <4>5
    <3> QED
      BY <3>1, <3>2
  <2>5. wish # "none"
    <3> SUFFICES ASSUME wish = "none" PROVE FALSE
      OBVIOUS
    <3>1. <<active>> \o queue = <<NoItem>>
      BY <1>11 DEF SInv, Fresh, InFlight
    <3>2. (<<active>> \o queue)[1] = active /\ <<NoItem>>[1] = NoItem
      BY <1>1
    <3> QED
      BY <1>1, <3>1, <3>2
  <2>6. ASSUME NEW q \in BuiltIn, NEW f \in Fields
        PROVE  /\ profiles'[q].state[f] = "FIELD_CHANGED" =>
                      profiles[q].state[f] = "FIELD_CHANGED"
               /\ q \notin tainted /\ profiles[q].state[f] = "FIELD_CHANGED" =>
                      profiles'[q].state[f] = "FIELD_CHANGED"
    <3>1. /\ q \in Handles /\ profiles[q].in_use
          /\ profiles'[q].state[f] = IF IsWrite(active, q, f) THEN "FIELD_WRITTEN"
                                                           ELSE profiles[q].state[f]
      BY <1>1, <1>6, ConfirmedProfile DEF Laid
    <3>2. ASSUME IsWrite(active, q, f), q \notin tainted
          PROVE  profiles[q].state[f] # "FIELD_CHANGED"
      <4>1. 1 \in 1..Len(InFlight) /\ InFlight[1] = active
        BY <1>1 DEF InFlight
      <4>2. ~NoWrites(InFlight, q, f)
        BY <3>2, <4>1 DEF NoWrites
      <4> QED
        BY <1>11, <3>1, <3>2, <4>2 DEF SInv, LiveNone
    <3> QED
      BY <3>1, <3>2
  <2>7. /\ ~HasChangesPending(profiles[There]) => ~HasChangesPending(profiles'[There])
        /\ There \notin tainted /\ ~HasChangesPending(profiles'[There]) =>
               ~HasChangesPending(profiles[There])
    BY <1>6, <2>6 DEF HasChangesPending
  <2>8. /\ profiles'[There].next_profile = profiles[There].next_profile
        /\ profiles'[Back].next_profile = profiles[Back].next_profile
    BY <1>6, <1>7 DEF Alike
  <2>9. Fresh'
    BY <2>5 DEF Fresh
  <2>10. Told'
    BY <1>11, <2>5, <2>7, <2>8 DEF SInv, Told
  <2>11. Closable'
    <3>1. Links \subseteq Fields
      BY DEF Links, Fields
    <3> QED
      BY <1>2, <1>6, <1>11, <2>5, <2>6, <2>7, <2>8, <3>1 DEF SInv, Closable
  <2> QED
    BY <1>9, <2>2, <2>3, <2>4, <2>9, <2>10, <2>11 DEF SInv
<1> QED
  BY <1>10, <1>11

\* Out of touch: aborts, the loss of the link, and the way back up.
LEMMA OutInv ==
    ASSUME SInv, \/ Abort /\ wish' = wish
                 \/ OtherAbort /\ wish' = wish
                 \/ LinkLost /\ wish' = "none"
                 \/ SdosEnabled /\ wish' = wish
    PROVE  SInv'
<1>1. PInv /\ drive \in DriveType /\ Laid(profiles)
  BY DEF SInv, Static
<1>2. PInv'
  BY <1>1, PInvAbort, PInvLost, PInvEnabled
<1>3. profiles' = profiles
  BY DEF Abort, OtherAbort, LinkLost, SdosEnabled, host
<1>4. drive' \in DriveType
  BY <1>1, EmptyDrive DEF Abort, OtherAbort, LinkLost, SdosEnabled
<1>5. ~Live'
  BY DEF Live, InTouch, Running, Abort, OtherAbort, LinkLost, SdosEnabled
<1>6. (net = "down" => sdo # "enabled")'
  BY DEF SInv, Static, Abort, OtherAbort, LinkLost, SdosEnabled
<1>7. (wish # "none" => net = "oper")'
  BY DEF SInv, Static, Abort, OtherAbort, LinkLost, SdosEnabled
<1>8. Static'
  BY <1>1, <1>2, <1>3, <1>4, <1>6, <1>7 DEF Static
<1> QED
  BY <1>5, <1>8, SInvOut

\* The sled becomes operational: every profile is to be written again.
LEMMA OperationalInv ==
    ASSUME SInv, EnterOperational, wish' = IF active = NoItem THEN wish ELSE "cut"
    PROVE  SInv'
<1>1. PInv /\ drive \in DriveType /\ Laid(profiles) /\ net = "preop" /\ wish = "none"
  BY DEF SInv, Static, EnterOperational
<1>2. PInv'
  BY <1>1, PInvOperational
<1>3. drive' = drive /\ net' = "oper"
  BY DEF EnterOperational
<1>4. BuiltIn = {There, RThere, Back, RBack} /\ BuiltIn \subseteq Handles
  BY BuiltInHandles DEF BuiltIn
<1>5. ASSUME NEW p \in BuiltIn
      PROVE  /\ Alike(profiles'[p], profiles[p])
             /\ \A f \in Fields : profiles'[p].state[f] = "FIELD_CHANGED"
  <2>1. p \in Handles /\ profiles[p] \in ProfileType /\ profiles[p].in_use
    BY <1>1, <1>4 DEF PInv, TypeInv, Laid
  <2>2. profiles'[p] = MarkAsUnsaved(profiles[p])
    BY <2>1 DEF EnterOperational, ProfilesReset
  <2>3. /\ Alike(MarkAsUnsaved(profiles[p]), profiles[p])
        /\ MarkAsUnsaved(profiles[p]).state = AllFields("FIELD_CHANGED")
    BY <2>1 DEF MarkAsUnsaved, ProfileType, Alike
  <2> QED
    BY <2>2, <2>3 DEF AllFields
<1>6. Laid(profiles')
  BY <1>1, <1>4, <1>5 DEF Laid, Alike
<1>7. Static'
  BY <1>1, <1>2, <1>3, <1>6 DEF Static
<1>8. CASE ~Live'
  BY <1>7, <1>8, SInvOut
<1>9. CASE Live'
  <2>1. active = NoItem /\ wish' = "none" /\ InTouch'
    BY <1>1, <1>9 DEF Live
  <2>2. TInv
    BY <1>1, <2>1 DEF TInv, Quiet, WillFit, NoneChanged, InTouch
  <2>3. TInv'
    BY <1>2, <2>2, TInvOperational
  <2>4. active' = NoItem /\ queue' = <<>>
    BY <1>1, <2>1 DEF EnterOperational, Enable, InTouch, Running, PInv, NoRest
  <2>5. InFlight' = <<NoItem>>
    BY <2>4 DEF InFlight
  <2>6. LiveFit'
    BY <2>1, <2>3 DEF TInv, WillFit, LiveFit, Obeys
  <2>7. LiveNone'
    BY <2>3 DEF TInv, NoneChanged, LiveNone, Live
  <2>8. LiveRuns'
    <3>1. NoItem.op # "run"
      BY DEF NoItem, Command
    <3>2. Len(<<NoItem>>) = 1 /\ <<NoItem>>[1] = NoItem /\ \A j \in 1..1 : j = 1
      OBVIOUS
    <3> QED
      BY <2>5, <3>1, <3>2 DEF LiveRuns
  <2>9. Fresh'
    BY <1>5, <2>5 DEF Fresh
  <2> QED
    BY <1>7, <2>1, <2>6, <2>7, <2>8, <2>9 DEF SInv, Told, Closable
<1> QED
  BY <1>8, <1>9

-----------------------------------------------------------------------------
\* sled_profile_set_table leaves the other parameters alone.
LEMMA TableKeeps ==
    ASSUME NEW pr \in ProfileType, NEW t \in Nat
    PROVE  SetTableOf(pr, t) \in ProfileType /\ Alike(SetTableOf(pr, t), pr)
<1> DEFINE changes == pr.table # t
           m == Marked(pr, changes, {"O_TAB"})
<1>1. SetTableOf(pr, t) = [m EXCEPT !.table = t]
  BY DEF SetTableOf
<1> HIDE DEF changes
<1>2. /\ m \in ProfileType /\ m = [pr EXCEPT !.state = m.state]
      /\ m.state = [f \in Fields |-> IF changes /\ f \in {"O_TAB"}
                                     THEN "FIELD_CHANGED" ELSE pr.state[f]]
  BY MarkedIs
<1> HIDE DEF m
<1>3. Alike(m, pr)
  BY <1>2 DEF ProfileType, Alike
<1>4. [m EXCEPT !.table = t] \in ProfileType /\ Alike([m EXCEPT !.table = t], m)
  BY <1>2 DEF ProfileType, Alike
<1> QED
  BY <1>1, <1>3, <1>4 DEF Alike

\* The profiles as sled_create leaves them.
LEMMA CreatedLaid == SinusoidProfiles \in [Handles -> ProfileType] /\ Laid(SinusoidProfiles)
<1> DEFINE new == Profile(TRUE, TRUE)
           Row(n, next) == NextIs(SetTableOf(new, n), next)
<1>1. There \in Handles /\ RThere \in Handles /\ Back \in Handles /\ RBack \in Handles
  BY BuiltInHandles DEF BuiltIn
<1>2. /\ new \in ProfileType /\ new.in_use /\ new.position_type = "pos_absolute"
      /\ new.delay = 0 /\ new.next_profile = -1
  <2>1. new \in ProfileType
    BY NewProfileType
  <2>2. /\ new.in_use /\ new.position_type = "pos_absolute"
        /\ new.delay = 0 /\ new.next_profile = -1
    BY DEF Profile
  <2> QED
    BY <2>1, <2>2
<1> HIDE DEF new
<1>3. ASSUME NEW n \in Nat, NEW next \in Handles
      PROVE  /\ Row(n, next) \in ProfileType /\ Row(n, next).in_use
             /\ Row(n, next).position_type = "pos_absolute" /\ Row(n, next).delay = 0
             /\ Row(n, next).blend_type = "bln_after" /\ Row(n, next).next_profile = next
  <2> DEFINE a == SetTableOf(new, n)
  <2>1. a \in ProfileType /\ Alike(a, new)
    BY <1>2, TableKeeps
  <2> HIDE DEF a
  <2>2. /\ MarksChanges(a, NextIs(a, next)) /\ NextIs(a, next).next_profile = next
        /\ NextIs(a, next).position_type = a.position_type
        /\ NextIs(a, next).delay = 0 /\ NextIs(a, next).blend_type = "bln_after"
    BY <2>1, NextKeeps
  <2> QED
    BY <1>2, <2>1, <2>2 DEF MarksChanges, Alike, a
<1>4. SetTableOf(new, 3) \in ProfileType /\ Alike(SetTableOf(new, 3), new)
  BY <1>2, TableKeeps
<1> DEFINE th == Row(0, Back)
           rt == Row(1, Back)
           bk == Row(0, There)
           rb == SetTableOf(new, 3)
<1>5. /\ th \in ProfileType /\ th.in_use /\ th.position_type = "pos_absolute"
      /\ th.delay = 0 /\ th.blend_type = "bln_after" /\ th.next_profile = Back
  BY <1>1, <1>3
<1>6. /\ rt \in ProfileType /\ rt.in_use /\ rt.position_type = "pos_absolute"
      /\ rt.delay = 0 /\ rt.blend_type = "bln_after" /\ rt.next_profile = Back
  BY <1>1, <1>3
<1>7. /\ bk \in ProfileType /\ bk.in_use /\ bk.position_type = "pos_absolute"
      /\ bk.delay = 0 /\ bk.blend_type = "bln_after" /\ bk.next_profile = There
  BY <1>1, <1>3
<1>8. /\ rb \in ProfileType /\ rb.in_use /\ rb.position_type = "pos_absolute"
      /\ rb.delay = 0 /\ rb.next_profile = -1
  BY <1>2, <1>4 DEF Alike
<1> DEFINE other == Profile(FALSE, FALSE)
<1>9. other \in ProfileType
  BY NewProfileType
<1>10. ASSUME NEW p \in Handles
       PROVE  SinusoidProfiles[p] = IF p = There THEN th ELSE IF p = RThere THEN rt
                                    ELSE IF p = Back THEN bk ELSE IF p = RBack THEN rb
                                    ELSE other
  <2> DEFINE made == Profile(p \in BuiltIn, p \in BuiltIn)
  <2>1. SinusoidProfiles[p] = CASE p = There  -> NextIs(SetTableOf(made, 0), Back)
                                [] p = RThere -> NextIs(SetTableOf(made, 1), Back)
                                [] p = Back   -> NextIs(SetTableOf(made, 0), There)
                                [] p = RBack  -> SetTableOf(made, 3)
                                [] OTHER      -> made
    BY DEF SinusoidProfiles
  <2>2. made = IF p \in BuiltIn THEN new ELSE other
    <3>1. CASE p \in BuiltIn
      <4>1. (p \in BuiltIn) = TRUE
        BY <3>1
      <4> QED
        BY <3>1, <4>1 DEF new
    <3>2. CASE p \notin BuiltIn
      <4>1. (p \in BuiltIn) = FALSE
        BY <3>2
      <4> QED
        BY <3>2, <4>1
    <3> QED
      BY <3>1, <3>2
  <2>3. p \in BuiltIn <=> p \in {There, RThere, Back, RBack}
    BY DEF BuiltIn
  <2>4. /\ There # RThere /\ There # Back /\ There # RBack /\ RThere # Back
        /\ RThere # RBack /\ Back # RBack
    BY BuiltInHandles
  <2> HIDE DEF made, other
  <2>5. CASE p = There
    BY <2>1, <2>2, <2>3, <2>4, <2>5
  <2>6. CASE p = RThere
    BY <2>1, <2>2, <2>3, <2>4, <2>6
  <2>7. CASE p = Back
    BY <2>1, <2>2, <2>3, <2>4, <2>7
  <2>8. CASE p = RBack
    BY <2>1, <2>2, <2>3, <2>4, <2>8
  <2>9. CASE p \notin {There, RThere, Back, RBack}
    BY <2>1, <2>2, <2>3, <2>4, <2>9
  <2> QED
    BY <2>5, <2>6, <2>7, <2>8, <2>9
<1> HIDE DEF th, rt, bk, rb, other, Row
<1>11. /\ SinusoidProfiles[There] = th /\ SinusoidProfiles[RThere] = rt
       /\ SinusoidProfiles[Back] = bk /\ SinusoidProfiles[RBack] = rb
  BY <1>1, <1>10, BuiltInHandles
<1>12. \A p \in Handles : SinusoidProfiles[p] \in ProfileType
  BY <1>5, <1>6, <1>7, <1>8, <1>9, <1>10
<1>13. SinusoidProfiles \in [Handles -> ProfileType]
  <2>1. SinusoidProfiles = [p \in Handles |-> SinusoidProfiles[p]]
    BY DEF SinusoidProfiles
  <2> QED
    BY <1>12, <2>1
<1>14. Laid(SinusoidProfiles)
  <2>1. BuiltIn = {There, RThere, Back, RBack}
    BY DEF BuiltIn
  <2> QED
    BY <1>5, <1>6, <1>7, <1>8, <1>11, <2>1 DEF Laid
<1> QED
  BY <1>13, <1>14

\* Out of touch to begin with.
LEMMA SInvInit == SinusoidInit => SInv
<1> SUFFICES ASSUME SinusoidInit PROVE SInv
  OBVIOUS
<1>1. active \in Items /\ queue \in Seq(Items) /\ queue \in Seq(Queued)
  BY NoItemType DEF SinusoidInit
<1>2. TypeInv /\ Laid(profiles)
  BY <1>1, CreatedLaid DEF SinusoidInit, TypeInv
<1>3. PInv /\ ~Live
  BY <1>1, <1>2 DEF SinusoidInit, PInv, NoRest, AllUnderWay, InTouch, Live
<1>4. drive \in DriveType
  BY EmptyDrive DEF SinusoidInit
<1>5. Static
  BY <1>2, <1>3, <1>4 DEF SinusoidInit, Static
<1> QED
  BY <1>3, <1>5 DEF SInv, LiveFit, LiveNone, LiveRuns, Fresh, Told, Closable

\* Every step keeps the invariant.
LEMMA SInvStep == SInv /\ [SinusoidNext]_allVars => SInv'
<1> SUFFICES ASSUME SInv, [SinusoidNext]_allVars PROVE SInv'
  OBVIOUS
<1>1. ASSUME NEW x \in Positions, NEW a \in Amplitudes, NEW t \in Times
      PROVE  x \in Nat /\ x + 2 * a \in Nat /\ t \in Nat
  <2>1. x \in Nat /\ a \in Nat /\ t \in Nat
    BY ParametersAssumption, SinusoidAssumption
  <2> QED
    BY <2>1
<1>2. CASE SinusoidStart
  <2>1. PICK x \in Positions, a \in Amplitudes, t \in Times :
            Started(StartEdits(x, x + 2 * a, t),
                    NothingWritten(StartEdits(x, x + 2 * a, t)), There, "loop")
    BY <1>2 DEF SinusoidStart
  <2> DEFINE top == x + 2 * a
  <2>2. x \in Nat /\ top \in Nat /\ t \in Nat
    BY <1>1
  <2>3. Started(StartEdits(x, top, t), NothingWritten(StartEdits(x, top, t)), There, "loop")
    BY <2>1
  <2> HIDE DEF top
  <2> QED
    BY <2>2, <2>3, StartInv, StartRefusedInv
<1>3. CASE SinusoidStop
  <2> DEFINE ps == [profiles EXCEPT ![There] = NextIs(@, -1), ![Back] = NextIs(@, -1)]
  <2>1. Stopped(ps, There, "stop")
    BY <1>3 DEF SinusoidStop
  <2>2. ps = [profiles EXCEPT ![There] = NextIs(@, -1), ![Back] = NextIs(@, -1)]
    OBVIOUS
  <2> HIDE DEF ps
  <2> QED
    BY <2>1, <2>2, StopInv
<1>4. CASE RSinusoidStart
  <2>1. PICK x \in Positions, a \in Amplitudes, t \in Times :
            Started(RStartEdits(x, x + 2 * a, t),
                    WriteChain(WriteChain(WriteChain(WriteChain(
                        NothingWritten(RStartEdits(x, x + 2 * a, t)),
                        RThere), There), Back), RBack), RThere, "rloop")
    BY <1>4 DEF RSinusoidStart
  <2> DEFINE top == x + 2 * a
             w == WriteChain(WriteChain(WriteChain(WriteChain(
                        NothingWritten(RStartEdits(x, top, t)),
                        RThere), There), Back), RBack)
  <2>2. x \in Nat /\ top \in Nat /\ t \in Nat
    BY <1>1
  <2>3. Started(RStartEdits(x, top, t), w, RThere, "rloop")
    BY <2>1
  <2>4. w = WriteChain(WriteChain(WriteChain(WriteChain(
                NothingWritten(RStartEdits(x, top, t)), RThere), There), Back), RBack)
    OBVIOUS
  <2> HIDE DEF top, w
  <2> QED
    BY <2>2, <2>3, <2>4, RStartInv
<1>5. CASE RSinusoidStop
  <2> DEFINE ps == [profiles EXCEPT ![There] = NextIs(@, RBack)]
  <2>1. Stopped(ps, There, "rstop")
    BY <1>5 DEF RSinusoidStop
  <2>2. ps = [profiles EXCEPT ![There] = NextIs(@, RBack)]
    OBVIOUS
  <2> HIDE DEF ps
  <2> QED
    BY <2>1, <2>2, BuiltInHandles, StopInv
<1>6. CASE Link
  BY <1>6, ConfirmInv, OutInv, OperationalInv DEF Link
<1>7. CASE UNCHANGED allVars
  BY <1>7 DEF allVars, vars, SInv, Static, PInv, TypeInv, NoRest, AllUnderWay, LiveFit,
              LiveNone, LiveRuns, Fresh, Told, Closable, Live, InTouch, Running, InFlight
<1> QED
  BY <1>2, <1>3, <1>4, <1>5, <1>6, <1>7 DEF SinusoidNext

\* The invariant holds.
LEMMA SInvHolds == SinusoidSpec => []SInv
BY SInvInit, SInvStep, PTL DEF SinusoidSpec

\* Nothing in flight: the drive is as it will be.
LEMMA SInvStops == SInv => StopEnds
<1> SUFFICES ASSUME SInv, InTouch, active = NoItem
             PROVE  /\ wish = "stop" => After(There) = -1
                    /\ wish = "rstop" => After(There) = RBack /\ RampEnds
  BY DEF StopEnds
<1>1. CASE ~Live
  BY <1>1 DEF Live
<1>2. CASE Live
  <2>1. queue = <<>>
    BY DEF SInv, Static, PInv, NoRest, InTouch
  <2>2. InFlight = <<NoItem>>
    BY <2>1 DEF InFlight
  <2>3. PICK e \in DriveType : Runs(drive, <<NoItem>>, e) /\ Obeys(e, wish, tainted)
    BY <1>2, <2>2 DEF SInv, LiveFit
  <2>4. e = drive
    BY <2>3, RunsIdle
  <2>5. AfterIn(drive, There) = After(There) /\ AfterIn(drive, RBack) = After(RBack)
    BY DEF AfterIn, After
  <2> QED
    BY <2>3, <2>4, <2>5 DEF Obeys, RampEnds
<1> QED
  BY <1>1, <1>2

\* A motion that is started: the drive is as it was.
LEMMA SInvCloses == SInv => LoopIsClosed
<1> SUFFICES ASSUME SInv, active.op = "run", InTouch, wish # "cut",
                    {There, Back, active.p} \cap tainted = {}
             PROVE  /\ After(There) = Back /\ After(Back) = There
                    /\ active.p = RThere => After(RThere) = Back
  BY DEF LoopIsClosed
<1>1. Live
  BY DEF Live
<1>2. PICK t : IsRun(t, drive, InFlight)
  BY <1>1 DEF SInv, LiveFit, Runs
<1>3. active \in Items /\ queue \in Seq(Items)
  BY DEF SInv, Static, PInv, TypeInv
<1>4. 1 \in 1..Len(InFlight) /\ InFlight[1] = active /\ 1 - 1 = 0
  BY <1>3 DEF InFlight
<1>5. t[0] = drive /\ t[1] = Done(t[0], active)
  BY <1>2, <1>4 DEF IsRun
<1>6. t[1] = drive
  BY <1>5 DEF Done
<1>7. Closed(drive, active.p, tainted)
  BY <1>1, <1>2, <1>4, <1>6 DEF SInv, LiveRuns
<1>8. \A p : AfterIn(drive, p) = After(p)
  BY DEF AfterIn, After
<1> QED
  BY <1>7, <1>8 DEF Closed

(***************************************************************************)
(* Once the writes of a stop command are through, the drive comes to an    *)
(* end from the way there: whatever commands came before, given while the  *)
(* writes of others were on their way, refused, or repeated, through lost  *)
(* links and restarts of the drive; over the ramp if it is not tainted     *)
(* (see RStopEnds).                                                        *)
(***************************************************************************)
THEOREM StopEndsHolds == SinusoidSpec => []StopEnds
BY SInvHolds, SInvStops, PTL

(***************************************************************************)
(* The sled is set in motion only when both ways of the oscillation, and   *)
(* the ramp that leads into it, are linked in the drive, unless a profile  *)
(* of it is tainted.  sled_sinusoid_start writes the way back only if      *)
(* there is a change in the way there: it is never needed otherwise.       *)
(***************************************************************************)
THEOREM LoopIsClosedHolds == SinusoidSpec => []LoopIsClosed
BY SInvHolds, SInvCloses, PTL

(***************************************************************************)
(* The motion tasks of the sinusoid are the profiles once they count as    *)
(* written, with writes that are not followed by a start, four profiles    *)
(* that name each other, and starts that are refused; as long as no writes *)
(* were on their way when the sled became operational.                     *)
(***************************************************************************)
THEOREM SinusoidTasksHold == SinusoidSpec => [](wish # "cut" => TaskIsProfile)
<1>1. SInv => (wish # "cut" => TaskIsProfile)
  <2> SUFFICES ASSUME SInv, wish # "cut", NEW p \in Handles, Settled(p), p \notin tainted
               PROVE  InDrive(p)
    BY DEF TaskIsProfile
  <2>1. Live
    BY DEF Settled, Live
  <2>2. TaskIsProfile
    BY <2>1, LiveTask, SettledIsInDrive
  <2> QED
    BY <2>2 DEF TaskIsProfile
<1> QED
  BY <1>1, SInvHolds, PTL
=============================================================================
