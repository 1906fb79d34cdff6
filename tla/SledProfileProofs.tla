------------------------- MODULE SledProfileProofs --------------------------
(***************************************************************************)
(* Proofs about the motion profiles (SledProfile): their types, and that a *)
(* field that waits for a confirmation is on its way with the value the    *)
(* profile has, for any number of profiles and any parameters.             *)
(***************************************************************************)
EXTENDS SledProfile, WellFoundedInduction, TLAPS

-----------------------------------------------------------------------------
\* Induction, on a set in the place of a property.
LEMMA NatInductionOnSet ==
    ASSUME NEW S, 0 \in S, \A n \in Nat : n \in S => n + 1 \in S
    PROVE  Nat \subseteq S
<1> DEFINE T == Nat \ S
           R == OpToRel(<, Nat)
<1> SUFFICES ASSUME T # {} PROVE FALSE
  OBVIOUS
<1>1. IsWellFoundedOn(R, Nat)
  BY NatLessThanWellFounded
<1> HIDE DEF R
<1>2. T \subseteq Nat /\ T # {}
  OBVIOUS
<1> HIDE DEF T
<1>3. PICK m \in T : \A k \in T : ~(<<k, m>> \in R)
  BY <1>1, <1>2, WFMin
<1>4. \A k \in T : ~(k < m)
  BY <1>2, <1>3 DEF R, OpToRel
<1> QED
  BY <1>4 DEF T

\* Of the positions in a sequence that have something in common, one is last.
LEMMA LastPosition ==
    ASSUME NEW n \in Nat, NEW I \in SUBSET (1..n), I # {}
    PROVE  \E i \in I : \A j \in I : j <= i
<1> DEFINE S == {k \in Nat : \A J \in SUBSET (1..k) :
                     J # {} => \E i \in J : \A j \in J : j <= i}
<1>1. 0 \in S
  <2>1. \A J \in SUBSET (1..0) : J = {}
    OBVIOUS
  <2> QED
    BY <2>1
<1>2. ASSUME NEW k \in Nat, k \in S PROVE k + 1 \in S
  <2> SUFFICES ASSUME NEW J \in SUBSET (1..(k + 1)), J # {}
               PROVE  \E i \in J : \A j \in J : j <= i
    OBVIOUS
  <2>1. CASE k + 1 \in J
    BY <2>1
  <2>2. CASE k + 1 \notin J
    <3>1. J \in SUBSET (1..k)
      BY <2>2
    <3> QED
      BY <1>2, <3>1
  <2> QED
    BY <2>1, <2>2
<1> HIDE DEF S
<1>3. n \in S
  BY <1>1, <1>2, NatInductionOnSet
<1> QED
  BY <1>3 DEF S

-----------------------------------------------------------------------------
\* Types.
PositionTypesOK == {"pos_absolute", "pos_relative_actual", "pos_relative_target"}
BlendTypesOK == {"bln_none", "bln_before", "bln_after"}

ProfileType ==
    [in_use : BOOLEAN, never_sent : BOOLEAN, table : Nat, position_type : PositionTypesOK,
     position : Nat, time : Nat, next_profile : Handles \cup {-1}, delay : Nat,
     blend_type : BlendTypesOK, state : [Fields -> FieldStates]]

TypeInv ==
    /\ profiles \in [Handles -> ProfileType]
    /\ current \in Handles \cup {-1}
    /\ net \in {"down", "preop", "oper"} /\ sdo \in {"disabled", "enabled", "error"}
    /\ active \in Items /\ queue \in Seq(Items)
    /\ status \in {"running", "exited"}

\* The value of a field is a number.
LEMMA FieldValueType ==
    ASSUME NEW pr \in ProfileType, NEW f \in Fields
    PROVE  FieldValue(pr, f) \in Int
<1>1. /\ pr.table \in Nat /\ pr.position \in Nat /\ pr.time \in Nat /\ pr.delay \in Nat
      /\ pr.next_profile \in Int
      /\ pr.position_type \in PositionTypesOK /\ pr.blend_type \in BlendTypesOK
  BY NProfilesAssumption DEF ProfileType, Handles
<1>2. ControlWord(pr) \in Int
  BY <1>1 DEF ControlWord, PositionTypesOK, BlendTypesOK
<1>3. pr.position \div 1000 \in Int /\ (pr.time + 1) \div 2 \in Int
  BY <1>1
<1>4. TaskNumber(pr.next_profile) \in Int
  BY <1>1 DEF TaskNumber
<1> QED
  BY <1>1, <1>2, <1>3, <1>4 DEF FieldValue, Fields

\* A profile as sled_profile_clear leaves it.
LEMMA NewProfileType ==
    ASSUME NEW inUse \in BOOLEAN, NEW neverSent \in BOOLEAN
    PROVE  Profile(inUse, neverSent) \in ProfileType
<1>1. AllFields("FIELD_CHANGED") \in [Fields -> FieldStates]
  BY DEF AllFields, FieldStates
<1> QED
  BY <1>1 DEF Profile, ProfileType, PositionTypesOK, BlendTypesOK

\* What TypeInv says is what is checked.
LEMMA TypeInvImplies == TypeInv => ProfilesTypeOK
<1> SUFFICES ASSUME TypeInv, NEW p \in Handles
             PROVE  /\ DOMAIN profiles[p] = DOMAIN Profile(TRUE, TRUE)
                    /\ profiles[p].state \in [Fields -> FieldStates]
                    /\ profiles[p].next_profile \in Handles \cup {-1}
  BY DEF TypeInv, ProfilesTypeOK
<1>1. profiles[p] \in ProfileType
  BY DEF TypeInv
<1>2. DOMAIN profiles[p] = {"in_use", "never_sent", "table", "position_type", "position",
                            "time", "next_profile", "delay", "blend_type", "state"}
  BY <1>1 DEF ProfileType
<1>3. DOMAIN Profile(TRUE, TRUE) = {"in_use", "never_sent", "table", "position_type",
         "position", "time", "next_profile", "delay", "blend_type", "state"}
  BY DEF Profile
<1> QED
  BY <1>1, <1>2, <1>3 DEF ProfileType

-----------------------------------------------------------------------------
\* The last write of field f of profile p in a sequence of items has value v.
IsWrite(item, p, f) == item.op = "field" /\ item.p = p /\ item.f = f

LastWrites(s, p, f, v) ==
    \E i \in 1..Len(s) :
        /\ IsWrite(s[i], p, f) /\ s[i].val = v
        /\ \A j \in 1..Len(s) : IsWrite(s[j], p, f) => j <= i

NoWrites(s, p, f) == \A i \in 1..Len(s) : ~IsWrite(s[i], p, f)

\* WritingIsUnderWay, of one profile.
UnderWay(s, pr, p) ==
    \A f \in Fields : pr.in_use /\ pr.state[f] = "FIELD_WRITING" =>
                          LastWrites(s, p, f, FieldValue(pr, f))

\* This is WritingIsUnderWay, with the set of positions written out.
LEMMA UnderWayIsChecked ==
    (InTouch => \A p \in Handles : UnderWay(InFlight, profiles[p], p))
        => WritingIsUnderWay
<1> SUFFICES ASSUME InTouch, NEW p \in Handles, UnderWay(InFlight, profiles[p], p),
                    NEW f \in Fields, profiles[p].in_use,
                    profiles[p].state[f] = "FIELD_WRITING"
             PROVE  LET mine == {i \in 1..Len(InFlight) : /\ InFlight[i].op = "field"
                                                          /\ InFlight[i].p = p
                                                          /\ InFlight[i].f = f}
                    IN  \E i \in mine : /\ \A j \in mine : j <= i
                                        /\ InFlight[i].val = FieldValue(profiles[p], f)
  BY DEF WritingIsUnderWay
<1> DEFINE s == InFlight
<1>1. LastWrites(s, p, f, FieldValue(profiles[p], f))
  BY DEF UnderWay
<1> HIDE DEF s
<1>2. LET mine == {i \in 1..Len(s) : s[i].op = "field" /\ s[i].p = p /\ s[i].f = f}
      IN  \E i \in mine : /\ \A j \in mine : j <= i
                          /\ s[i].val = FieldValue(profiles[p], f)
  BY <1>1 DEF LastWrites, IsWrite
<1> QED
  BY <1>2 DEF s

\* The first item is dealt with, and is not the write in question.
LEMMA LastOfTail ==
    ASSUME NEW x \in Items, NEW q \in Seq(Items), NEW p, NEW f, NEW v,
           LastWrites(<<x>> \o q, p, f, v), ~IsWrite(x, p, f)
    PROVE  q # <<>> /\ LastWrites(q, p, f, v)
<1> DEFINE s == <<x>> \o q
<1>1. /\ s \in Seq(Items) /\ Len(s) = Len(q) + 1 /\ s[1] = x /\ Len(q) \in Nat
      /\ \A i \in 1..Len(q) : i + 1 \in 1..Len(s) /\ s[i + 1] = q[i]
  OBVIOUS
<1>2. LastWrites(s, p, f, v)
  OBVIOUS
<1> HIDE DEF s
<1>3. PICK i \in 1..Len(s) : /\ IsWrite(s[i], p, f) /\ s[i].val = v
                             /\ \A j \in 1..Len(s) : IsWrite(s[j], p, f) => j <= i
  BY <1>2 DEF LastWrites
<1>4. i # 1
  BY <1>1, <1>3
<1>5. i - 1 \in 1..Len(q) /\ s[i] = q[i - 1]
  BY <1>1, <1>3, <1>4
<1>6. ASSUME NEW j \in 1..Len(q), IsWrite(q[j], p, f) PROVE j <= i - 1
  <2>1. j + 1 <= i
    BY <1>1, <1>3, <1>6
  <2> QED
    BY <2>1, <1>5
<1>7. LastWrites(q, p, f, v)
  BY <1>3, <1>5, <1>6 DEF LastWrites
<1> QED
  BY <1>5, <1>7

\* Items that are other writes are queued behind it.
LEMMA LastStays ==
    ASSUME NEW s \in Seq(Items), NEW t \in Seq(Items), NEW p, NEW f, NEW v,
           LastWrites(s, p, f, v), NoWrites(t, p, f)
    PROVE  LastWrites(s \o t, p, f, v)
<1> DEFINE u == s \o t
<1>1. /\ Len(u) = Len(s) + Len(t) /\ Len(s) \in Nat /\ Len(t) \in Nat
      /\ \A i \in 1..Len(s) : u[i] = s[i]
      /\ \A i \in 1..Len(u) : i > Len(s) => i - Len(s) \in 1..Len(t) /\ u[i] = t[i - Len(s)]
  OBVIOUS
<1> HIDE DEF u
<1>2. PICK i \in 1..Len(s) : /\ IsWrite(s[i], p, f) /\ s[i].val = v
                             /\ \A j \in 1..Len(s) : IsWrite(s[j], p, f) => j <= i
  BY DEF LastWrites
<1>3. i \in 1..Len(u) /\ u[i] = s[i]
  BY <1>1, <1>2
<1>4. ASSUME NEW j \in 1..Len(u), IsWrite(u[j], p, f) PROVE j <= i
  <2>1. ~(j > Len(s))
    BY <1>1, <1>4 DEF NoWrites
  <2>2. j \in 1..Len(s)
    BY <1>1, <2>1
  <2> QED
    BY <1>1, <1>2, <1>4, <2>2
<1>5. LastWrites(u, p, f, v)
  BY <1>2, <1>3, <1>4 DEF LastWrites
<1> QED
  BY <1>5 DEF u

\* The write is queued, as often as may be, and always with the same value.
LEMMA LastQueued ==
    ASSUME NEW s \in Seq(Items), NEW t \in Seq(Items), NEW p, NEW f, NEW v,
           ~NoWrites(t, p, f),
           \A i \in 1..Len(t) : IsWrite(t[i], p, f) => t[i].val = v
    PROVE  LastWrites(s \o t, p, f, v)
<1> DEFINE u == s \o t
           I == {i \in 1..Len(t) : IsWrite(t[i], p, f)}
<1>1. PICK i \in I : \A j \in I : j <= i
  <2>1. I \in SUBSET (1..Len(t)) /\ I # {} /\ Len(t) \in Nat
    BY DEF NoWrites
  <2> HIDE DEF I
  <2> QED
    BY <2>1, LastPosition
<1>2. /\ Len(u) = Len(s) + Len(t) /\ Len(s) \in Nat /\ Len(t) \in Nat
      /\ \A k \in 1..Len(t) : u[k + Len(s)] = t[k]
      /\ \A k \in 1..Len(u) : k > Len(s) => k - Len(s) \in 1..Len(t) /\ u[k] = t[k - Len(s)]
  OBVIOUS
<1> HIDE DEF u
<1>3. i + Len(s) \in 1..Len(u) /\ u[i + Len(s)] = t[i]
  BY <1>1, <1>2
<1>4. ASSUME NEW j \in 1..Len(u), IsWrite(u[j], p, f) PROVE j <= i + Len(s)
  <2>1. CASE j > Len(s)
    <3>1. j - Len(s) \in I
      BY <1>2, <1>4, <2>1
    <3>2. j - Len(s) <= i
      BY <1>1, <3>1
    <3> QED
      BY <1>2, <3>2
  <2>2. CASE ~(j > Len(s))
    BY <1>2, <2>2
  <2> QED
    BY <2>1, <2>2
<1>5. LastWrites(u, p, f, v)
  BY <1>1, <1>3, <1>4 DEF LastWrites
<1> QED
  BY <1>5 DEF u

-----------------------------------------------------------------------------
(***************************************************************************)
(* What a setter may do: a field keeps its value, or is marked as changed. *)
(***************************************************************************)
MarksChanges(pr, new) ==
    /\ new \in ProfileType /\ new.in_use = pr.in_use
    /\ \A f \in Fields : \/ new.state[f] = "FIELD_CHANGED"
                         \/ /\ new.state[f] = pr.state[f]
                            /\ FieldValue(new, f) = FieldValue(pr, f)

\* sled_profile_set_field_state, for some fields.
LEMMA MarkedIs ==
    ASSUME NEW pr \in ProfileType, NEW b, NEW fields
    PROVE  LET m == Marked(pr, b, fields)
           IN  /\ m \in ProfileType
               /\ m = [pr EXCEPT !.state = m.state]
               /\ m.state = [f \in Fields |-> IF b /\ f \in fields THEN "FIELD_CHANGED"
                                                                  ELSE pr.state[f]]
<1> DEFINE st == [f \in Fields |-> IF f \in fields THEN "FIELD_CHANGED" ELSE pr.state[f]]
<1>1. pr.state \in [Fields -> FieldStates]
  BY DEF ProfileType
<1>2. st \in [Fields -> FieldStates]
  BY <1>1 DEF FieldStates
<1>3. CASE b
  <2>1. Marked(pr, b, fields) = [pr EXCEPT !.state = st]
    BY <1>3 DEF Marked
  <2> HIDE DEF st
  <2>2. [pr EXCEPT !.state = st] \in ProfileType /\ [pr EXCEPT !.state = st].state = st
    BY <1>2 DEF ProfileType
  <2> QED
    BY <1>3, <2>1, <2>2 DEF st
<1>4. CASE ~b
  <2>1. Marked(pr, b, fields) = pr
    BY <1>4 DEF Marked
  <2>2. pr = [pr EXCEPT !.state = pr.state]
    BY DEF ProfileType
  <2>3. pr.state = [f \in Fields |-> pr.state[f]]
    BY <1>1
  <2> QED
    BY <1>4, <2>1, <2>2, <2>3
<1> QED
  BY <1>3, <1>4

\* sled_profile_set_table.
LEMMA TableMarks ==
    ASSUME NEW pr \in ProfileType, NEW t \in Tables
    PROVE  MarksChanges(pr, SetTableOf(pr, t))
<1> DEFINE changes == pr.table # t
           m == Marked(pr, changes, {"O_TAB"})
           new == [m EXCEPT !.table = t]
<1>1. SetTableOf(pr, t) = new
  BY DEF SetTableOf
<1> HIDE DEF changes
<1>2. /\ m \in ProfileType /\ m = [pr EXCEPT !.state = m.state]
      /\ m.state = [f \in Fields |-> IF changes /\ f \in {"O_TAB"}
                                     THEN "FIELD_CHANGED" ELSE pr.state[f]]
  BY MarkedIs
<1> HIDE DEF m
<1>3. new \in ProfileType
  BY <1>2, ParametersAssumption DEF ProfileType
<1>4. /\ new.in_use = pr.in_use /\ new.position = pr.position /\ new.time = pr.time
      /\ new.next_profile = pr.next_profile /\ new.delay = pr.delay /\ new.table = t
      /\ new.position_type = pr.position_type /\ new.blend_type = pr.blend_type
      /\ new.state = m.state
  BY <1>2 DEF ProfileType
<1> HIDE DEF new
<1>5. ControlWord(new) = ControlWord(pr)
  BY <1>4 DEF ControlWord
<1>6. ASSUME NEW f \in Fields
      PROVE  \/ new.state[f] = "FIELD_CHANGED"
             \/ new.state[f] = pr.state[f] /\ FieldValue(new, f) = FieldValue(pr, f)
  <2>1. f = "O_TAB" /\ pr.table # t => new.state[f] = "FIELD_CHANGED"
    BY <1>2, <1>4 DEF changes
  <2>2. ~(f = "O_TAB" /\ pr.table # t) => new.state[f] = pr.state[f]
    BY <1>2, <1>4 DEF changes
  <2>3. ~(f = "O_TAB" /\ pr.table # t) => FieldValue(new, f) = FieldValue(pr, f)
    BY <1>4, <1>5 DEF FieldValue, Fields
  <2> QED
    BY <2>1, <2>2, <2>3
<1> QED
  BY <1>1, <1>3, <1>4, <1>6 DEF MarksChanges

\* sled_profile_set_target.
LEMMA TargetMarks ==
    ASSUME NEW pr \in ProfileType, NEW type \in PositionTypesOK, NEW x \in Nat,
           NEW t \in Nat
    PROVE  MarksChanges(pr, SetTargetOf(pr, type, x, t))
<1> DEFINE change1 == pr.position_type # type
           change2 == pr.position # x
           change3 == pr.time # t
           a == Marked(pr, change1, {"O_C"})
           b == Marked(a, change2, {"O_P"})
           c == Marked(b, change3, {"O_ACC", "O_DEC"})
           new == [c EXCEPT !.position_type = type, !.position = x, !.time = t]
<1>1. SetTargetOf(pr, type, x, t) = new
  BY DEF SetTargetOf
<1> HIDE DEF change1, change2, change3
<1>2. /\ a \in ProfileType /\ a = [pr EXCEPT !.state = a.state]
      /\ a.state = [f \in Fields |-> IF change1 /\ f \in {"O_C"}
                                     THEN "FIELD_CHANGED" ELSE pr.state[f]]
  BY MarkedIs
<1> HIDE DEF a
<1>3. /\ b \in ProfileType /\ b = [a EXCEPT !.state = b.state]
      /\ b.state = [f \in Fields |-> IF change2 /\ f \in {"O_P"}
                                     THEN "FIELD_CHANGED" ELSE a.state[f]]
  BY <1>2, MarkedIs
<1> HIDE DEF b
<1>4. /\ c \in ProfileType /\ c = [b EXCEPT !.state = c.state]
      /\ c.state = [f \in Fields |-> IF change3 /\ f \in {"O_ACC", "O_DEC"}
                                     THEN "FIELD_CHANGED" ELSE b.state[f]]
  BY <1>3, MarkedIs
<1> HIDE DEF c
<1>5. new \in ProfileType
  BY <1>4 DEF ProfileType
<1>6. /\ new.position = x /\ new.time = t /\ new.position_type = type
      /\ new.in_use = c.in_use /\ new.next_profile = c.next_profile
      /\ new.delay = c.delay /\ new.table = c.table
      /\ new.blend_type = c.blend_type /\ new.state = c.state
  BY <1>4 DEF ProfileType
<1>7. /\ c.in_use = pr.in_use /\ c.next_profile = pr.next_profile
      /\ c.delay = pr.delay /\ c.table = pr.table /\ c.blend_type = pr.blend_type
  <2>1. /\ a.in_use = pr.in_use /\ a.next_profile = pr.next_profile
        /\ a.delay = pr.delay /\ a.table = pr.table /\ a.blend_type = pr.blend_type
    BY <1>2 DEF ProfileType
  <2>2. /\ b.in_use = a.in_use /\ b.next_profile = a.next_profile
        /\ b.delay = a.delay /\ b.table = a.table /\ b.blend_type = a.blend_type
    BY <1>2, <1>3 DEF ProfileType
  <2>3. /\ c.in_use = b.in_use /\ c.next_profile = b.next_profile
        /\ c.delay = b.delay /\ c.table = b.table /\ c.blend_type = b.blend_type
    BY <1>3, <1>4 DEF ProfileType
  <2> QED
    BY <2>1, <2>2, <2>3
<1> HIDE DEF new
<1>8. ASSUME NEW f \in Fields
      PROVE  \/ new.state[f] = "FIELD_CHANGED"
             \/ new.state[f] = pr.state[f] /\ FieldValue(new, f) = FieldValue(pr, f)
  <2> DEFINE touched == \/ f = "O_C" /\ pr.position_type # type
                        \/ f = "O_P" /\ pr.position # x
                        \/ f \in {"O_ACC", "O_DEC"} /\ pr.time # t
  <2>1. touched => new.state[f] = "FIELD_CHANGED"
    BY <1>2, <1>3, <1>4, <1>6 DEF change1, change2, change3
  <2>2. ~touched => new.state[f] = pr.state[f]
    BY <1>2, <1>3, <1>4, <1>6 DEF change1, change2, change3
  <2>3. ~touched => FieldValue(new, f) = FieldValue(pr, f)
    <3>1. pr.position_type = type => ControlWord(new) = ControlWord(pr)
      BY <1>6, <1>7 DEF ControlWord
    <3> QED
      BY <1>6, <1>7, <3>1 DEF FieldValue, Fields
  <2> QED
    BY <2>1, <2>2, <2>3
<1> QED
  BY <1>1, <1>5, <1>6, <1>7, <1>8 DEF MarksChanges

\* sled_profile_set_next.
LEMMA NextMarks ==
    ASSUME NEW pr \in ProfileType, NEW n \in Handles \cup {-1}, NEW d \in Nat,
           NEW bl \in BlendTypesOK
    PROVE  MarksChanges(pr, SetNextOf(pr, n, d, bl))
<1> DEFINE change1 == pr.next_profile # n
           change2 == pr.delay # d
           change3 == pr.blend_type # bl
           a == Marked(pr, change1, {"O_C", "O_FN"})
           b == Marked(a, change2, {"O_C", "O_FT"})
           c == Marked(b, change3, {"O_C"})
           new == [c EXCEPT !.next_profile = n, !.delay = d, !.blend_type = bl]
<1>1. SetNextOf(pr, n, d, bl) = new
  BY DEF SetNextOf
<1> HIDE DEF change1, change2, change3
<1>2. /\ a \in ProfileType /\ a = [pr EXCEPT !.state = a.state]
      /\ a.state = [f \in Fields |-> IF change1 /\ f \in {"O_C", "O_FN"}
                                     THEN "FIELD_CHANGED" ELSE pr.state[f]]
  BY MarkedIs
<1> HIDE DEF a
<1>3. /\ b \in ProfileType /\ b = [a EXCEPT !.state = b.state]
      /\ b.state = [f \in Fields |-> IF change2 /\ f \in {"O_C", "O_FT"}
                                     THEN "FIELD_CHANGED" ELSE a.state[f]]
  BY <1>2, MarkedIs
<1> HIDE DEF b
<1>4. /\ c \in ProfileType /\ c = [b EXCEPT !.state = c.state]
      /\ c.state = [f \in Fields |-> IF change3 /\ f \in {"O_C"}
                                     THEN "FIELD_CHANGED" ELSE b.state[f]]
  BY <1>3, MarkedIs
<1> HIDE DEF c
<1>5. new \in ProfileType
  BY <1>4 DEF ProfileType
<1>6. /\ new.next_profile = n /\ new.delay = d /\ new.blend_type = bl
      /\ new.in_use = c.in_use /\ new.position = c.position /\ new.time = c.time
      /\ new.position_type = c.position_type /\ new.table = c.table
      /\ new.state = c.state
  BY <1>4 DEF ProfileType
<1>7. /\ c.in_use = pr.in_use /\ c.position = pr.position /\ c.time = pr.time
      /\ c.position_type = pr.position_type /\ c.table = pr.table
  <2>1. /\ a.in_use = pr.in_use /\ a.position = pr.position /\ a.time = pr.time
        /\ a.position_type = pr.position_type /\ a.table = pr.table
    BY <1>2 DEF ProfileType
  <2>2. /\ b.in_use = a.in_use /\ b.position = a.position /\ b.time = a.time
        /\ b.position_type = a.position_type /\ b.table = a.table
    BY <1>2, <1>3 DEF ProfileType
  <2>3. /\ c.in_use = b.in_use /\ c.position = b.position /\ c.time = b.time
        /\ c.position_type = b.position_type /\ c.table = b.table
    BY <1>3, <1>4 DEF ProfileType
  <2> QED
    BY <2>1, <2>2, <2>3
<1> HIDE DEF new
<1>8. ASSUME NEW f \in Fields
      PROVE  \/ new.state[f] = "FIELD_CHANGED"
             \/ new.state[f] = pr.state[f] /\ FieldValue(new, f) = FieldValue(pr, f)
  <2> DEFINE touched == \/ f \in {"O_C", "O_FN"} /\ pr.next_profile # n
                        \/ f \in {"O_C", "O_FT"} /\ pr.delay # d
                        \/ f = "O_C" /\ pr.blend_type # bl
  <2>1. touched => new.state[f] = "FIELD_CHANGED"
    BY <1>2, <1>3, <1>4, <1>6 DEF change1, change2, change3
  <2>2. ~touched => new.state[f] = pr.state[f]
    BY <1>2, <1>3, <1>4, <1>6 DEF change1, change2, change3
  <2>3. ~touched => FieldValue(new, f) = FieldValue(pr, f)
    <3>1. pr.next_profile = n /\ pr.blend_type = bl => ControlWord(new) = ControlWord(pr)
      BY <1>6, <1>7 DEF ControlWord
    <3> QED
      BY <1>6, <1>7, <3>1 DEF FieldValue, Fields
  <2> QED
    BY <2>1, <2>2, <2>3
<1> QED
  BY <1>1, <1>5, <1>6, <1>7, <1>8 DEF MarksChanges

-----------------------------------------------------------------------------
\* Every write of a field in a sequence of items has value v.
AllWrite(s, p, f, v) == \A i \in 1..Len(s) : IsWrite(s[i], p, f) => s[i].val = v

\* Items that are queued are something.
Queued == {x \in Items : x.op # "none"}

\* The writes of two sequences, one after the other.
LEMMA ConcatWrites ==
    ASSUME NEW S, NEW s \in Seq(S), NEW t \in Seq(S), NEW p, NEW f, NEW v
    PROVE  /\ s \o t \in Seq(S)
           /\ NoWrites(s \o t, p, f) <=> NoWrites(s, p, f) /\ NoWrites(t, p, f)
           /\ AllWrite(s \o t, p, f, v) <=> AllWrite(s, p, f, v) /\ AllWrite(t, p, f, v)
<1> DEFINE u == s \o t
<1>1. /\ u \in Seq(S)
      /\ Len(u) = Len(s) + Len(t) /\ Len(s) \in Nat /\ Len(t) \in Nat
      /\ \A i \in 1..Len(s) : i \in 1..Len(u) /\ u[i] = s[i]
      /\ \A i \in 1..Len(t) : i + Len(s) \in 1..Len(u) /\ u[i + Len(s)] = t[i]
      /\ \A i \in 1..Len(u) : i > Len(s) => i - Len(s) \in 1..Len(t) /\ u[i] = t[i - Len(s)]
      /\ \A i \in 1..Len(u) : ~(i > Len(s)) => i \in 1..Len(s)
  OBVIOUS
<1> HIDE DEF u
<1>2. NoWrites(u, p, f) <=> NoWrites(s, p, f) /\ NoWrites(t, p, f)
  <2>1. NoWrites(u, p, f) => NoWrites(s, p, f) /\ NoWrites(t, p, f)
    BY <1>1 DEF NoWrites
  <2>2. NoWrites(s, p, f) /\ NoWrites(t, p, f) => NoWrites(u, p, f)
    BY <1>1 DEF NoWrites
  <2> QED
    BY <2>1, <2>2
<1>3. AllWrite(u, p, f, v) <=> AllWrite(s, p, f, v) /\ AllWrite(t, p, f, v)
  <2>1. AllWrite(u, p, f, v) => AllWrite(s, p, f, v) /\ AllWrite(t, p, f, v)
    BY <1>1 DEF AllWrite
  <2>2. ASSUME AllWrite(s, p, f, v), AllWrite(t, p, f, v) PROVE AllWrite(u, p, f, v)
    <3> SUFFICES ASSUME NEW i \in 1..Len(u), IsWrite(u[i], p, f) PROVE u[i].val = v
      BY DEF AllWrite
    <3>1. CASE i > Len(s)
      BY <1>1, <2>2, <3>1 DEF AllWrite
    <3>2. CASE ~(i > Len(s))
      BY <1>1, <2>2, <3>2 DEF AllWrite
    <3> QED
      BY <3>1, <3>2
  <2> QED
    BY <2>1, <2>2
<1> QED
  BY <1>1, <1>2, <1>3 DEF u

\* One field, if it has changed.
LEMMA OneFieldWrites ==
    ASSUME NEW pr \in ProfileType, NEW p \in Handles, NEW f \in Fields,
           NEW q, NEW g \in Fields
    PROVE  LET s == WriteIfChanged(pr, p, f)
           IN  /\ s \in Seq(Queued)
               /\ NoWrites(s, q, g) <=> ~(q = p /\ g = f /\ pr.state[f] = "FIELD_CHANGED")
               /\ AllWrite(s, p, g, FieldValue(pr, g))
<1> DEFINE x == WriteField(p, f, FieldValue(pr, f))
<1>1. FieldValue(pr, f) \in Int
  BY FieldValueType
<1>2. x \in Queued /\ IsWrite(x, p, f) /\ x.val = FieldValue(pr, f)
      /\ (IsWrite(x, q, g) <=> q = p /\ g = f)
      /\ (IsWrite(x, p, g) <=> g = f)
  BY <1>1 DEF WriteField, Items, Queued, IsWrite
<1>3. CASE pr.state[f] = "FIELD_CHANGED"
  <2>1. WriteIfChanged(pr, p, f) = <<x>>
    BY <1>3 DEF WriteIfChanged
  <2> HIDE DEF x
  <2>2. <<x>> \in Seq(Queued) /\ Len(<<x>>) = 1 /\ <<x>>[1] = x
    BY <1>2
  <2>3. \A i \in 1..1 : i = 1
    OBVIOUS
  <2> DEFINE s == <<x>>
  <2>4. s \in Seq(Queued) /\ Len(s) = 1 /\ s[1] = x
    BY <2>2
  <2> HIDE DEF s
  <2>5. NoWrites(s, q, g) <=> ~(q = p /\ g = f)
    BY <1>2, <2>3, <2>4 DEF NoWrites
  <2>6. AllWrite(s, p, g, FieldValue(pr, g))
    BY <1>2, <2>3, <2>4 DEF AllWrite
  <2> QED
    BY <1>3, <2>1, <2>4, <2>5, <2>6 DEF s
<1>4. CASE pr.state[f] # "FIELD_CHANGED"
  <2>1. WriteIfChanged(pr, p, f) = <<>>
    BY <1>4 DEF WriteIfChanged
  <2>2. <<>> \in Seq(Queued) /\ NoWrites(<<>>, q, g)
        /\ AllWrite(<<>>, p, g, FieldValue(pr, g))
    BY DEF NoWrites, AllWrite
  <2> QED
    BY <1>4, <2>1, <2>2
<1> QED
  BY <1>3, <1>4

\* All of them, in the order of sled_profile_write_pending_changes.
LEMMA FieldsWritten ==
    ASSUME NEW pr \in ProfileType, NEW p \in Handles, NEW q, NEW g \in Fields
    PROVE  LET s == FieldWrites(pr, p)
           IN  /\ s \in Seq(Queued)
               /\ NoWrites(s, q, g) <=> ~(q = p /\ pr.state[g] = "FIELD_CHANGED")
               /\ AllWrite(s, p, g, FieldValue(pr, g))
<1> DEFINE W(f) == WriteIfChanged(pr, p, f)
           v == FieldValue(pr, g)
           Fine(s) == s \in Seq(Queued) /\ AllWrite(s, p, g, v)
           Off(f) == ~(q = p /\ g = f /\ pr.state[f] = "FIELD_CHANGED")
<1>1. \A f \in Fields : Fine(W(f)) /\ (NoWrites(W(f), q, g) <=> Off(f))
  BY OneFieldWrites
<1>2. ASSUME NEW s, NEW t, Fine(s), Fine(t)
      PROVE  Fine(s \o t) /\ (NoWrites(s \o t, q, g) <=> NoWrites(s, q, g) /\ NoWrites(t, q, g))
  BY <1>2, ConcatWrites
<1>3. FieldWrites(pr, p) = W("O_P") \o W("O_V") \o W("O_C") \o W("O_ACC")
                           \o W("O_DEC") \o W("O_TAB") \o W("O_FN") \o W("O_FT")
  BY DEF FieldWrites
<1>4. /\ Fine(W("O_P")) /\ (NoWrites(W("O_P"), q, g) <=> Off("O_P"))
      /\ Fine(W("O_V")) /\ (NoWrites(W("O_V"), q, g) <=> Off("O_V"))
      /\ Fine(W("O_C")) /\ (NoWrites(W("O_C"), q, g) <=> Off("O_C"))
      /\ Fine(W("O_ACC")) /\ (NoWrites(W("O_ACC"), q, g) <=> Off("O_ACC"))
      /\ Fine(W("O_DEC")) /\ (NoWrites(W("O_DEC"), q, g) <=> Off("O_DEC"))
      /\ Fine(W("O_TAB")) /\ (NoWrites(W("O_TAB"), q, g) <=> Off("O_TAB"))
      /\ Fine(W("O_FN")) /\ (NoWrites(W("O_FN"), q, g) <=> Off("O_FN"))
      /\ Fine(W("O_FT")) /\ (NoWrites(W("O_FT"), q, g) <=> Off("O_FT"))
  BY <1>1 DEF Fields
<1>5. Off("O_P") /\ Off("O_V") /\ Off("O_C") /\ Off("O_ACC") /\ Off("O_DEC")
         /\ Off("O_TAB") /\ Off("O_FN") /\ Off("O_FT")
      <=> ~(q = p /\ pr.state[g] = "FIELD_CHANGED")
  BY DEF Fields
<1> HIDE DEF W, Fine, Off, v
<1> DEFINE s2 == W("O_P") \o W("O_V")
           s3 == s2 \o W("O_C")
           s4 == s3 \o W("O_ACC")
           s5 == s4 \o W("O_DEC")
           s6 == s5 \o W("O_TAB")
           s7 == s6 \o W("O_FN")
           s8 == s7 \o W("O_FT")
<1>6. Fine(s2) /\ (NoWrites(s2, q, g) <=> Off("O_P") /\ Off("O_V"))
  BY <1>2, <1>4
<1> HIDE DEF s2
<1>7. Fine(s3) /\ (NoWrites(s3, q, g) <=> NoWrites(s2, q, g) /\ Off("O_C"))
  BY <1>2, <1>4, <1>6
<1> HIDE DEF s3
<1>8. Fine(s4) /\ (NoWrites(s4, q, g) <=> NoWrites(s3, q, g) /\ Off("O_ACC"))
  BY <1>2, <1>4, <1>7
<1> HIDE DEF s4
<1>9. Fine(s5) /\ (NoWrites(s5, q, g) <=> NoWrites(s4, q, g) /\ Off("O_DEC"))
  BY <1>2, <1>4, <1>8
<1> HIDE DEF s5
<1>10. Fine(s6) /\ (NoWrites(s6, q, g) <=> NoWrites(s5, q, g) /\ Off("O_TAB"))
  BY <1>2, <1>4, <1>9
<1> HIDE DEF s6
<1>11. Fine(s7) /\ (NoWrites(s7, q, g) <=> NoWrites(s6, q, g) /\ Off("O_FN"))
  BY <1>2, <1>4, <1>10
<1> HIDE DEF s7
<1>12. Fine(s8) /\ (NoWrites(s8, q, g) <=> NoWrites(s7, q, g) /\ Off("O_FT"))
  BY <1>2, <1>4, <1>11
<1>13. FieldWrites(pr, p) = s8
  BY <1>3 DEF s2, s3, s4, s5, s6, s7
<1> HIDE DEF s8
<1>14. NoWrites(s8, q, g) <=> ~(q = p /\ pr.state[g] = "FIELD_CHANGED")
  BY <1>5, <1>6, <1>7, <1>8, <1>9, <1>10, <1>11, <1>12
<1> QED
  BY <1>12, <1>13, <1>14 DEF Fine, v

-----------------------------------------------------------------------------
(***************************************************************************)
(* What has been written of the profiles ps: parameters are as they were;  *)
(* a field was changed and is written, every time with the value it has in *)
(* ps, or it is left alone.                                                *)
(***************************************************************************)
WrittenField(w, ps, q, f) ==
    /\ FieldValue(w.profiles[q], f) = FieldValue(ps[q], f)
    /\ AllWrite(w.items, q, f, FieldValue(ps[q], f))
    /\ \/ /\ w.profiles[q].state[f] = ps[q].state[f]
          /\ NoWrites(w.items, q, f)
       \/ /\ w.profiles[q].state[f] = "FIELD_WRITING"
          /\ ~NoWrites(w.items, q, f)

Written(w, ps) ==
    /\ w.profiles \in [Handles -> ProfileType] /\ w.current \in Handles \cup {-1}
    /\ w.items \in Seq(Queued)
    /\ \A q \in Handles : /\ w.profiles[q].in_use = ps[q].in_use
                          /\ \A f \in Fields : WrittenField(w, ps, q, f)

\* Copies and commands are no writes of a field.
LEMMA CommandWrites ==
    ASSUME NEW op \in {"load", "store", "run"}, NEW p \in Handles,
           NEW q, NEW f, NEW v
    PROVE  /\ <<Command(op, p)>> \in Seq(Queued) /\ NoWrites(<<Command(op, p)>>, q, f)
           /\ AllWrite(<<Command(op, p)>>, q, f, v)
<1> DEFINE x == Command(op, p)
           s == <<x>>
<1>1. x \in Queued /\ ~IsWrite(x, q, f)
  BY DEF Command, Items, Queued, IsWrite
<1> HIDE DEF x
<1>2. s \in Seq(Queued) /\ Len(s) = 1 /\ s[1] = x
  BY <1>1
<1>3. \A i \in 1..1 : i = 1
  OBVIOUS
<1> HIDE DEF s
<1> QED
  BY <1>1, <1>2, <1>3 DEF NoWrites, AllWrite, s, x

\* A write of a profile marks its changed fields as being written.
LEMMA WriteOneProfile ==
    ASSUME NEW pr \in ProfileType
    PROVE  LET new == [pr EXCEPT !.never_sent = FALSE,
                                 !.state = [f \in Fields |->
                                     IF @[f] = "FIELD_CHANGED" THEN "FIELD_WRITING"
                                                               ELSE @[f]]]
           IN  /\ new \in ProfileType /\ new.in_use = pr.in_use
               /\ \A f \in Fields :
                     /\ new.state[f] = IF pr.state[f] = "FIELD_CHANGED"
                                       THEN "FIELD_WRITING" ELSE pr.state[f]
                     /\ FieldValue(new, f) = FieldValue(pr, f)
<1> DEFINE st == [f \in Fields |-> IF pr.state[f] = "FIELD_CHANGED" THEN "FIELD_WRITING"
                                                                   ELSE pr.state[f]]
           new == [pr EXCEPT !.never_sent = FALSE, !.state = st]
<1>1. st \in [Fields -> FieldStates]
  BY DEF ProfileType, FieldStates
<1> HIDE DEF st
<1>2. new \in ProfileType
  BY <1>1 DEF ProfileType
<1>3. /\ new.state = st /\ new.in_use = pr.in_use /\ new.table = pr.table
      /\ new.position_type = pr.position_type /\ new.position = pr.position
      /\ new.time = pr.time /\ new.next_profile = pr.next_profile
      /\ new.delay = pr.delay /\ new.blend_type = pr.blend_type
  BY <1>1 DEF ProfileType
<1> HIDE DEF new
<1>4. ControlWord(new) = ControlWord(pr)
  BY <1>3 DEF ControlWord
<1>5. \A f \in Fields : FieldValue(new, f) = FieldValue(pr, f)
  BY <1>3, <1>4 DEF FieldValue, Fields
<1>6. \A f \in Fields : new.state[f] = IF pr.state[f] = "FIELD_CHANGED"
                                       THEN "FIELD_WRITING" ELSE pr.state[f]
  BY <1>3 DEF st
<1> QED
  BY <1>2, <1>3, <1>5, <1>6 DEF new, st

\* The writes of one profile, behind what was written before.
LEMMA WriteOneWritten ==
    ASSUME NEW ps, NEW w, Written(w, ps), NEW p \in Handles
    PROVE  Written(WriteOne(w, p), ps)
<1> DEFINE pr == w.profiles[p]
           load == ~pr.never_sent /\ w.current # p
           new == [pr EXCEPT !.never_sent = FALSE,
                             !.state = [f \in Fields |->
                                 IF @[f] = "FIELD_CHANGED" THEN "FIELD_WRITING"
                                                           ELSE @[f]]]
           first == IF load THEN <<Command("load", p)>> ELSE <<>>
           fields == FieldWrites(pr, p)
           last == <<Command("store", p)>>
           g == WriteOne(w, p)
<1>1. /\ g.profiles = [w.profiles EXCEPT ![p] = new]
      /\ g.current \in {p, w.current}
      /\ g.items = w.items \o first \o fields \o last
  BY DEF WriteOne
<1>2. /\ w.profiles \in [Handles -> ProfileType] /\ w.current \in Handles \cup {-1}
      /\ w.items \in Seq(Queued) /\ pr \in ProfileType
  BY DEF Written
<1>3. /\ new \in ProfileType /\ new.in_use = pr.in_use
      /\ \A f \in Fields : /\ new.state[f] = IF pr.state[f] = "FIELD_CHANGED"
                                            THEN "FIELD_WRITING" ELSE pr.state[f]
                           /\ FieldValue(new, f) = FieldValue(pr, f)
  BY <1>2, WriteOneProfile
<1>4. ASSUME NEW q, NEW f, NEW v
      PROVE  /\ first \in Seq(Queued) /\ NoWrites(first, q, f) /\ AllWrite(first, q, f, v)
             /\ last \in Seq(Queued) /\ NoWrites(last, q, f) /\ AllWrite(last, q, f, v)
  <2>1. <<>> \in Seq(Queued) /\ NoWrites(<<>>, q, f) /\ AllWrite(<<>>, q, f, v)
    BY DEF NoWrites, AllWrite
  <2>2. /\ <<Command("load", p)>> \in Seq(Queued)
        /\ NoWrites(<<Command("load", p)>>, q, f)
        /\ AllWrite(<<Command("load", p)>>, q, f, v)
    BY CommandWrites
  <2>3. last \in Seq(Queued) /\ NoWrites(last, q, f) /\ AllWrite(last, q, f, v)
    BY CommandWrites
  <2> QED
    BY <2>1, <2>2, <2>3
<1>5. ASSUME NEW q, NEW f \in Fields
      PROVE  /\ fields \in Seq(Queued)
             /\ NoWrites(fields, q, f) <=> ~(q = p /\ pr.state[f] = "FIELD_CHANGED")
             /\ AllWrite(fields, p, f, FieldValue(pr, f))
  BY <1>2, FieldsWritten
<1> HIDE DEF new, load, first, fields, last, g
<1>6. ASSUME NEW q, NEW f \in Fields, NEW v
      PROVE  /\ g.items \in Seq(Queued)
             /\ NoWrites(g.items, q, f) <=> /\ NoWrites(w.items, q, f)
                                            /\ ~(q = p /\ pr.state[f] = "FIELD_CHANGED")
             /\ AllWrite(g.items, q, f, v) <=> /\ AllWrite(w.items, q, f, v)
                                               /\ AllWrite(fields, q, f, v)
  <2> DEFINE a == w.items \o first
             b == a \o fields
  <2>1. /\ a \in Seq(Queued)
        /\ NoWrites(a, q, f) <=> NoWrites(w.items, q, f)
        /\ AllWrite(a, q, f, v) <=> AllWrite(w.items, q, f, v)
    BY <1>2, <1>4, ConcatWrites
  <2> HIDE DEF a
  <2>2. /\ b \in Seq(Queued)
        /\ NoWrites(b, q, f) <=> NoWrites(a, q, f) /\ NoWrites(fields, q, f)
        /\ AllWrite(b, q, f, v) <=> AllWrite(a, q, f, v) /\ AllWrite(fields, q, f, v)
    BY <1>5, <2>1, ConcatWrites
  <2> HIDE DEF b
  <2>3. /\ b \o last \in Seq(Queued)
        /\ NoWrites(b \o last, q, f) <=> NoWrites(b, q, f)
        /\ AllWrite(b \o last, q, f, v) <=> AllWrite(b, q, f, v)
    BY <1>4, <2>2, ConcatWrites
  <2>4. g.items = b \o last
    BY <1>1 DEF a, b
  <2> QED
    BY <1>5, <2>1, <2>2, <2>3, <2>4
<1>7. /\ g.profiles \in [Handles -> ProfileType] /\ g.profiles[p] = new
      /\ \A q \in Handles \ {p} : g.profiles[q] = w.profiles[q]
  BY <1>1, <1>2, <1>3
<1>8. g.items \in Seq(Queued)
  BY <1>6 DEF Fields
<1>9. ASSUME NEW q \in Handles PROVE g.profiles[q].in_use = ps[q].in_use
  BY <1>3, <1>7 DEF Written
<1>10. ASSUME NEW q \in Handles, NEW f \in Fields PROVE WrittenField(g, ps, q, f)
  <2> DEFINE v == FieldValue(ps[q], f)
  <2>1. WrittenField(w, ps, q, f)
    BY DEF Written
  <2>2. /\ NoWrites(g.items, q, f) <=> /\ NoWrites(w.items, q, f)
                                       /\ ~(q = p /\ pr.state[f] = "FIELD_CHANGED")
        /\ AllWrite(g.items, q, f, v) <=> /\ AllWrite(w.items, q, f, v)
                                          /\ AllWrite(fields, q, f, v)
    BY <1>6
  <2>3. CASE q = p
    <3>1. AllWrite(fields, p, f, v)
      BY <1>5, <2>1, <2>3 DEF WrittenField
    <3> QED
      BY <1>3, <1>7, <2>1, <2>2, <2>3, <3>1 DEF WrittenField
  <2>4. CASE q # p
    <3>1. AllWrite(fields, q, f, v)
      BY <1>5, <2>4 DEF NoWrites, AllWrite
    <3> QED
      BY <1>7, <2>1, <2>2, <2>4, <3>1 DEF WrittenField
  <2> QED
    BY <2>3, <2>4
<1>11. g.current \in Handles \cup {-1}
  BY <1>1, <1>2
<1>12. Written(g, ps)
  BY <1>7, <1>8, <1>9, <1>10, <1>11 DEF Written
<1> QED
  BY <1>12 DEF g

(***************************************************************************)
(* sled_profile_write_pending_changes calls itself for the next profile.   *)
(***************************************************************************)
CallAgain(c) ==
    IF c.at < 0 \/ ~HasChangesPending(c.w.profiles[c.at])
    THEN [w |-> c.w, at |-> -1]
    ELSE [w |-> WriteOne(c.w, c.at), at |-> c.w.profiles[c.at].next_profile]

IsChain(h, start, p, n) ==
    h = [k \in 0..n |-> IF k = 0 THEN [w |-> start, at |-> p] ELSE CallAgain(h[k - 1])]

\* The calls are defined, one after the other.
LEMMA ChainExists ==
    ASSUME NEW start, NEW p, NEW m \in Nat
    PROVE  \E h : IsChain(h, start, p, m)
<1> DEFINE N == {n \in Nat : \E h : IsChain(h, start, p, n)}
           base == [w |-> start, at |-> p]
<1>1. 0 \in N
  <2> DEFINE h == [k \in 0..0 |-> base]
  <2>1. IsChain(h, start, p, 0)
    BY DEF IsChain
  <2> QED
    BY <2>1
<1>2. ASSUME NEW n \in Nat, n \in N PROVE n + 1 \in N
  <2>1. PICK h : IsChain(h, start, p, n)
    BY <1>2
  <2> DEFINE g == [k \in 0..(n + 1) |-> IF k = n + 1 THEN CallAgain(h[n]) ELSE h[k]]
  <2>2. ASSUME NEW k \in 0..(n + 1)
        PROVE  g[k] = IF k = 0 THEN base ELSE CallAgain(g[k - 1])
    <3>1. CASE k = 0
      <4>1. h[0] = base
        BY <2>1 DEF IsChain
      <4> QED
        BY <3>1, <4>1
    <3>2. CASE k = n + 1
      <4>1. g[k - 1] = h[n]
        BY <3>2
      <4> QED
        BY <3>2, <4>1
    <3>3. CASE k # 0 /\ k # n + 1
      <4>1. k \in 0..n /\ k - 1 \in 0..n /\ k - 1 # n + 1
        BY <3>3
      <4>2. h[k] = CallAgain(h[k - 1])
        BY <2>1, <3>3, <4>1 DEF IsChain
      <4>3. g[k] = h[k] /\ g[k - 1] = h[k - 1]
        BY <3>3, <4>1
      <4> QED
        BY <3>3, <4>2, <4>3
    <3> QED
      BY <3>1, <3>2, <3>3
  <2>3. g = [k \in 0..(n + 1) |-> g[k]]
    OBVIOUS
  <2> HIDE DEF g
  <2>4. IsChain(g, start, p, n + 1)
    BY <2>2, <2>3 DEF IsChain
  <2> QED
    BY <2>4
<1> HIDE DEF N
<1>3. Nat \subseteq N
  BY <1>1, <1>2, NatInductionOnSet
<1> QED
  BY <1>3 DEF N

\* WriteChain is the last of the calls.
LEMMA ChainIs ==
    ASSUME NEW start, NEW p
    PROVE  \E h : IsChain(h, start, p, NProfiles) /\ WriteChain(start, p) = h[NProfiles].w
<1> DEFINE h == CHOOSE h : IsChain(h, start, p, NProfiles)
<1>1. IsChain(h, start, p, NProfiles)
  BY ChainExists, NProfilesAssumption
<1>2. WriteChain(start, p) = h[NProfiles].w
  BY DEF WriteChain, IsChain, CallAgain
<1> QED
  BY <1>1, <1>2

\* Whatever is written is written as it should be.
LEMMA ChainWritten ==
    ASSUME NEW ps, NEW start, Written(start, ps), NEW p \in Handles
    PROVE  Written(WriteChain(start, p), ps)
<1>1. PICK h : IsChain(h, start, p, NProfiles) /\ WriteChain(start, p) = h[NProfiles].w
  BY ChainIs
<1> DEFINE OK(c) == Written(c.w, ps) /\ c.at \in Handles \cup {-1}
           N == {n \in Nat : n <= NProfiles => OK(h[n])}
<1>2. 0 \in N
  BY <1>1, NProfilesAssumption DEF IsChain
<1>3. ASSUME NEW c, OK(c) PROVE OK(CallAgain(c))
  <2>1. CASE c.at < 0 \/ ~HasChangesPending(c.w.profiles[c.at])
    BY <1>3, <2>1 DEF CallAgain
  <2>2. CASE ~(c.at < 0 \/ ~HasChangesPending(c.w.profiles[c.at]))
    <3>1. c.at \in Handles
      BY <1>3, <2>2
    <3>2. Written(WriteOne(c.w, c.at), ps)
      BY <1>3, <3>1, WriteOneWritten
    <3>3. c.w.profiles[c.at].next_profile \in Handles \cup {-1}
      BY <1>3, <3>1 DEF Written, ProfileType
    <3>4. CallAgain(c) = [w |-> WriteOne(c.w, c.at), at |-> c.w.profiles[c.at].next_profile]
      BY <2>2 DEF CallAgain
    <3> QED
      BY <3>2, <3>3, <3>4
  <2> QED
    BY <2>1, <2>2
<1>4. ASSUME NEW n \in Nat, n \in N PROVE n + 1 \in N
  <2>1. CASE n + 1 <= NProfiles
    <3>1. h[n + 1] = CallAgain(h[n])
      BY <1>1, <2>1, n + 1 \in 0..NProfiles, n + 1 # 0, n + 1 - 1 = n, NProfilesAssumption
         DEF IsChain
    <3>2. OK(h[n])
      BY <1>4, <2>1, NProfilesAssumption
    <3> HIDE DEF OK
    <3> QED
      BY <1>3, <3>1, <3>2
  <2> QED
    BY <2>1
<1> HIDE DEF N
<1>5. NProfiles \in N
  BY <1>2, <1>4, NatInductionOnSet, NProfilesAssumption
<1> QED
  BY <1>1, <1>5, NProfilesAssumption DEF N

-----------------------------------------------------------------------------
(***************************************************************************)
(* The inductive invariant: besides the types and WritingIsUnderWay, the   *)
(* SDO machine never rests while something is in its queue, and what is in *)
(* the queue can be sent.                                                  *)
(***************************************************************************)
NoRest == /\ queue \in Seq(Queued)
          /\ sdo = "enabled" /\ active = NoItem => queue = <<>>

AllUnderWay == InTouch => \A p \in Handles : UnderWay(InFlight, profiles[p], p)

PInv == TypeInv /\ NoRest /\ AllUnderWay

\* No profile is in the place of no item.
LEMMA NoItemType == NoItem \in Items /\ \A p, f : ~IsWrite(NoItem, p, f)
BY NProfilesAssumption DEF NoItem, Command, Items, Handles, IsWrite

\* Nothing is on its way to begin with.
LEMMA PInvInit == Init => PInv
<1> SUFFICES ASSUME Init PROVE PInv
  OBVIOUS
<1>1. Profile(FALSE, FALSE) \in ProfileType
  BY NewProfileType
<1>2. profiles \in [Handles -> ProfileType]
  BY <1>1 DEF Init
<1>3. active \in Items /\ queue \in Seq(Items)
  BY NoItemType DEF Init
<1>4. TypeInv
  BY <1>2, <1>3 DEF Init, TypeInv
<1> QED
  BY <1>4 DEF Init, PInv, NoRest, AllUnderWay, InTouch

\* A setter leaves what is on its way as it is.
LEMMA UnderWayMarks ==
    ASSUME NEW s, NEW p, NEW pr, NEW new, UnderWay(s, pr, p), MarksChanges(pr, new)
    PROVE  UnderWay(s, new, p)
BY DEF UnderWay, MarksChanges

\* A step that changes one profile, and not what is in flight.
LEMMA PInvOne ==
    ASSUME PInv, NEW p \in Handles, NEW new \in ProfileType,
           profiles' = [profiles EXCEPT ![p] = new],
           UnderWay(InFlight, profiles[p], p) => UnderWay(InFlight, new, p),
           UNCHANGED <<current, net, sdo, active, queue, status>>
    PROVE  PInv'
<1>1. TypeInv'
  BY DEF PInv, TypeInv
<1>2. NoRest'
  BY DEF PInv, NoRest
<1>3. ASSUME InTouch', NEW q \in Handles PROVE UnderWay(InFlight, profiles'[q], q)
  <2>1. InTouch
    BY <1>3 DEF InTouch, Running
  <2>2. UnderWay(InFlight, profiles[q], q) /\ UnderWay(InFlight, profiles[p], p)
    BY <2>1 DEF PInv, AllUnderWay
  <2>3. profiles'[q] = IF q = p THEN new ELSE profiles[q]
    BY DEF PInv, TypeInv
  <2> QED
    BY <2>2, <2>3
<1>4. InFlight' = InFlight
  BY DEF InFlight
<1>5. AllUnderWay'
  BY <1>3, <1>4 DEF AllUnderWay
<1> QED
  BY <1>1, <1>2, <1>5 DEF PInv

\* The setters.
LEMMA PInvEdit ==
    ASSUME PInv, NEW p \in Handles, NEW pr, MarksChanges(profiles[p], pr), Edit(p, pr)
    PROVE  PInv'
<1>1. pr \in ProfileType
  BY DEF MarksChanges
<1>2. UnderWay(InFlight, profiles[p], p) => UnderWay(InFlight, pr, p)
  BY UnderWayMarks
<1> QED
  BY <1>1, <1>2, PInvOne DEF Edit, line

\* Creation: every field is marked as changed.
LEMMA PInvCreate == PInv /\ Create => PInv'
<1> SUFFICES ASSUME PInv, Create PROVE PInv'
  OBVIOUS
<1>1. PICK p \in Handles : profiles' = [profiles EXCEPT ![p] = Profile(TRUE, TRUE)]
  BY DEF Create
<1> DEFINE new == Profile(TRUE, TRUE)
<1>2. new \in ProfileType
  BY NewProfileType
<1>3. \A f \in Fields : new.state[f] = "FIELD_CHANGED"
  BY DEF Profile, AllFields
<1> HIDE DEF new
<1>4. UnderWay(InFlight, new, p)
  BY <1>3 DEF UnderWay
<1> QED
  BY <1>1, <1>2, <1>4, PInvOne DEF Create, line, new

\* A profile that is destroyed waits for nothing.
LEMMA PInvDestroy == PInv /\ Destroy => PInv'
<1> SUFFICES ASSUME PInv, Destroy PROVE PInv'
  OBVIOUS
<1>1. PICK p \in Handles : profiles' = [profiles EXCEPT ![p].in_use = FALSE]
  BY DEF Destroy
<1> DEFINE new == [profiles[p] EXCEPT !.in_use = FALSE]
<1>2. profiles[p] \in ProfileType
  BY DEF PInv, TypeInv
<1>3. new \in ProfileType /\ new.in_use = FALSE
  BY <1>2 DEF ProfileType
<1>4. profiles' = [profiles EXCEPT ![p] = new]
  BY <1>1
<1> HIDE DEF new
<1>5. UnderWay(InFlight, new, p)
  BY <1>3 DEF UnderWay
<1> QED
  BY <1>3, <1>4, <1>5, PInvOne DEF Destroy, line

\* What is queued is in flight.
LEMMA PushInFlight ==
    ASSUME PInv, NEW items \in Seq(Queued), items # <<>>, Push(items), UNCHANGED sdo
    PROVE  /\ active' \in Items /\ queue' \in Seq(Items)
           /\ NoRest'
           /\ sdo = "enabled" => \/ InFlight' = InFlight \o items
                                 \/ InFlight = <<NoItem>> /\ InFlight' = items
<1>1. active \in Items /\ queue \in Seq(Items)
  BY DEF PInv, TypeInv
<1>2. CASE sdo = "enabled" /\ active = NoItem
  <2>1. active' = Head(items) /\ queue' = Tail(items)
    BY <1>2 DEF Push
  <2>2. queue = <<>>
    BY <1>2 DEF PInv, NoRest
  <2>3. Head(items) \in Queued /\ Tail(items) \in Seq(Queued)
        /\ <<Head(items)>> \o Tail(items) = items
    OBVIOUS
  <2>4. Head(items) \in Items /\ Tail(items) \in Seq(Items) /\ Head(items) # NoItem
    BY <2>3 DEF Queued, NoItem, Command
  <2>5. InFlight = <<NoItem>> /\ InFlight' = items
    BY <1>2, <2>1, <2>2, <2>3 DEF InFlight
  <2> QED
    BY <2>1, <2>3, <2>4, <2>5 DEF NoRest
<1>3. CASE ~(sdo = "enabled" /\ active = NoItem)
  <2>1. active' = active /\ queue' = queue \o items
    BY <1>3 DEF Push
  <2>2. items \in Seq(Items)
    BY DEF Queued
  <2>3. queue \o items \in Seq(Items) /\ queue \o items \in Seq(Queued)
    BY <1>1, <2>2 DEF PInv, NoRest
  <2>4. <<active>> \o (queue \o items) = (<<active>> \o queue) \o items
    BY <1>1, <2>2
  <2> QED
    BY <1>1, <1>3, <2>1, <2>3, <2>4 DEF InFlight, NoRest
<1> QED
  BY <1>2, <1>3

\* Nothing is written to begin with.
LEMMA NothingIsWritten ==
    ASSUME TypeInv, NEW ps \in [Handles -> ProfileType]
    PROVE  Written(NothingWritten(ps), ps)
<1> DEFINE w == NothingWritten(ps)
<1>1. w.profiles = ps /\ w.current = current /\ w.items = <<>>
  BY DEF NothingWritten
<1> HIDE DEF w
<1>2. w.items \in Seq(Queued)
  BY <1>1
<1>3. ASSUME NEW q \in Handles, NEW f \in Fields PROVE WrittenField(w, ps, q, f)
  <2>1. NoWrites(w.items, q, f) /\ AllWrite(w.items, q, f, FieldValue(ps[q], f))
    BY <1>1 DEF NoWrites, AllWrite
  <2> QED
    BY <1>1, <2>1 DEF WrittenField
<1>4. Written(w, ps)
  BY <1>1, <1>2, <1>3 DEF Written, TypeInv
<1> QED
  BY <1>4 DEF w

\* The writes that are queued are those of the fields marked as being written.
LEMMA UnderWayQueued ==
    ASSUME NEW ps, NEW w, Written(w, ps), NEW q \in Handles,
           NEW items \in Seq(Queued), NEW s \in Seq(Items),
           \A f \in Fields : /\ NoWrites(items, q, f) <=> NoWrites(w.items, q, f)
                             /\ \A v : AllWrite(items, q, f, v) <=> AllWrite(w.items, q, f, v),
           UnderWay(s, ps[q], q)
    PROVE  UnderWay(s \o items, w.profiles[q], q)
<1> SUFFICES ASSUME NEW f \in Fields, w.profiles[q].in_use,
                    w.profiles[q].state[f] = "FIELD_WRITING"
             PROVE  LastWrites(s \o items, q, f, FieldValue(w.profiles[q], f))
  BY DEF UnderWay
<1> DEFINE v == FieldValue(ps[q], f)
<1>1. WrittenField(w, ps, q, f) /\ ps[q].in_use
  BY DEF Written
<1>2. FieldValue(w.profiles[q], f) = v
  BY <1>1 DEF WrittenField
<1>3. items \in Seq(Items)
  BY DEF Queued
<1> HIDE DEF v
<1>4. CASE ~NoWrites(w.items, q, f)
  <2>1. ~NoWrites(items, q, f)
    BY <1>4
  <2>2. AllWrite(w.items, q, f, v)
    BY <1>1 DEF WrittenField, v
  <2>3. AllWrite(items, q, f, v)
    BY <2>2
  <2>4. \A i \in 1..Len(items) : IsWrite(items[i], q, f) => items[i].val = v
    BY <2>3 DEF AllWrite
  <2>5. LastWrites(s \o items, q, f, v)
    BY <1>3, <2>1, <2>4, LastQueued
  <2> QED
    BY <1>2, <2>5
<1>5. CASE NoWrites(w.items, q, f)
  <2>1. ps[q].state[f] = "FIELD_WRITING"
    BY <1>1, <1>5 DEF WrittenField
  <2>2. LastWrites(s, q, f, v)
    BY <1>1, <2>1 DEF UnderWay, v
  <2>3. NoWrites(items, q, f)
    BY <1>5
  <2>4. LastWrites(s \o items, q, f, v)
    BY <1>3, <2>2, <2>3, LastStays
  <2> QED
    BY <1>2, <2>4
<1> QED
  BY <1>4, <1>5

\* sled_profile_execute.
LEMMA PInvExecute ==
    ASSUME PInv, NEW p \in Handles, Execute(p)
    PROVE  PInv'
<1> DEFINE w == WritePendingChanges(p)
           items == Append(w.items, Command("run", p))
<1>1. /\ profiles' = w.profiles /\ current' = w.current /\ Push(items)
      /\ net' = net /\ sdo' = sdo /\ status' = status
  BY DEF Execute
<1>2. Written(w, profiles)
  <2>1. TypeInv /\ profiles \in [Handles -> ProfileType]
    BY DEF PInv, TypeInv
  <2> QED
    BY <2>1, NothingIsWritten, ChainWritten DEF WritePendingChanges
<1> DEFINE run == <<Command("run", p)>>
<1>3. /\ w.items \in Seq(Queued) /\ w.profiles \in [Handles -> ProfileType]
      /\ w.current \in Handles \cup {-1}
  BY <1>2 DEF Written
<1> HIDE DEF w
<1>4. /\ run \in Seq(Queued)
      /\ \A q, f, v : NoWrites(run, q, f) /\ AllWrite(run, q, f, v)
  BY CommandWrites
<1>5. items = w.items \o run /\ items # <<>>
  <2>1. Command("run", p) \in Queued
    BY DEF Command, Queued, Items
  <2> QED
    BY <1>3, <2>1
<1> HIDE DEF run, items
<1>6. /\ items \in Seq(Queued)
      /\ \A q, f, v : /\ NoWrites(items, q, f) <=> NoWrites(w.items, q, f)
                      /\ AllWrite(items, q, f, v) <=> AllWrite(w.items, q, f, v)
  BY <1>3, <1>4, <1>5, ConcatWrites
<1>7. /\ active' \in Items /\ queue' \in Seq(Items) /\ NoRest'
      /\ sdo = "enabled" => \/ InFlight' = InFlight \o items
                            \/ InFlight = <<NoItem>> /\ InFlight' = items
  BY <1>1, <1>5, <1>6, PushInFlight
<1>8. TypeInv'
  BY <1>1, <1>3, <1>7 DEF PInv, TypeInv
<1>9. ASSUME InTouch', NEW q \in Handles PROVE UnderWay(InFlight', profiles'[q], q)
  <2>1. InTouch /\ sdo = "enabled"
    BY <1>1, <1>9 DEF InTouch, Running
  <2>2. UnderWay(InFlight, profiles[q], q)
    BY <2>1 DEF PInv, AllUnderWay
  <2>3. InFlight \in Seq(Items)
    BY DEF PInv, TypeInv, InFlight
  <2>4. CASE InFlight' = InFlight \o items
    BY <1>1, <1>2, <1>6, <2>2, <2>3, <2>4, UnderWayQueued DEF PInv
  <2>5. CASE InFlight = <<NoItem>> /\ InFlight' = items
    <3>1. UnderWay(<<>>, profiles[q], q)
      <4>1. ASSUME NEW f, NEW v PROVE ~LastWrites(<<NoItem>>, q, f, v)
        BY NoItemType DEF LastWrites
      <4> QED
        BY <2>2, <2>5, <4>1 DEF UnderWay
    <3>2. UnderWay(<<>> \o items, w.profiles[q], q)
      BY <1>2, <1>6, <3>1, UnderWayQueued, <<>> \in Seq(Items) DEF PInv
    <3>3. <<>> \o items = items
      BY <1>6
    <3> QED
      BY <1>1, <2>5, <3>2, <3>3
  <2> QED
    BY <1>7, <2>1, <2>4, <2>5
<1>10. AllUnderWay'
  BY <1>9 DEF AllUnderWay
<1> QED
  BY <1>7, <1>8, <1>10 DEF PInv

\* Another state of a field changes none of the values.
LEMMA StateOnly ==
    ASSUME NEW pr \in ProfileType, NEW st \in [Fields -> FieldStates]
    PROVE  LET new == [pr EXCEPT !.state = st]
           IN  /\ new \in ProfileType /\ new.state = st /\ new.in_use = pr.in_use
               /\ \A f \in Fields : FieldValue(new, f) = FieldValue(pr, f)
<1> DEFINE new == [pr EXCEPT !.state = st]
<1>1. /\ new \in ProfileType /\ new.state = st /\ new.in_use = pr.in_use
      /\ new.table = pr.table /\ new.position_type = pr.position_type
      /\ new.position = pr.position /\ new.time = pr.time
      /\ new.next_profile = pr.next_profile /\ new.delay = pr.delay
      /\ new.blend_type = pr.blend_type
  BY DEF ProfileType
<1> HIDE DEF new
<1>2. ControlWord(new) = ControlWord(pr)
  BY <1>1 DEF ControlWord
<1>3. ASSUME NEW f \in Fields PROVE FieldValue(new, f) = FieldValue(pr, f)
  BY <1>1, <1>2 DEF FieldValue
<1> QED
  BY <1>1, <1>3 DEF new

\* on_success_callback: the state of the field becomes FIELD_WRITTEN.
LEMMA ConfirmedProfile ==
    ASSUME PInv, Confirm, NEW q \in Handles
    PROVE  /\ profiles' \in [Handles -> ProfileType]
           /\ profiles'[q].in_use = profiles[q].in_use
           /\ \A f \in Fields :
                 /\ FieldValue(profiles'[q], f) = FieldValue(profiles[q], f)
                 /\ profiles'[q].state[f] = IF IsWrite(active, q, f) THEN "FIELD_WRITTEN"
                                                                 ELSE profiles[q].state[f]
<1>1. profiles \in [Handles -> ProfileType] /\ active \in Items /\ active.p \in Handles
  BY DEF PInv, TypeInv, Items
<1>2. CASE active.op # "field"
  BY <1>1, <1>2 DEF Confirm, IsWrite
<1>3. CASE active.op = "field"
  <2> DEFINE p == active.p
             st == [profiles[p].state EXCEPT ![active.f] = "FIELD_WRITTEN"]
             new == [profiles[p] EXCEPT !.state = st]
  <2>1. profiles' = [profiles EXCEPT ![p] = new]
    BY <1>3 DEF Confirm
  <2>2. profiles[p] \in ProfileType /\ profiles[p].state \in [Fields -> FieldStates]
    BY <1>1 DEF ProfileType
  <2>3. /\ st \in [Fields -> FieldStates]
        /\ \A f \in Fields : st[f] = IF f = active.f THEN "FIELD_WRITTEN"
                                                     ELSE profiles[p].state[f]
    BY <2>2 DEF FieldStates
  <2> HIDE DEF st
  <2>4. /\ new \in ProfileType /\ new.state = st /\ new.in_use = profiles[p].in_use
        /\ \A f \in Fields : FieldValue(new, f) = FieldValue(profiles[p], f)
    BY <2>2, <2>3, StateOnly
  <2> HIDE DEF new, p
  <2>5. p \in Handles
    BY <1>1 DEF p
  <2>6. profiles' \in [Handles -> ProfileType]
        /\ profiles'[q] = IF q = p THEN new ELSE profiles[q]
    BY <1>1, <2>1, <2>4, <2>5
  <2>7. CASE q = p
    BY <1>3, <2>3, <2>4, <2>6, <2>7 DEF IsWrite, p
  <2>8. CASE q # p
    BY <2>6, <2>8 DEF IsWrite, p
  <2> QED
    BY <2>7, <2>8
<1> QED
  BY <1>2, <1>3

\* The answer to the active item: what else is in flight stays so.
LEMMA PInvConfirm == PInv /\ Confirm => PInv'
<1> SUFFICES ASSUME PInv, Confirm PROVE PInv'
  OBVIOUS
<1>1. active \in Items /\ queue \in Seq(Items)
  BY DEF PInv, TypeInv
<1>2. /\ active' \in Items /\ queue' \in Seq(Items) /\ NoRest'
      /\ queue # <<>> => InFlight' = queue
  <2>1. CASE queue = <<>>
    BY <1>1, <2>1, NoItemType DEF Confirm, Advance, NoRest
  <2>2. CASE queue # <<>>
    <3>1. active' = Head(queue) /\ queue' = Tail(queue)
      BY <2>2 DEF Confirm, Advance
    <3>2. /\ Head(queue) \in Items /\ Tail(queue) \in Seq(Items)
          /\ <<Head(queue)>> \o Tail(queue) = queue
      BY <1>1, <2>2
    <3>3. Head(queue) \in Queued /\ Tail(queue) \in Seq(Queued)
      BY <2>2 DEF PInv, NoRest
    <3>4. Head(queue) # NoItem
      BY <3>3 DEF Queued, NoItem, Command
    <3> QED
      BY <3>1, <3>2, <3>3, <3>4 DEF InFlight, NoRest
  <2> QED
    BY <2>1, <2>2
<1>3. TypeInv'
  <2>1. profiles' \in [Handles -> ProfileType]
    <3>1. 0 \in Handles
      BY NProfilesAssumption DEF Handles
    <3> QED
      BY <3>1, ConfirmedProfile
  <2> QED
    BY <1>2, <2>1 DEF PInv, TypeInv, Confirm
<1>4. ASSUME InTouch', NEW q \in Handles PROVE UnderWay(InFlight', profiles'[q], q)
  <2> SUFFICES ASSUME NEW f \in Fields, profiles'[q].in_use,
                      profiles'[q].state[f] = "FIELD_WRITING"
               PROVE  LastWrites(InFlight', q, f, FieldValue(profiles'[q], f))
    BY DEF UnderWay
  <2>1. InTouch
    BY <1>4 DEF InTouch, Running, Confirm
  <2>2. /\ ~IsWrite(active, q, f) /\ profiles[q].in_use
        /\ profiles[q].state[f] = "FIELD_WRITING"
        /\ FieldValue(profiles'[q], f) = FieldValue(profiles[q], f)
    BY ConfirmedProfile
  <2>3. LastWrites(<<active>> \o queue, q, f, FieldValue(profiles[q], f))
    BY <2>1, <2>2 DEF PInv, AllUnderWay, UnderWay, InFlight
  <2>4. queue # <<>> /\ LastWrites(queue, q, f, FieldValue(profiles[q], f))
    BY <1>1, <2>2, <2>3, LastOfTail
  <2> QED
    BY <1>2, <2>2, <2>4
<1>5. AllUnderWay'
  BY <1>4 DEF AllUnderWay
<1> QED
  BY <1>2, <1>3, <1>5 DEF PInv

\* After an abort there is no touch with the drive, or no process.
LEMMA PInvAbort == PInv /\ (Abort \/ OtherAbort) => PInv'
<1> SUFFICES ASSUME PInv, Abort \/ OtherAbort PROVE PInv'
  OBVIOUS
<1>1. TypeInv'
  BY NoItemType DEF PInv, TypeInv, Abort, OtherAbort, host
<1>2. NoRest'
  BY DEF PInv, NoRest, Abort, OtherAbort
<1>3. ~InTouch'
  BY DEF InTouch, Running, Abort, OtherAbort
<1> QED
  BY <1>1, <1>2, <1>3 DEF PInv, AllUnderWay

\* Nor is there after the loss of the link.
LEMMA PInvLost == PInv /\ LinkLost => PInv'
<1> SUFFICES ASSUME PInv, LinkLost PROVE PInv'
  OBVIOUS
<1>1. TypeInv'
  BY DEF PInv, TypeInv, LinkLost, host
<1>2. NoRest'
  BY DEF PInv, NoRest, LinkLost
<1>3. ~InTouch'
  BY DEF InTouch, LinkLost
<1> QED
  BY <1>1, <1>2, <1>3 DEF PInv, AllUnderWay

\* The SDO machine that is enabled has an empty queue, or goes on with its own.
LEMMA EnableKeeps ==
    ASSUME PInv, Enable
    PROVE  /\ sdo' \in {"disabled", "enabled", "error"}
           /\ active' \in Items /\ queue' \in Seq(Items)
           /\ status \in {"running", "exited"} => status' \in {"running", "exited"}
           /\ NoRest'
<1>1. active \in Items /\ queue \in Seq(Items) /\ sdo \in {"disabled", "enabled", "error"}
  BY DEF PInv, TypeInv
<1>2. <<>> \in Seq(Items) /\ <<>> \in Seq(Queued)
  OBVIOUS
<1>3. CASE UNCHANGED <<sdo, active, queue>>
  BY <1>1, <1>3 DEF Enable, PInv, NoRest
<1>4. CASE sdo' = "enabled" /\ active' = NoItem /\ queue' = <<>>
  BY <1>2, <1>4, NoItemType DEF Enable, NoRest
<1> QED
  BY <1>3, <1>4 DEF Enable

\* SDOs are enabled before the network is operational.
LEMMA PInvEnabled == PInv /\ SdosEnabled => PInv'
<1> SUFFICES ASSUME PInv, SdosEnabled PROVE PInv'
  OBVIOUS
<1>1. TypeInv' /\ NoRest'
  BY EnableKeeps DEF PInv, TypeInv, SdosEnabled, host
<1>2. ~InTouch'
  BY DEF InTouch, SdosEnabled
<1> QED
  BY <1>1, <1>2 DEF PInv, AllUnderWay

\* sled_profiles_reset: every field of a profile in use is to be sent again.
LEMMA PInvOperational == PInv /\ EnterOperational => PInv'
<1> SUFFICES ASSUME PInv, EnterOperational PROVE PInv'
  OBVIOUS
<1>1. ASSUME NEW p \in Handles
      PROVE  /\ profiles'[p] \in ProfileType
             /\ profiles'[p].in_use => \A f \in Fields : profiles'[p].state[f] = "FIELD_CHANGED"
  <2>1. profiles[p] \in ProfileType
    BY DEF PInv, TypeInv
  <2>2. AllFields("FIELD_CHANGED") \in [Fields -> FieldStates]
        /\ \A f \in Fields : AllFields("FIELD_CHANGED")[f] = "FIELD_CHANGED"
    BY DEF AllFields, FieldStates
  <2>3. /\ MarkAsUnsaved(profiles[p]) \in ProfileType
        /\ MarkAsUnsaved(profiles[p]).state = AllFields("FIELD_CHANGED")
    BY <2>1, <2>2, StateOnly DEF MarkAsUnsaved
  <2>4. profiles'[p] = IF profiles[p].in_use THEN MarkAsUnsaved(profiles[p])
                                            ELSE profiles[p]
    BY DEF EnterOperational, ProfilesReset
  <2> QED
    BY <2>1, <2>2, <2>3, <2>4
<1>2. profiles' \in [Handles -> ProfileType]
  BY <1>1 DEF EnterOperational, ProfilesReset
<1>3. TypeInv' /\ NoRest'
  BY <1>2, EnableKeeps DEF PInv, TypeInv, EnterOperational
<1>4. AllUnderWay'
  BY <1>1 DEF AllUnderWay, UnderWay
<1> QED
  BY <1>3, <1>4 DEF PInv

-----------------------------------------------------------------------------
\* Every step keeps the invariant.
LEMMA PInvStep == PInv /\ [Next]_vars => PInv'
<1> SUFFICES ASSUME PInv, [Next]_vars PROVE PInv'
  OBVIOUS
<1>1. ASSUME NEW p \in Handles PROVE profiles[p] \in ProfileType
  BY DEF PInv, TypeInv
<1>2. CASE SetTable
  <2>1. PICK p \in Handles, t \in Tables : Edit(p, SetTableOf(profiles[p], t))
    BY <1>2 DEF SetTable
  <2> QED
    BY <1>1, <2>1, TableMarks, PInvEdit
<1>3. CASE SetTarget
  <2>1. PICK p \in Handles, type \in PositionTypes, x \in Positions, t \in Times :
            Edit(p, SetTargetOf(profiles[p], type, x, t))
    BY <1>3 DEF SetTarget
  <2> QED
    BY <1>1, <2>1, TargetMarks, PInvEdit, ParametersAssumption DEF PositionTypesOK
<1>4. CASE SetNext
  <2>1. PICK p \in Handles, n \in Handles \cup {-1}, d \in Delays, b \in BlendTypes :
            Edit(p, SetNextOf(profiles[p], n, d, b))
    BY <1>4 DEF SetNext
  <2> QED
    BY <1>1, <2>1, NextMarks, PInvEdit, ParametersAssumption DEF BlendTypesOK
<1>5. CASE \E p \in Handles : Execute(p)
  BY <1>5, PInvExecute
<1>6. CASE UNCHANGED vars
  BY <1>6 DEF vars, PInv, TypeInv, NoRest, AllUnderWay, InTouch, Running, InFlight
<1> QED
  BY <1>2, <1>3, <1>4, <1>5, <1>6, PInvCreate, PInvDestroy, PInvConfirm, PInvAbort,
     PInvLost, PInvEnabled, PInvOperational DEF Next

(***************************************************************************)
(* The profiles, the handle in current_profile and the queue of writes     *)
(* have their types, whatever the clients ask for and however often the    *)
(* link is lost; in particular the next profile is always a handle or -1.  *)
(***************************************************************************)
THEOREM ProfilesTypeCorrect == Spec => []ProfilesTypeOK
<1>1. PInv => ProfilesTypeOK
  BY TypeInvImplies DEF PInv
<1> QED
  BY <1>1, PInvInit, PInvStep, PTL DEF Spec

(***************************************************************************)
(* While the drive is operational, a field of a profile in use that the    *)
(* server takes to be on its way (FIELD_WRITING, sled_profile.cc) is in    *)
(* the SDO queue, and the last write of it there has the value that the    *)
(* profile has now: for any number of profiles, chained in any way, and    *)
(* any values of their parameters.                                         *)
(***************************************************************************)
THEOREM WritingIsUnderWayHolds == Spec => []WritingIsUnderWay
<1>1. PInv => WritingIsUnderWay
  BY UnderWayIsChecked DEF PInv, AllUnderWay
<1> QED
  BY <1>1, PInvInit, PInvStep, PTL DEF Spec
=============================================================================
