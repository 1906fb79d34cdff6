---------------------------- MODULE SledProfile -----------------------------
(***************************************************************************)
(* Motion profiles (libsled/sled_profile.cc): the server's copies, what is *)
(* known of them in the drive, and the writes that bring the two together. *)
(* The drive edits a motion task in register 0: a task is loaded into it,  *)
(* its fields are written one SDO at a time, and it is stored back.        *)
(*                                                                         *)
(* The SDO machine is the queue of module MchSdo at the grain of profile   *)
(* writes, and the network three states of it: down, SDOs enabled          *)
(* (preop), and operational (oper).                                        *)
(***************************************************************************)
EXTENDS Integers, Sequences

CONSTANTS
    NProfiles,      \* MAX_PROFILES
    Tables, PositionTypes, Positions, Times, Delays, BlendTypes
                    \* what a client may ask for: positions in nanometres,
                    \* times and delays in milliseconds
CONSTANTS
    MaxCalls,       \* bound: client calls that change something
    MaxLosses       \* bound: losses of the link

ASSUME NProfilesAssumption == NProfiles \in Nat \ {0}
ASSUME ParametersAssumption ==
    /\ Tables \subseteq Nat /\ Positions \subseteq Nat
    /\ Times \subseteq Nat /\ Delays \subseteq Nat
    /\ PositionTypes \subseteq
          {"pos_absolute", "pos_relative_actual", "pos_relative_target"}
    /\ BlendTypes \subseteq {"bln_none", "bln_before", "bln_after"}
ASSUME BoundsAssumption == MaxCalls \in Nat /\ MaxLosses \in Nat

VARIABLES
    profiles,       \* sled->profiles
    current,        \* sled->current_profile, as a profile handle
    net,            \* the network machine, coarsely
    sdo,            \* the SDO machine: "disabled", "enabled", "error"
    active, queue,  \* its active item and its queue
    status,         \* the process: "running" or "exited"
    drive,          \* the drive: register 0 and the stored motion tasks
    tainted,        \* history: see Tainted below
    owner,          \* history: the profile whose writes were queued last
    calls, losses   \* bounds: client calls and losses so far

host == <<profiles, current>>
line == <<net, sdo, active, queue, status, losses>>
vars == <<profiles, current, net, sdo, active, queue, status, drive, tainted,
          owner, calls, losses>>

Handles == 0..(NProfiles - 1)

Fields == {"O_P", "O_V", "O_C", "O_ACC", "O_DEC", "O_TAB", "O_FN", "O_FT"}
FieldStates == {"FIELD_CHANGED", "FIELD_WRITING", "FIELD_WRITTEN"}

AllFields(x) == [f \in Fields |-> x]

-----------------------------------------------------------------------------
\* sled_profile_get_controlword: the bits of O_C.
ControlWord(pr) ==
      (CASE pr.position_type = "pos_absolute"        -> 0
         [] pr.position_type = "pos_relative_actual" -> 5
         [] pr.position_type = "pos_relative_target" -> 3)
    + (IF pr.next_profile >= 0 THEN 8 ELSE 0)
    + (CASE pr.blend_type = "bln_none"   -> 0
         [] pr.blend_type = "bln_before" -> 272
         [] pr.blend_type = "bln_after"  -> 16)
    + 512 + 8192

\* The number of the motion task of a handle in the drive.
TaskNumber(p) == 201 + p

\* The value written to each field: micrometres, and milliseconds halved.
FieldValue(pr, f) ==
    CASE f = "O_P"   -> pr.position \div 1000
      [] f = "O_V"   -> 0
      [] f = "O_C"   -> ControlWord(pr)
      [] f = "O_ACC" -> (pr.time + 1) \div 2
      [] f = "O_DEC" -> (pr.time + 1) \div 2 - 1
      [] f = "O_TAB" -> pr.table
      [] f = "O_FN"  -> IF pr.next_profile >= 0 THEN TaskNumber(pr.next_profile) ELSE 0
      [] f = "O_FT"  -> pr.delay

\* sled_profile_clear, which ends in sled_profile_mark_as_unsaved.
Profile(inUse, neverSent) ==
    [in_use |-> inUse, never_sent |-> neverSent,
     table |-> 2, position_type |-> "pos_absolute", position |-> 0, time |-> 1000,
     next_profile |-> -1, delay |-> 0, blend_type |-> "bln_none",
     state |-> AllFields("FIELD_CHANGED")]

MarkAsUnsaved(pr) == [pr EXCEPT !.state = AllFields("FIELD_CHANGED")]

HasChangesPending(pr) == \E f \in Fields : pr.state[f] = "FIELD_CHANGED"

\* Mark the fields that depend on a parameter, if it changes.
Marked(pr, changes, fields) ==
    IF changes
    THEN [pr EXCEPT !.state = [f \in Fields |-> IF f \in fields THEN "FIELD_CHANGED"
                                                            ELSE @[f]]]
    ELSE pr

SetTableOf(pr, table) ==
    [Marked(pr, pr.table # table, {"O_TAB"}) EXCEPT !.table = table]

SetTargetOf(pr, type, position, time) ==
    LET a == Marked(pr, pr.position_type # type, {"O_C"})
        b == Marked(a, pr.position # position, {"O_P"})
        c == Marked(b, pr.time # time, {"O_ACC", "O_DEC"})
    IN  [c EXCEPT !.position_type = type, !.position = position, !.time = time]

\* Fault: handles count from one.
SetNextOffByOne(pr, next, delay, blend) ==
    [Marked(pr, pr.next_profile # next, {"O_C", "O_FN"}) EXCEPT
        !.next_profile = IF next >= 0 THEN next + 1 ELSE next]

\* Fault: the control word is not marked, though next is one of its bits.
SetNextForgetsControl(pr, next, delay, blend) ==
    LET a == Marked(pr, pr.next_profile # next, {"O_FN"})
        b == Marked(a, pr.delay # delay, {"O_FT"})
    IN  [b EXCEPT !.next_profile = next, !.delay = delay, !.blend_type = blend]

SetNextOf(pr, next, delay, blend) ==
    LET a == Marked(pr, pr.next_profile # next, {"O_C", "O_FN"})
        b == Marked(a, pr.delay # delay, {"O_C", "O_FT"})
        c == Marked(b, pr.blend_type # blend, {"O_C"})
    IN  [c EXCEPT !.next_profile = next, !.delay = delay, !.blend_type = blend]

-----------------------------------------------------------------------------
(***************************************************************************)
(* What is queued: a field of a profile, with the two callbacks; the copy  *)
(* of a motion task to register 0 (load) and back (store), and the choice  *)
(* of a task with the control word that starts it (run), without any.      *)
(***************************************************************************)
WriteField(p, f, val) == [op |-> "field", p |-> p, f |-> f, val |-> val]
Command(op, p) == [op |-> op, p |-> p, f |-> "none", val |-> 0]
NoItem         == Command("none", 0)

InFlight == <<active>> \o queue
Pending(p) == \E i \in 1..Len(InFlight) : InFlight[i].p = p /\ InFlight[i].op # "none"

\* WRITE_FIELD_IF_CHANGED.
WriteIfChanged(pr, p, f) ==
    IF pr.state[f] = "FIELD_CHANGED" THEN <<WriteField(p, f, FieldValue(pr, f))>> ELSE <<>>

\* The writes of one profile, and what the server makes of them at once.
FieldWrites(pr, p) ==
       WriteIfChanged(pr, p, "O_P")   \o WriteIfChanged(pr, p, "O_V")
    \o WriteIfChanged(pr, p, "O_C")   \o WriteIfChanged(pr, p, "O_ACC")
    \o WriteIfChanged(pr, p, "O_DEC") \o WriteIfChanged(pr, p, "O_TAB")
    \o WriteIfChanged(pr, p, "O_FN")  \o WriteIfChanged(pr, p, "O_FT")

WriteOne(w, p) ==
    LET pr   == w.profiles[p]
        load == ~pr.never_sent /\ w.current # p
    IN  [profiles |-> [w.profiles EXCEPT
            ![p] = [pr EXCEPT !.never_sent = FALSE,
                              !.state = [f \in Fields |->
                                  IF @[f] = "FIELD_CHANGED" THEN "FIELD_WRITING"
                                                            ELSE @[f]]]],
         current  |-> IF load THEN p ELSE w.current,
         items    |-> w.items \o (IF load THEN <<Command("load", p)>> ELSE <<>>)
                        \o FieldWrites(pr, p) \o <<Command("store", p)>>,
         \* history
         owner    |-> p,
         mixed    |-> w.mixed \cup
            (IF ~load /\ w.owner # p
                /\ \E f \in Fields : pr.state[f] # "FIELD_CHANGED" THEN {p} ELSE {})]

(***************************************************************************)
(* sled_profile_write_pending_changes: the profile, then the one it names  *)
(* as next, and so on, as long as there are changes pending.  A profile    *)
(* written has none left, so the recursion ends within NProfiles calls.    *)
(***************************************************************************)
WriteChain(start, p) ==
    LET chain[k \in 0..NProfiles] ==
            IF k = 0 THEN [w |-> start, at |-> p]
            ELSE LET w  == chain[k - 1].w
                     at == chain[k - 1].at
                 IN  IF at < 0 \/ ~HasChangesPending(w.profiles[at])
                     THEN [w |-> w, at |-> -1]
                     ELSE [w |-> WriteOne(w, at), at |-> w.profiles[at].next_profile]
    IN  chain[NProfiles].w

\* Nothing written yet, from a given value of the profiles.
NothingWritten(ps) == [profiles |-> ps, current |-> current, items |-> <<>>,
                       owner |-> owner, mixed |-> {}]

WritePendingChanges(p) == WriteChain(NothingWritten(profiles), p)

-----------------------------------------------------------------------------
\* sled_create: nothing in use.  current_profile is never initialised.
Init ==
    /\ profiles = [p \in Handles |-> Profile(FALSE, FALSE)]
    /\ current \in Handles \cup {-1}
    /\ net = "down" /\ sdo = "disabled" /\ active = NoItem /\ queue = <<>>
    /\ status = "running"
    /\ drive = [reg |-> AllFields(-1), task |-> [p \in Handles |-> AllFields(-1)]]
    /\ tainted = {} /\ owner = -1 /\ calls = 0 /\ losses = 0

Running == status = "running"

Call == Running /\ calls < MaxCalls /\ calls' = calls + 1

Push(items) ==
    IF sdo = "enabled" /\ active = NoItem /\ items # <<>>
    THEN active' = Head(items) /\ queue' = Tail(items)
    ELSE queue' = queue \o items /\ UNCHANGED active

\* Fault: off by one, the last item of the queue is left in it.
LeaveLast ==
    IF Len(queue) <= 1 THEN UNCHANGED <<active, queue>>
    ELSE active' = Head(queue) /\ queue' = Tail(queue)

\* The answer to the active item is in; the next one is sent.
Advance ==
    IF queue = <<>> THEN active' = NoItem /\ UNCHANGED queue
    ELSE active' = Head(queue) /\ queue' = Tail(queue)

-----------------------------------------------------------------------------
\* The client's operations

\* The lowest free profile; none is free: -1 and nothing changes.
Create ==
    /\ Call
    /\ \E p \in Handles :
          /\ ~profiles[p].in_use /\ \A q \in 0..(p - 1) : profiles[q].in_use
          /\ profiles' = [profiles EXCEPT ![p] = Profile(TRUE, TRUE)]
          /\ tainted' = IF Pending(p) THEN tainted \cup {p} ELSE tainted \ {p}
    /\ UNCHANGED <<current, line, drive, owner>>

Destroy ==
    /\ Call
    /\ \E p \in Handles : /\ profiles[p].in_use
                          /\ profiles' = [profiles EXCEPT ![p].in_use = FALSE]
    /\ UNCHANGED <<current, line, drive, tainted, owner>>

\* A setter; the parameters are stored whatever is in flight.
Edit(p, pr) ==
    /\ Call /\ profiles[p].in_use /\ pr # profiles[p]
    /\ profiles' = [profiles EXCEPT ![p] = pr]
    /\ tainted' = IF Pending(p) THEN tainted \cup {p} ELSE tainted
    /\ UNCHANGED <<current, line, drive, owner>>

SetTable == \E p \in Handles, t \in Tables : Edit(p, SetTableOf(profiles[p], t))

SetTarget == \E p \in Handles, type \in PositionTypes, x \in Positions, t \in Times :
                Edit(p, SetTargetOf(profiles[p], type, x, t))

SetNext == \E p \in Handles, next \in Handles \cup {-1}, d \in Delays, b \in BlendTypes :
              Edit(p, SetNextOf(profiles[p], next, d, b))

(***************************************************************************)
(* sled_profile_execute.  The motion machine is idle when the network is   *)
(* operational and no setpoint is on its way to the drive.                 *)
(***************************************************************************)
MotionIdle == net = "oper" /\ \A i \in 1..Len(InFlight) : InFlight[i].op # "run"

Execute(p) ==
    /\ Call /\ profiles[p].in_use /\ MotionIdle
    /\ LET w == WritePendingChanges(p)
       IN  /\ profiles' = w.profiles /\ current' = w.current
           /\ Push(Append(w.items, Command("run", p)))
           /\ owner' = w.owner /\ tainted' = tainted \cup w.mixed
    /\ UNCHANGED <<net, sdo, status, drive, losses>>

-----------------------------------------------------------------------------
\* The drive and the line

DriveAfter(item) ==
    CASE item.op = "field" -> [drive EXCEPT !.reg[item.f] = item.val]
      [] item.op = "load"  -> [drive EXCEPT !.reg = drive.task[item.p]]
      [] item.op = "store" -> [drive EXCEPT !.task[item.p] = drive.reg]
      [] OTHER             -> drive

\* The drive executes the active item and confirms it: on_success_callback.
Confirm ==
    /\ Running /\ sdo = "enabled" /\ active # NoItem
    /\ drive' = DriveAfter(active)
    /\ profiles' = IF active.op = "field"
                   THEN [profiles EXCEPT ![active.p].state[active.f] = "FIELD_WRITTEN"]
                   ELSE profiles
    /\ Advance
    /\ UNCHANGED <<current, net, sdo, status, tainted, owner, calls, losses>>

\* The drive aborts it: on_failure_callback exits, other items stop the SDOs.
Abort ==
    /\ Running /\ sdo = "enabled" /\ active # NoItem
    /\ IF active.op = "field" THEN status' = "exited" /\ UNCHANGED <<sdo, active>>
                              ELSE sdo' = "error" /\ active' = NoItem
                                   /\ UNCHANGED status
    /\ UNCHANGED <<host, net, queue, drive, tainted, owner, calls, losses>>

\* Another SDO, of the light for one, is aborted while no profile is written.
OtherAbort ==
    /\ Running /\ sdo = "enabled" /\ active = NoItem
    /\ sdo' = "error"
    /\ UNCHANGED <<host, net, active, queue, status, drive, tainted, owner, calls,
                   losses>>

\* The link is lost; a drive that restarts has forgotten its tasks.
LinkLost ==
    /\ Running /\ net # "down" /\ losses < MaxLosses
    /\ net' = "down" /\ losses' = losses + 1
    /\ sdo' = IF sdo = "enabled" THEN "disabled" ELSE sdo
    /\ \/ drive' = [reg |-> AllFields(-1), task |-> [p \in Handles |-> AllFields(-1)]]
       \/ UNCHANGED drive
    /\ UNCHANGED <<host, active, queue, status, tainted, owner, calls>>

\* EV_NET_SDO_ENABLED: a machine that was disabled or in error drops its
\* queue, with the abort callbacks of what is in it.
Enable ==
    IF sdo = "enabled" THEN UNCHANGED <<sdo, active, queue, status>>
    ELSE IF \E i \in 1..Len(queue) : queue[i].op = "field"
    THEN status' = "exited" /\ UNCHANGED <<sdo, active, queue>>
    ELSE sdo' = "enabled" /\ active' = NoItem /\ queue' = <<>> /\ UNCHANGED status

SdosEnabled ==
    /\ Running /\ net = "down"
    /\ net' = "preop"
    /\ Enable
    /\ UNCHANGED <<host, drive, tainted, owner, calls, losses>>

\* Fault: a drive that is back is taken to have kept its tasks.
ProfilesKept == profiles

\* mch_net_on_enter_operational calls sled_profiles_reset.
ProfilesReset ==
    [p \in Handles |-> IF profiles[p].in_use THEN MarkAsUnsaved(profiles[p])
                                             ELSE profiles[p]]

\* The handler for enabled SDOs runs first, then this one.
EnterOperational ==
    /\ Running /\ net = "preop"
    /\ net' = "oper"
    /\ Enable
    /\ profiles' = ProfilesReset
    /\ tainted' = {p \in tainted : Pending(p)}
    /\ UNCHANGED <<current, drive, owner, calls, losses>>

Next == \/ Create \/ Destroy \/ SetTable \/ SetTarget \/ SetNext
        \/ \E p \in Handles : Execute(p)
        \/ Confirm \/ Abort \/ OtherAbort
        \/ LinkLost \/ SdosEnabled \/ EnterOperational

Spec == Init /\ [][Next]_vars

-----------------------------------------------------------------------------
Items == [op : {"field", "load", "store", "run", "none"}, p : Handles,
          f : Fields \cup {"none"}, val : Int]

(***************************************************************************)
(* Type invariant.                                                         *)
(***************************************************************************)
ProfilesTypeOK ==
    /\ \A p \in Handles : /\ DOMAIN profiles[p] = DOMAIN Profile(TRUE, TRUE)
                          /\ profiles[p].state \in [Fields -> FieldStates]
                          /\ profiles[p].next_profile \in Handles \cup {-1}
    /\ current \in Handles \cup {-1}
    /\ net \in {"down", "preop", "oper"} /\ sdo \in {"disabled", "enabled", "error"}
    /\ active \in Items /\ queue \in Seq(Items)
    /\ status \in {"running", "exited"}

InTouch == Running /\ net = "oper" /\ sdo = "enabled"

(***************************************************************************)
(* A field the server is waiting for is being written, and with the value  *)
(* the profile has now: no field waits for a confirmation that cannot come *)
(* any more, and every setter marks all the fields its parameter is in.    *)
(***************************************************************************)
WritingIsUnderWay ==
    InTouch =>
        \A p \in Handles, f \in Fields :
            profiles[p].in_use /\ profiles[p].state[f] = "FIELD_WRITING" =>
                LET mine == {i \in 1..Len(InFlight) : /\ InFlight[i].op = "field"
                                                      /\ InFlight[i].p = p
                                                      /\ InFlight[i].f = f}
                IN  \E i \in mine : /\ \A j \in mine : j <= i
                                    /\ InFlight[i].val = FieldValue(profiles[p], f)

InDrive(p) == \A f \in Fields : drive.task[p][f] = FieldValue(profiles[p], f)

Settled(p) == /\ InTouch /\ profiles[p].in_use /\ ~Pending(p)
              /\ \A f \in Fields : profiles[p].state[f] = "FIELD_WRITTEN"

(***************************************************************************)
(* When every field of a profile is written and nothing of it is on its    *)
(* way, the motion task in the drive is the profile the client asked for,  *)
(* through restarts of the drive and lost links, unless it was tainted: it *)
(* was changed or recreated while its writes were on their way, or it was  *)
(* written in part into a register 0 that held another profile.            *)
(***************************************************************************)
TaskIsProfile == \A p \in Handles : Settled(p) /\ p \notin tainted => InDrive(p)

-----------------------------------------------------------------------------
(***************************************************************************)
(* "Contents have changed, not yet sent" (sled_internal.h, 38): a changed  *)
(* field is sent before it counts as written.                              *)
(***************************************************************************)
ChangedIsSent ==
    [][\A p \in Handles, f \in Fields :
          profiles[p].state[f] = "FIELD_CHANGED" =>
              profiles'[p].state[f] # "FIELD_WRITTEN"]_vars

(***************************************************************************)
(* "Write profiles that the current profile depends on..."                 *)
(* (sled_profile.cc, 182): when a profile is executed no change to the     *)
(* profile that follows it is left behind.                                 *)
(***************************************************************************)
NextIsWritten ==
    [][\A p \in Handles :
          Execute(p) /\ profiles[p].next_profile >= 0 =>
              ~HasChangesPending(profiles'[profiles[p].next_profile])]_vars
=============================================================================
