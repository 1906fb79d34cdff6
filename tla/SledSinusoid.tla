---------------------------- MODULE SledSinusoid ----------------------------
(***************************************************************************)
(* The sinusoid commands (libsled/sled.cc, compiled without                *)
(* DIRTY_SINUSOID).  A sinusoid is two motion tasks of the drive that name *)
(* each other as next: it runs without the server, and is stopped by       *)
(* rewriting the link of one of them while it runs.  rsinusoid adds a task *)
(* to ramp up and one to ramp down.  The tasks are four profiles of module *)
(* SledProfile, which models how they are written.                         *)
(***************************************************************************)
EXTENDS SledProfile

CONSTANTS Amplitudes,   \* of a sinusoid, in nanometres
          MaxQueue      \* bound: SDOs waiting when something else happens

ASSUME SinusoidAssumption == NProfiles >= 4 /\ Amplitudes \subseteq Nat
ASSUME MaxQueueAssumption == MaxQueue \in Nat

(***************************************************************************)
(* History: the last sinusoid command since the link came up, "none", or   *)
(* "cut" if writes were on their way when the sled became operational.     *)
(* Those count as written though they were marked changed (ChangedIsSent), *)
(* so nothing is promised until the link is lost again.                    *)
(***************************************************************************)
VARIABLE wish

allVars == <<vars, wish>>

\* The handles sled_create gets for them.
There == 0
RThere == 1
Back == 2
RBack == 3
BuiltIn == {There, RThere, Back, RBack}

NextIs(pr, next) == SetNextOf(pr, next, 0, "bln_after")

Target(pr, x, time) == SetTargetOf(pr, "pos_absolute", x, time)

\* The profiles as sled_create leaves them.
SinusoidProfiles ==
    [p \in Handles |->
        LET new == Profile(p \in BuiltIn, p \in BuiltIn)
        IN  CASE p = There  -> NextIs(SetTableOf(new, 0), Back)
              [] p = RThere -> NextIs(SetTableOf(new, 1), Back)
              [] p = Back   -> NextIs(SetTableOf(new, 0), There)
              [] p = RBack  -> SetTableOf(new, 3)
              [] OTHER      -> new]

SinusoidInit ==
    /\ profiles = SinusoidProfiles
    /\ current \in Handles \cup {-1}     \* not initialised
    /\ net = "down" /\ sdo = "disabled" /\ active = NoItem /\ queue = <<>>
    /\ status = "running"
    /\ drive = [reg |-> AllFields(-1), task |-> [p \in Handles |-> AllFields(-1)]]
    /\ tainted = {} /\ owner = -1 /\ calls = 0 /\ losses = 0
    /\ wish = "none"

-----------------------------------------------------------------------------
(***************************************************************************)
(* A command edits profiles, then writes the pending changes of some.  The *)
(* edits are made whatever the state of the sled is.                       *)
(***************************************************************************)
Edited(ps, w) ==
    /\ profiles' = w.profiles /\ current' = w.current /\ owner' = w.owner
    /\ tainted' = tainted \cup w.mixed
                     \cup {p \in Handles : ps[p] # profiles[p] /\ Pending(p)}

Wishes(kind) == wish' = IF wish = "cut" \/ net # "oper" THEN wish ELSE kind

Short == Len(queue) <= MaxQueue

Room == Call /\ Short

(***************************************************************************)
(* sled_profile_execute at the end of a start command; w is what has been  *)
(* written so far, and stays written if the command is refused: a refused  *)
(* rsinusoid start undoes a stop, and counts as a start.                   *)
(***************************************************************************)
Started(ps, w, p, kind) ==
    /\ IF MotionIdle
       THEN LET x == WriteChain(w, p)
            IN  Edited(ps, x) /\ Push(Append(x.items, Command("run", p)))
                /\ Wishes(kind)
       ELSE Edited(ps, w) /\ Push(w.items)
            /\ IF w.items = <<>> THEN UNCHANGED wish ELSE Wishes(kind)
    /\ UNCHANGED <<net, sdo, status, drive, losses>>

Stopped(ps, p, kind) ==
    LET w == WriteChain(NothingWritten(ps), p)
    IN  /\ Edited(ps, w) /\ Push(w.items) /\ Wishes(kind)
        /\ UNCHANGED <<net, sdo, status, drive, losses>>

\* Fault: the link of the way back is not restored after a stop.
StartLeavesBack(x, top, time) ==
    [profiles EXCEPT ![There] = NextIs(Target(@, top, time), Back),
                     ![Back]  = Target(@, x, time)]

StartEdits(x, top, time) ==
    [profiles EXCEPT ![There] = NextIs(Target(@, top, time), Back),
                     ![Back]  = NextIs(Target(@, x, time), There)]

\* The position is last_position, which the drive reports.
SinusoidStart ==
    /\ Room
    /\ \E x \in Positions, a \in Amplitudes, t \in Times :
          LET ps == StartEdits(x, x + 2 * a, t)
          IN  Started(ps, NothingWritten(ps), There, "loop")

\* Fault: the way back is written, and not the way there.
StopWritesBack ==
    /\ Room
    /\ Stopped([profiles EXCEPT ![There] = NextIs(@, -1), ![Back] = NextIs(@, -1)],
               Back, "stop")

SinusoidStop ==
    /\ Room
    /\ Stopped([profiles EXCEPT ![There] = NextIs(@, -1), ![Back] = NextIs(@, -1)],
               There, "stop")

RStartEdits(x, top, time) ==
    [StartEdits(x, top, time) EXCEPT
        ![RThere] = NextIs(Target(@, top, time), Back),
        ![RBack]  = Target(@, x, time)]

RSinusoidStart ==
    /\ Room
    /\ \E x \in Positions, a \in Amplitudes, t \in Times :
          LET ps == RStartEdits(x, x + 2 * a, t)
              w  == WriteChain(WriteChain(WriteChain(WriteChain(
                        NothingWritten(ps), RThere), There), Back), RBack)
          IN  Started(ps, w, RThere, "rloop")

RSinusoidStop ==
    /\ Room
    /\ Stopped([profiles EXCEPT ![There] = NextIs(@, RBack)], There, "rstop")

\* The drive and the line, as in SledProfile.
Link == \/ Confirm /\ UNCHANGED wish
        \/ Abort /\ UNCHANGED wish
        \/ OtherAbort /\ UNCHANGED wish
        \/ Short /\ LinkLost /\ wish' = "none"
        \/ SdosEnabled /\ UNCHANGED wish
        \/ Short /\ EnterOperational
           /\ wish' = IF active = NoItem THEN wish ELSE "cut"

SinusoidNext == \/ SinusoidStart \/ SinusoidStop
                \/ RSinusoidStart \/ RSinusoidStop
                \/ Link

\* The drive answers; nothing else is bound to happen.
SinusoidSpec == SinusoidInit /\ [][SinusoidNext]_allVars
                    /\ WF_allVars(Confirm /\ UNCHANGED wish)

-----------------------------------------------------------------------------
(***************************************************************************)
(* The task the drive goes on to after task p: bit 3 of its control word   *)
(* says that there is one, O_FN which.  -1: none, or p was never stored.   *)
(***************************************************************************)
After(p) ==
    LET task == drive.task[p]
    IN  IF task["O_C"] > 0 /\ (task["O_C"] \div 8) % 2 = 1
        THEN task["O_FN"] - TaskNumber(0) ELSE -1

(***************************************************************************)
(* From the way there the drive comes to an end, directly or over the ramp *)
(* down; of a ramp that is tainted (see TaskIsProfile) nothing is said:    *)
(* see RStopEnds.                                                          *)
(***************************************************************************)
RampEnds == RBack \in tainted \/ After(RBack) = -1

Ends == \/ After(There) = -1
        \/ After(There) = RBack /\ RampEnds

(***************************************************************************)
(* A stop command stops: once its writes are through, the drive comes to   *)
(* an end from the way there, directly or over the ramp, even if the stop  *)
(* was given while the start was being written, after a start that was     *)
(* refused, or with the other kind of stop.                                *)
(***************************************************************************)
StopEnds ==
    InTouch /\ active = NoItem =>
        /\ wish = "stop" => After(There) = -1
        /\ wish = "rstop" => After(There) = RBack /\ RampEnds

(***************************************************************************)
(* A stop command is not postponed for ever: it takes effect in the drive, *)
(* unless a new start, a lost link, or an aborted SDO intervenes.          *)
(***************************************************************************)
StopTakesEffect ==
    wish \in {"stop", "rstop"} ~> (\/ wish \notin {"stop", "rstop"}
                                   \/ Ends \/ ~InTouch)

(***************************************************************************)
(* The sled is set in motion only when the oscillation is complete in the  *)
(* drive: both ways link to each other, and a ramp leads into them; unless *)
(* one of the profiles is tainted (see TaskIsProfile), as by a start that  *)
(* was refused while the writes of a stop were on their way.               *)
(***************************************************************************)
LoopIsClosed ==
    /\ active.op = "run" /\ InTouch /\ wish # "cut"
    /\ {There, Back, active.p} \cap tainted = {}
    => /\ After(There) = Back /\ After(Back) = There
       /\ active.p = RThere => After(RThere) = Back

-----------------------------------------------------------------------------
(***************************************************************************)
(* "Stop rsinusoidal motion." (sled.cc, 438): once the writes of           *)
(* sled_rsinusoid_stop are through, the drive comes to an end over the     *)
(* ramp down.                                                              *)
(***************************************************************************)
RStopEnds ==
    wish = "rstop" /\ InTouch /\ active = NoItem =>
        After(There) = RBack /\ After(RBack) = -1
=============================================================================
