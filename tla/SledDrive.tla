----------------------------- MODULE SledDrive ------------------------------
(***************************************************************************)
(* libsled in closed loop with a drive that behaves: a CANopen node with a *)
(* DS402 state machine that obeys NMT commands and control words, answers  *)
(* every SDO, reports its state, and may be upset a bounded number of      *)
(* times: it loses its voltage, raises a fault, refuses a request or       *)
(* restarts, or the bus loses a frame or falls silent.  Clients start      *)
(* motions and stop them.  The handlers are those of Sled; the drive is    *)
(* modelled from how libsled uses it.  The CAN device itself works.        *)
(***************************************************************************)
EXTENDS Sled

CONSTANT MaxUpsets      \* bound: upsets and stop commands in one run

ASSUME MaxUpsetsAssumption == MaxUpsets \in Nat

VARIABLES
    drive,      \* the drive's NMT and DS402 state, mode, status bits
    upsets,     \* upsets and stop commands still to come
    hurt        \* history: what happened that the program has no answer to

allVars == <<host, drive, upsets, hurt>>

PowerOn == [nmt |-> "EV_NET_PREOPERATIONAL", ds |-> "EV_DS_NOT_READY_TO_SWITCH_ON",
            voltage |-> TRUE, mode |-> "pp", homed |-> FALSE, homing |-> FALSE,
            ack |-> FALSE]

\* The drive may be found in pre-operational or in operational state.
LoopInit == /\ host = IntfOpen(Created, TRUE)
            /\ drive \in {PowerOn, [PowerOn EXCEPT !.nmt = "EV_NET_OPERATIONAL"]}
            /\ upsets = MaxUpsets
            /\ hurt = {}

-----------------------------------------------------------------------------
\* What the drive does with a control word, and with any other object.
DriveStateAfter(s, word) ==
    CASE s \in {"EV_DS_NOT_READY_TO_SWITCH_ON", "EV_DS_SWITCHED_ON",
                "EV_DS_OPERATION_ENABLED"} /\ word = Shutdown
            -> "EV_DS_READY_TO_SWITCH_ON"
      [] s \in {"EV_DS_READY_TO_SWITCH_ON", "EV_DS_OPERATION_ENABLED"}
            /\ word = SwitchOn
            -> "EV_DS_SWITCHED_ON"
      [] s = "EV_DS_SWITCHED_ON" /\ word = EnableOperation
            -> "EV_DS_OPERATION_ENABLED"
      [] OTHER -> s

\* Bit 4 starts homing in homing mode and is acknowledged in PP mode.
DriveTakesWord(d, word) ==
    LET enabled == d.ds = "EV_DS_OPERATION_ENABLED"
    IN  [d EXCEPT !.ds = DriveStateAfter(@, word),
                  !.homing = enabled /\ d.mode = "homing" /\ word = NewSetpoint,
                  !.ack = enabled /\ d.mode = "pp" /\ word = NewSetpoint]

DriveTakes(d, sdo) ==
    CASE sdo.ob = "control"     -> DriveTakesWord(d, sdo.val)
      [] sdo.ob = "mode"        -> [d EXCEPT !.mode = IF sdo.val = ModeHoming
                                                      THEN "homing" ELSE "pp"]
      [] sdo.ob = "clear_fault" -> [d EXCEPT !.ds = IF @ = "EV_DS_FAULT"
                                        THEN "EV_DS_NOT_READY_TO_SWITCH_ON" ELSE @]
      [] OTHER -> d

(***************************************************************************)
(* What the program has no answer to.  Two kinds come about in a step of   *)
(* the program itself:                                                     *)
(*   writes   writes with callbacks wait while SDOs are disabled or in     *)
(*            error; they are dropped when SDOs are enabled again, and     *)
(*            their abort callbacks end the process;                       *)
(*   late     an SDO session is opened while a request of the one before   *)
(*            is still to be answered.                                     *)
(* The others are the kinds of an upset: a lost frame (sdo, nmt), a        *)
(* refused request without callbacks (sdo) or with (refused), a fault and  *)
(* a restart at a bad moment.                                              *)
(***************************************************************************)
WritesWait(h) == \E i \in 1..Len(h.queue) : HasAbortCallback(h.queue[i])

Closed(h) == h.sdo \in {"ST_SDO_DISABLED", "ST_SDO_ERROR"}
Doomed(h) == Closed(h) /\ WritesWait(h)

Note(kinds) ==
    hurt' = hurt \cup kinds
                 \cup {k \in {"writes"} : Doomed(host')}
                 \cup {k \in {"late"} : Closed(host) /\ ~Closed(host') /\ host.tx # <<>>}

\* The drive executes the oldest request on the wire and confirms it.
DriveAnswers ==
    /\ Running /\ host.tx # <<>>
    /\ drive' = DriveTakes(drive, Head(host.tx))
    /\ host' = Settle(DispatchSdo([host EXCEPT !.tx = Tail(@)], Head(host.tx),
                                  "confirm"))
    /\ Note({})
    /\ UNCHANGED upsets

DriveTakesNmt ==
    /\ Running /\ host.nmt # "none"
    /\ drive' = [drive EXCEPT !.nmt = IF host.nmt = "NMT_STARTREMOTENODE"
                                      THEN "EV_NET_OPERATIONAL"
                                      ELSE "EV_NET_PREOPERATIONAL"]
    /\ host' = [host EXCEPT !.nmt = "none"]
    /\ UNCHANGED <<upsets, hurt>>

\* A heartbeat may come before the answer to a request sent earlier.
Heartbeat ==
    /\ Running
    /\ host' = Settle(NmtReceived(host, drive.nmt))
    /\ Note({})
    /\ UNCHANGED <<drive, upsets>>

\* Process data is only sent in the operational state.
ReportReceived(h, d) ==
    Tpdo1Received(h, d.ds, d.voltage, d.mode,
                  IF d.mode = "homing" THEN d.homed ELSE d.ack)

StatusReport ==
    /\ Running /\ HasRoom /\ drive.nmt = "EV_NET_OPERATIONAL"
    /\ host' = Settle(ReportReceived(host, drive))
    /\ Note({})
    /\ UNCHANGED <<drive, upsets>>

HomingDone ==
    /\ drive.homing /\ ~drive.homed
    /\ drive' = [drive EXCEPT !.homed = TRUE, !.homing = FALSE]
    /\ UNCHANGED <<host, upsets, hurt>>

-----------------------------------------------------------------------------
(***************************************************************************)
(* Upsets.  The first group the program has an answer to.                  *)
(***************************************************************************)
Upset(kinds) == /\ upsets > 0
                /\ upsets' = upsets - 1
                /\ Note(kinds)

VoltageLost == /\ drive.voltage
               /\ drive' = [drive EXCEPT !.voltage = FALSE]
               /\ UNCHANGED host
               /\ Upset({})

VoltageBack == /\ ~drive.voltage
               /\ drive' = [drive EXCEPT !.voltage = TRUE]
               /\ UNCHANGED <<host, upsets, hurt>>

\* A fault stops the motion; while another is being cleared it goes unseen.
Fault == /\ drive.ds # "EV_DS_FAULT"
         /\ drive' = [drive EXCEPT !.ds = "EV_DS_FAULT", !.homing = FALSE,
                                   !.ack = FALSE]
         /\ UNCHANGED host
         /\ Upset(IF host.ds = "ST_DS_CLEARING_FAULT" THEN {"fault"} ELSE {})

\* The drive restarts; requests it had not answered are gone.
Restart == /\ Running
           /\ drive' = PowerOn
           /\ host' = [host EXCEPT !.tx = <<>>, !.nmt = "none"]
           /\ Upset(IF host.net = "ST_NET_OPERATIONAL" THEN {} ELSE {"restart"})

\* The bus is silent for too long while the drive goes on as it was.
WatchdogFires ==
    /\ Running /\ host.net \in {"ST_NET_PREOPERATIONAL", "ST_NET_OPERATIONAL"}
    /\ host' = Settle(NetHandle(host, "EV_NET_WATCHDOG_FAILED"))
    /\ Upset({})
    /\ UNCHANGED drive

(***************************************************************************)
(* The second group it has none to: a request or the answer to it is lost, *)
(* an NMT command is lost, or the drive refuses a request.  A refused      *)
(* configuration or profile write ends the process by its abort callback.  *)
(***************************************************************************)
SdoLost == /\ Running /\ host.tx # <<>>
           /\ drive' \in {drive, DriveTakes(drive, Head(host.tx))}
           /\ host' = [host EXCEPT !.tx = Tail(@)]
           /\ Upset({"sdo"})

NmtLost == /\ Running /\ host.nmt # "none"
           /\ host' = [host EXCEPT !.nmt = "none"]
           /\ Upset({"nmt"})
           /\ UNCHANGED drive

SdoRefused ==
    /\ Running /\ host.tx # <<>>
    /\ host' = Settle(DispatchSdo([host EXCEPT !.tx = Tail(@)], Head(host.tx),
                                  "abort"))
    /\ Upset(IF HasAbortCallback(host.active) THEN {"refused"} ELSE {"sdo"})
    /\ UNCHANGED drive

-----------------------------------------------------------------------------
\* Clients.  A motion is refused unless the machine is in PP_IDLE.
ClientExecutes == /\ Running /\ HasRoom /\ host.mp = "ST_MP_PP_IDLE"
                  /\ \E n \in 0..Len(ProfileFields), load \in BOOLEAN :
                        host' = Settle(ProfileExecute(host, n, load))
                  /\ Note({})
                  /\ UNCHANGED <<drive, upsets>>

\* A sinusoid is stopped, or another ended: profiles are written in any state.
ClientStops == /\ Running /\ HasRoom
               /\ \E n \in 1..Len(ProfileFields), load \in BOOLEAN :
                     host' = Settle(WritePendingChanges(host, n, load))
               /\ Upset({})
               /\ UNCHANGED drive

LoopNext == \/ DriveAnswers \/ DriveTakesNmt \/ Heartbeat \/ StatusReport
            \/ HomingDone \/ VoltageLost \/ VoltageBack \/ Fault \/ Restart
            \/ WatchdogFires \/ SdoLost \/ NmtLost \/ SdoRefused
            \/ ClientExecutes \/ ClientStops

(***************************************************************************)
(* The drive answers, obeys and finishes homing, and its heartbeat and     *)
(* event timers keep running; the server's loop serves what arrives.       *)
(* Nothing obliges a client to move or stop the sled, nor an upset to      *)
(* happen.                                                                 *)
(* For the three actions that run the state machines weak fairness is      *)
(* written out, with the predicate that the action is enabled and changes  *)
(* something: TLC cannot evaluate ENABLED of so large an action.           *)
(***************************************************************************)
Fairness ==
    /\ WF_allVars(DriveTakesNmt) /\ WF_allVars(HomingDone)
    /\ WF_allVars(VoltageBack)
    /\ []<>~(Running /\ host.tx # <<>>) \/ []<><<DriveAnswers>>_allVars
    /\ []<>~(/\ Running
             /\ Settle(NmtReceived(host, drive.nmt)) # host)
       \/ []<><<Heartbeat>>_allVars
    /\ []<>~(/\ Running /\ HasRoom /\ drive.nmt = "EV_NET_OPERATIONAL"
             /\ Settle(ReportReceived(host, drive)) # host)
       \/ []<><<StatusReport>>_allVars

LoopSpec == LoopInit /\ [][LoopNext]_allVars /\ Fairness

-----------------------------------------------------------------------------
Ready == host.mp = "ST_MP_PP_IDLE"

(***************************************************************************)
(* As long as nothing happens that the program has no answer to, the sled  *)
(* comes back to where it can take a motion command: voltage losses,       *)
(* faults, a silent bus, and restarts of an operational drive are all      *)
(* recovered from; configuration, start, the DS402 ladder, homing and the  *)
(* setpoint handshakes complete.  What hurt records is excluded: besides   *)
(* lost and refused frames also a restart while the drive is not           *)
(* operational, a second fault while one is cleared, waiting writes that a *)
(* lost link cuts off, and an answer that outlives its session.            *)
(***************************************************************************)
AlwaysReadyAgain == [](hurt = {}) => []<>Ready

(***************************************************************************)
(* Where the program waits for something that cannot come any more:        *)
(*  - for the answer to a request that is not on the bus (mch_sdo.cc has   *)
(*    no timeout), or in ERROR, which only a network change leaves;        *)
(*  - for the effect of an NMT command that is not on the bus and that is  *)
(*    sent once (mch_net.cc);                                              *)
(*  - for the end of a fault that nobody is going to clear (mch_ds.cc).    *)
(***************************************************************************)
SdoStalled == \/ host.sdo = "ST_SDO_SENDING" /\ host.tx = <<>>
              \/ host.sdo = "ST_SDO_ERROR"

NmtStalled ==
    /\ host.nmt = "none"
    /\ \/ /\ host.net = "ST_NET_STARTREMOTENODE"
          /\ drive.nmt # "EV_NET_OPERATIONAL"
       \/ /\ host.net = "ST_NET_ENTERPREOPERATIONAL"
          /\ drive.nmt # "EV_NET_PREOPERATIONAL"

FaultStalled == /\ host.ds = "ST_DS_CLEARING_FAULT" /\ drive.ds = "EV_DS_FAULT"
                /\ host.sdo = "ST_SDO_WAITING"

(***************************************************************************)
(* Those are the only places to get stuck: with lost frames, refusals,     *)
(* restarts at any moment and overlapping faults, either the sled keeps    *)
(* becoming ready, or from some moment on it sits in one of those waits or *)
(* the process is gone.                                                    *)
(***************************************************************************)
OnlyKnownStalls ==
    []<>Ready \/ <>[](~Running \/ SdoStalled \/ NmtStalled \/ FaultStalled)

(***************************************************************************)
(* What can end the process, as long as the CAN device works.  It exits    *)
(* only if writes of the configuration or of a profile were waiting while  *)
(* SDOs were disabled or in error (a lost link, a stop command without a   *)
(* link, a refusal before them), or if the drive refused such a write; an  *)
(* assertion fails only if an SDO session was opened while a request of an *)
(* earlier one was unanswered.  No other silence, restart, lost frame,     *)
(* refusal or fault ends it, in any order.                                 *)
(***************************************************************************)
StaysUp ==
    /\ host.status = "exited"  => hurt \cap {"writes", "refused"} # {}
    /\ host.status = "aborted" => "late" \in hurt

(***************************************************************************)
(* The server's idea of the drive is right where it matters: when it is    *)
(* ready for a motion command and nothing is in flight, the drive is       *)
(* homed, in profile-position mode and no setpoint is pending in it,       *)
(* unless an upset was not reported yet.                                   *)
(***************************************************************************)
ReadyIsTrue ==
    /\ host.mp = "ST_MP_PP_IDLE"
    /\ host.sdo = "ST_SDO_WAITING" /\ host.tx = <<>>
    /\ drive.ds = "EV_DS_OPERATION_ENABLED"
    /\ drive.nmt = "EV_NET_OPERATIONAL"
    => drive.homed /\ drive.mode = "pp" /\ ~drive.ack
=============================================================================
