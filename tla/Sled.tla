-------------------------------- MODULE Sled --------------------------------
(***************************************************************************)
(* libsled as a whole: the process record host, driven by everything the   *)
(* event loop can deliver to it: CAN messages (interface.cc, intf_on_read  *)
(* and sled.cc, intf_on_nmt and intf_on_tpdo), the watchdog timer, and the *)
(* client commands that reach the drive.  The drive and the bus are        *)
(* unconstrained: any NMT state and any TPDO may be reported at any time,  *)
(* SDO requests are answered in order, late, with an abort, or never.      *)
(***************************************************************************)
EXTENDS MchIntf

CONSTANT MaxQueue       \* bound: no new work while more SDOs than this wait

ASSUME MaxQueueAssumption == MaxQueue \in Nat

VARIABLE host

vars == <<host>>

StatusWords == {"none", "EV_DS_NOT_READY_TO_SWITCH_ON", "EV_DS_READY_TO_SWITCH_ON",
                "EV_DS_SWITCHED_ON", "EV_DS_OPERATION_ENABLED", "EV_DS_FAULT",
                "EV_DS_FAULT_REACTION_ACTIVE", "EV_DS_QUICK_STOP_ACTIVE"}
DriveModes  == {"pp", "homing", "other"}
NmtReports  == {"EV_NET_STOPPED", "EV_NET_OPERATIONAL", "EV_NET_PREOPERATIONAL",
                "other"}

(***************************************************************************)
(* The process when sled_create has built the machines.  quiet: more than  *)
(* MAX_NMT_DELAY since the last NMT message (sled_create makes sure of     *)
(* it).  measured: last_position has been assigned; the structure comes    *)
(* from malloc, so before that it holds garbage.                           *)
(***************************************************************************)
Created ==
    [status |-> "running", intf |-> "ST_INTF_CLOSED", handle |-> FALSE,
     reading |-> FALSE, net |-> "ST_NET_DISABLED", sdo |-> "ST_SDO_DISABLED",
     ds |-> "ST_DS_DISABLED", mp |-> "ST_MP_DISABLED", queue |-> <<>>,
     active |-> NoSdo, cb |-> "none", tx |-> <<>>, nmt |-> "none",
     quiet |-> TRUE, measured |-> FALSE,
     \* history
     ses |-> 0, acked |-> 0, cw |-> 0, badStart |-> FALSE, leaked |-> FALSE]

\* sled_create ends by opening the interface, which may fail.
Init == \E ok \in BOOLEAN : host = IntfOpen(Created, ok)

(***************************************************************************)
(* A callback runs to completion unless the process exits or aborts in it. *)
(***************************************************************************)
Running   == host.status = "running"
Settle(h) == IF h.status = "running" THEN h ELSE [host EXCEPT !.status = h.status]
HasRoom   == Len(host.queue) <= MaxQueue

-----------------------------------------------------------------------------
\* CAN messages

NmtReceived(h, s) ==
    [(IF s = "other" THEN h ELSE NetHandle(h, s)) EXCEPT !.quiet = FALSE]

OnNmt == /\ Running /\ host.reading
         /\ \E s \in NmtReports : host' = Settle(NmtReceived(host, s))

(***************************************************************************)
(* TPDO 1: the event of the status word, the voltage bit, then the events  *)
(* of the mode of operation with status bit 12.                            *)
(***************************************************************************)
StatusReceived(h, s) == IF s = "none" THEN h ELSE DsHandle(h, s)

VoltageReceived(h, on) ==
    DsHandle(h, IF on THEN "EV_DS_VOLTAGE_ENABLED" ELSE "EV_DS_VOLTAGE_DISABLED")

ModeReceived(h, mode, bit) ==
    CASE mode = "pp" ->
            MpHandle(MpHandle(h, "EV_MP_MODE_PP"),
                     IF bit THEN "EV_MP_SETPOINT_ACK" ELSE "EV_MP_SETPOINT_NACK")
      [] mode = "homing" ->
            MpHandle(MpHandle(h, "EV_MP_MODE_HOMING"),
                     IF bit THEN "EV_MP_HOMED" ELSE "EV_MP_NOTHOMED")
      [] OTHER -> h

Tpdo1Received(h, s, on, mode, bit) ==
    ModeReceived(VoltageReceived(StatusReceived(h, s), on), mode, bit)

OnTpdo1 == /\ Running /\ host.reading /\ HasRoom
           /\ \E s \in StatusWords, on \in BOOLEAN, m \in DriveModes, b \in BOOLEAN :
                 host' = Settle(Tpdo1Received(host, s, on, m, b))

OnTpdo2 == /\ Running /\ host.reading
           /\ host' = [host EXCEPT !.measured = TRUE]

\* The drive answers the oldest request it has not answered yet.
OnSdoAnswer ==
    /\ Running /\ host.reading /\ host.tx # <<>>
    /\ \E answer \in {"confirm", "abort"} :
          host' = Settle(DispatchSdo([host EXCEPT !.tx = Tail(@)],
                                     Head(host.tx), answer))

\* The request, or the answer to it, is lost.
LoseFrame == /\ Running /\ host.tx # <<>>
             /\ host' = [host EXCEPT !.tx = Tail(@)]

\* LINUX_CAN_Read fails: the interface is closed, and CAN_Close may fail too.
OnReadError == /\ Running /\ host.reading
               /\ \E ok \in BOOLEAN : host' = Settle(IntfClose(host, ok))

-----------------------------------------------------------------------------
\* The watchdog

NmtSilence == /\ Running /\ ~host.quiet
              /\ host' = [host EXCEPT !.quiet = TRUE]

NmtWatchdog == /\ Running /\ host.quiet
               /\ host' = Settle(NetHandle(host, "EV_NET_WATCHDOG_FAILED"))

-----------------------------------------------------------------------------
(***************************************************************************)
(* Client commands.  Which fields of a profile are pending is the subject  *)
(* of module SledProfile; here n of them are.  If load, register 0 is      *)
(* loaded with the motion task first; after the fields it is stored back.  *)
(* A profile that names a next one writes that one too, in the same way:   *)
(* a WritePending step more.                                               *)
(***************************************************************************)
ProfileItems(n, ses) ==
    [i \in 1..n |-> [op |-> "write", ob |-> ProfileFields[i], val |-> 0,
                     cb |-> "profile", ses |-> ses]]

LoadTask(h, load) == IF load THEN SdoQueueWrite(h, "copy_task", 0) ELSE h

WritePendingChanges(h, n, load) ==
    IF n = 0 THEN h
    ELSE LET l == LoadTask(h, load)
         IN  SdoQueueWrite(SdoQueueAll(l, ProfileItems(n, l.ses)), "copy_task", 0)

\* Fault: the motion task is selected, but the setpoint is not raised.
ExecuteWithoutSetpoint(h, n, load) ==
    IF h.mp # "ST_MP_PP_IDLE" THEN h
    ELSE MpHandle(SdoQueueWrite(WritePendingChanges(h, n, load), "motion_task", 0),
                  "EV_MP_SETPOINT_SET")

ProfileExecute(h, n, load) ==
    IF h.mp # "ST_MP_PP_IDLE" THEN h
    ELSE MpHandle(SdoQueueWrite(SdoQueueWrite(WritePendingChanges(h, n, load),
                                              "motion_task", 0),
                                "control", NewSetpoint),
                  "EV_MP_SETPOINT_SET")

Execute == /\ Running /\ HasRoom
           /\ \E n \in 0..Len(ProfileFields), load \in BOOLEAN :
                 host' = Settle(ProfileExecute(host, n, load))

\* sled_sinusoid_stop and the rsinusoid functions write in any state.
WritePending == /\ Running /\ HasRoom
                /\ \E n \in 1..Len(ProfileFields), load \in BOOLEAN :
                      host' = Settle(WritePendingChanges(host, n, load))

\* sled_light_set_state
LightSetState == /\ Running /\ HasRoom
                 /\ host.sdo # "ST_SDO_DISABLED"
                 /\ host' = Settle(SdoQueueWrite(host, "light", 0))

(***************************************************************************)
(* sled_rt_get_position_and_time, which changes nothing: the position it   *)
(* returns is a number whenever the network is operational.                *)
(***************************************************************************)
GetPosition(h) == CASE h.net # "ST_NET_OPERATIONAL" -> "NAN"
                    [] h.measured                   -> "last_position"
                    [] OTHER                        -> "uninitialised"

-----------------------------------------------------------------------------
Next == \/ OnNmt \/ OnTpdo1 \/ OnTpdo2 \/ OnSdoAnswer \/ LoseFrame \/ OnReadError
        \/ NmtSilence \/ NmtWatchdog
        \/ Execute \/ WritePending \/ LightSetState

Spec == Init /\ [][Next]_vars

-----------------------------------------------------------------------------
Process == [status : {"running", "exited", "aborted"}, intf : IntfStates,
            handle : BOOLEAN, reading : BOOLEAN, net : NetStates, sdo : SdoStates,
            ds : DsStates, mp : MpStates, queue : Seq(Item),
            active : Item \cup {NoSdo}, cb : {"none", "read", "write"},
            tx : Seq(Frame), nmt : NmtCommands, quiet : BOOLEAN,
            measured : BOOLEAN, ses : {0, 1}, acked : Nat, cw : Nat,
            badStart : BOOLEAN, leaked : BOOLEAN]

(***************************************************************************)
(* Type invariant.                                                         *)
(***************************************************************************)
TypeOK == host \in Process

(***************************************************************************)
(* The machines follow one another.  The drive is controlled only while    *)
(* the network is operational, motion only while the operation is enabled, *)
(* and SDOs flow only in the three network states that allow them: a lost  *)
(* link, a fault or a closed device reaches every machine above it within  *)
(* the callback that notices it.                                           *)
(***************************************************************************)
Cascade ==
    /\ host.net # "ST_NET_DISABLED" => host.intf = "ST_INTF_OPENED"
    /\ host.net = "ST_NET_OPERATIONAL" <=> host.ds # "ST_DS_DISABLED"
    /\ host.ds = "ST_DS_OPERATION_ENABLED" <=> host.mp # "ST_MP_DISABLED"
    /\ host.sdo \in {"ST_SDO_WAITING", "ST_SDO_SENDING"} =>
          host.net \in {"ST_NET_PREOPERATIONAL", "ST_NET_STARTREMOTENODE",
                        "ST_NET_OPERATIONAL"}

(***************************************************************************)
(* The SDO machine never sleeps on work: it waits only with an empty       *)
(* queue, and while it is sending there is an item for the answer to find. *)
(***************************************************************************)
NoLostWakeup ==
    /\ host.sdo = "ST_SDO_WAITING" => host.queue = <<>>
    /\ host.sdo = "ST_SDO_SENDING" => host.active # NoSdo

(***************************************************************************)
(* A command queued before the link was lost is never sent after it is     *)
(* back: whatever is queued or sent in an SDO session was queued in it.    *)
(***************************************************************************)
NoStaleCommand ==
    /\ host.sdo \in {"ST_SDO_WAITING", "ST_SDO_SENDING"} =>
          \A i \in 1..Len(host.queue) : host.queue[i].ses = host.ses
    /\ host.sdo = "ST_SDO_SENDING" => host.active.ses = host.ses

(***************************************************************************)
(* The drive is started, and accepted as operational, only after every     *)
(* write of the configuration was confirmed since the upload began.        *)
(***************************************************************************)
ConfiguredBeforeStart ==
    host.net \in {"ST_NET_STARTREMOTENODE", "ST_NET_OPERATIONAL"} =>
        host.acked = Len(Config)

(***************************************************************************)
(* new_setpoint is only ever raised from a control word that has it clear  *)
(* and the operation enabled: two machines and the client commands write   *)
(* the control word through one queue, and the drive acts on the edge.     *)
(***************************************************************************)
SetpointEdge == ~host.badStart

(***************************************************************************)
(* The setpoint handshake does not wait for the acknowledgement of a       *)
(* setpoint that was never queued: the word is the last control word sent, *)
(* or it is still in the queue, which an SDO machine in error keeps too.   *)
(***************************************************************************)
SetpointOnItsWay ==
    host.mp = "ST_MP_PP_SP_NACK" =>
        \/ host.cw = NewSetpoint
        \/ \E i \in 1..Len(host.queue) : /\ host.queue[i].ob = "control"
                                         /\ host.queue[i].val = NewSetpoint

(***************************************************************************)
(* What a supervisor of the sled sees of the machines: see Supervisor.     *)
(***************************************************************************)
PhaseOf(h) ==
    CASE h.net = "ST_NET_PREOPERATIONAL"  -> "configuring"
      [] h.net = "ST_NET_STARTREMOTENODE" -> "starting"
      [] h.net = "ST_NET_OPERATIONAL" /\ h.mp = "ST_MP_DISABLED" -> "enabling"
      [] h.net = "ST_NET_OPERATIONAL" /\ h.mp = "ST_MP_PP_IDLE"  -> "ready"
      [] h.net = "ST_NET_OPERATIONAL"
            /\ h.mp \in {"ST_MP_PP_SP_NACK", "ST_MP_PP_SP_ACK"} -> "moving"
      [] h.net = "ST_NET_OPERATIONAL"
            /\ h.mp \in {"ST_MP_SWITCH_MODE_HOMING", "ST_MP_HH_UNKNOWN",
                         "ST_MP_HH_HOMING", "ST_MP_SWITCH_MODE_PP"} -> "homing"
      [] OTHER -> "offline"

Abstract == INSTANCE Supervisor WITH phase <- PhaseOf(host)

(***************************************************************************)
(* The five machines together implement the supervisor: the sled is never  *)
(* set in motion without configuration, start, enabling and homing, in     *)
(* that order, since the last time one of them was lost.                   *)
(***************************************************************************)
ImplementsSupervisor == Abstract!Spec

-----------------------------------------------------------------------------
\* What comments and assertions of the program say, and the runs refute.

(***************************************************************************)
(* "If the SDO is dropped or aborted, the abort_callback is invoked."      *)
(* (mch_sdo.cc, 233): no item with callbacks is ever overwritten unheard.  *)
(***************************************************************************)
NoSilentDrop == ~host.leaked

(***************************************************************************)
(* assert(mch_sdo->sdo_active && ...) (mch_sdo.cc, 61-64 and 87-90): every *)
(* answer that reaches the SDO machine is to the SDO it has active.        *)
(***************************************************************************)
AnswersMatch == host.status # "aborted"

(***************************************************************************)
(* "If not current position is available, the position field is set to     *)
(* NAN" (sled.cc, 304): a position is returned only if one was received.   *)
(***************************************************************************)
PositionIsMeasured == GetPosition(host) # "uninitialised"
=============================================================================
