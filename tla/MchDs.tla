------------------------------- MODULE MchDs --------------------------------
(***************************************************************************)
(* The DS402 device-state machine (libsled/machines/mch_ds.cc) and its     *)
(* callbacks into the motion-profile machine (sled.cc, 169-171).           *)
(***************************************************************************)
EXTENDS MchMp

DsStates == {"ST_DS_DISABLED", "ST_DS_UNKNOWN", "ST_DS_FAULT",
             "ST_DS_CLEARING_FAULT", "ST_DS_SWITCH_ON_DISABLED",
             "ST_DS_PREPARE_SWITCH_ON", "ST_DS_READY_TO_SWITCH_ON",
             "ST_DS_SWITCH_ON", "ST_DS_SHUTDOWN", "ST_DS_SWITCHED_ON",
             "ST_DS_DISABLE_OPERATION", "ST_DS_ENABLE_OPERATION",
             "ST_DS_OPERATION_ENABLED"}

(***************************************************************************)
(* The code writes !machine->state == ST_DS_DISABLED; the enumeration      *)
(* starts at ST_DS_DISABLED, so this is state # ST_DS_DISABLED.            *)
(***************************************************************************)
DsNext(s, e) ==
    CASE s # "ST_DS_DISABLED" /\ e = "EV_DS_NET_INOPERATIONAL"
            -> "ST_DS_DISABLED"
      [] s # "ST_DS_DISABLED" /\ e = "EV_DS_FAULT"
            -> "ST_DS_CLEARING_FAULT"
      [] s # "ST_DS_DISABLED" /\ e = "EV_DS_FAULT_REACTION_ACTIVE"
            -> "ST_DS_FAULT"
      [] s = "ST_DS_DISABLED" /\ e = "EV_DS_NET_OPERATIONAL"
            -> "ST_DS_UNKNOWN"
      [] s \in {"ST_DS_CLEARING_FAULT", "ST_DS_UNKNOWN", "ST_DS_SHUTDOWN"}
            /\ e = "EV_DS_NOT_READY_TO_SWITCH_ON"
            -> "ST_DS_SWITCH_ON_DISABLED"
      [] s \in {"ST_DS_CLEARING_FAULT", "ST_DS_UNKNOWN", "ST_DS_SHUTDOWN",
                "ST_DS_PREPARE_SWITCH_ON"}
            /\ e = "EV_DS_READY_TO_SWITCH_ON"
            -> "ST_DS_READY_TO_SWITCH_ON"
      [] s \in {"ST_DS_CLEARING_FAULT", "ST_DS_SWITCH_ON",
                "ST_DS_DISABLE_OPERATION"}
            /\ e = "EV_DS_SWITCHED_ON"
            -> "ST_DS_SWITCHED_ON"
      [] s = "ST_DS_SWITCH_ON_DISABLED" /\ e = "EV_DS_VOLTAGE_ENABLED"
            -> "ST_DS_PREPARE_SWITCH_ON"
      [] s = "ST_DS_READY_TO_SWITCH_ON" /\ e = "EV_DS_VOLTAGE_ENABLED"
            -> "ST_DS_SWITCH_ON"
      [] s = "ST_DS_SWITCHED_ON" /\ e = "EV_DS_VOLTAGE_ENABLED"
            -> "ST_DS_ENABLE_OPERATION"
      [] s \in {"ST_DS_SWITCH_ON", "ST_DS_SWITCHED_ON"}
            /\ e = "EV_DS_VOLTAGE_DISABLED"
            -> "ST_DS_SHUTDOWN"
      [] s = "ST_DS_ENABLE_OPERATION" /\ e = "EV_DS_OPERATION_ENABLED"
            -> "ST_DS_OPERATION_ENABLED"
      [] s = "ST_DS_OPERATION_ENABLED" /\ e = "EV_DS_VOLTAGE_DISABLED"
            -> "ST_DS_DISABLE_OPERATION"
      [] OTHER -> s

DsEnter(h) ==
    CASE h.ds \in {"ST_DS_UNKNOWN", "ST_DS_PREPARE_SWITCH_ON", "ST_DS_SHUTDOWN"}
            -> SdoQueueWrite(h, "control", Shutdown)
      [] h.ds \in {"ST_DS_SWITCH_ON", "ST_DS_DISABLE_OPERATION"}
            -> SdoQueueWrite(h, "control", SwitchOn)
      [] h.ds = "ST_DS_ENABLE_OPERATION"
            -> SdoQueueWrite(h, "control", EnableOperation)
      [] h.ds = "ST_DS_OPERATION_ENABLED"
            -> MpHandle(h, "EV_MP_DS_OPERATIONAL")
      [] h.ds = "ST_DS_CLEARING_FAULT"
            -> SdoQueueRead(h, "clear_fault")
      [] OTHER -> h

DsExit(h) ==
    IF h.ds = "ST_DS_OPERATION_ENABLED"
    THEN MpHandle(h, "EV_MP_DS_INOPERATIONAL") ELSE h

DsHandle(h, e) ==
    IF DsNext(h.ds, e) = h.ds THEN h
    ELSE DsEnter([DsExit(h) EXCEPT !.ds = DsNext(h.ds, e)])
=============================================================================
