------------------------------- MODULE MchMp --------------------------------
(***************************************************************************)
(* The motion-profile machine (libsled/machines/mch_mp.cc), compiled       *)
(* without DIRTY_SINUSOID: mode switch, homing and the setpoint handshake. *)
(***************************************************************************)
EXTENDS MchSdo

MpStates == {"ST_MP_DISABLED", "ST_MP_SWITCH_MODE_HOMING", "ST_MP_HH_UNKNOWN",
             "ST_MP_HH_HOMING", "ST_MP_SWITCH_MODE_PP", "ST_MP_PP_IDLE",
             "ST_MP_PP_SP_NACK", "ST_MP_PP_SP_ACK"}

\* Fault: an enabled drive is taken to be homed and in PP mode.
HomingSkipped(s, e) ==
    CASE s # "ST_MP_DISABLED" /\ e = "EV_MP_DS_INOPERATIONAL" -> "ST_MP_DISABLED"
      [] s = "ST_MP_DISABLED" /\ e = "EV_MP_DS_OPERATIONAL"   -> "ST_MP_PP_IDLE"
      [] s = "ST_MP_PP_IDLE" /\ e = "EV_MP_SETPOINT_SET"      -> "ST_MP_PP_SP_NACK"
      [] s = "ST_MP_PP_SP_NACK" /\ e = "EV_MP_SETPOINT_ACK"   -> "ST_MP_PP_SP_ACK"
      [] s = "ST_MP_PP_SP_ACK" /\ e = "EV_MP_SETPOINT_NACK"   -> "ST_MP_PP_IDLE"
      [] OTHER -> s

MpNext(s, e) ==
    CASE s # "ST_MP_DISABLED" /\ e = "EV_MP_DS_INOPERATIONAL"
            -> "ST_MP_DISABLED"
      [] s = "ST_MP_DISABLED" /\ e = "EV_MP_DS_OPERATIONAL"
            -> "ST_MP_SWITCH_MODE_HOMING"
      [] s = "ST_MP_SWITCH_MODE_HOMING" /\ e = "EV_MP_MODE_HOMING"
            -> "ST_MP_HH_UNKNOWN"
      [] s = "ST_MP_HH_UNKNOWN" /\ e = "EV_MP_NOTHOMED"
            -> "ST_MP_HH_HOMING"
      [] s \in {"ST_MP_HH_UNKNOWN", "ST_MP_HH_HOMING"} /\ e = "EV_MP_HOMED"
            -> "ST_MP_SWITCH_MODE_PP"
      [] s = "ST_MP_SWITCH_MODE_PP" /\ e = "EV_MP_MODE_PP"
            -> "ST_MP_PP_IDLE"
      [] s = "ST_MP_PP_IDLE" /\ e = "EV_MP_SETPOINT_SET"
            -> "ST_MP_PP_SP_NACK"
      [] s = "ST_MP_PP_SP_NACK" /\ e = "EV_MP_SETPOINT_ACK"
            -> "ST_MP_PP_SP_ACK"
      [] s = "ST_MP_PP_SP_ACK" /\ e = "EV_MP_SETPOINT_NACK"
            -> "ST_MP_PP_IDLE"
      [] OTHER -> s

ModeHoming == 6
ModePP     == 1

MpEnter(h) ==
    CASE h.mp = "ST_MP_SWITCH_MODE_HOMING" -> SdoQueueWrite(h, "mode", ModeHoming)
      [] h.mp = "ST_MP_SWITCH_MODE_PP"     -> SdoQueueWrite(h, "mode", ModePP)
      [] h.mp = "ST_MP_HH_HOMING"          -> SdoQueueWrite(h, "control", NewSetpoint)
      [] h.mp = "ST_MP_PP_SP_ACK"          -> SdoQueueWrite(h, "control", ClearSetpoint)
      [] OTHER                             -> h

\* Fault: new_setpoint stays up after homing.
SetpointLeftUp(h) == h

\* Leaving homing lowers new_setpoint again.
MpExit(h) ==
    IF h.mp = "ST_MP_HH_HOMING" THEN SdoQueueWrite(h, "control", ClearSetpoint)
    ELSE h

MpHandle(h, e) ==
    IF MpNext(h.mp, e) = h.mp THEN h
    ELSE MpEnter([MpExit(h) EXCEPT !.mp = MpNext(h.mp, e)])
=============================================================================
