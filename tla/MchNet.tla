------------------------------- MODULE MchNet -------------------------------
(***************************************************************************)
(* The network-management machine (libsled/machines/mch_net.cc), its       *)
(* callbacks into the SDO and DS402 machines (sled.cc, 155-167), and the   *)
(* completion of SDO requests (interface.cc dispatch and the callbacks of  *)
(* mch_sdo.cc), which may call back into this machine.                     *)
(***************************************************************************)
EXTENDS MchDs

\* ST_NET_UPLOADCONFIG is declared by the code, but no transition enters it.
NetStates == {"ST_NET_DISABLED", "ST_NET_UNKNOWN", "ST_NET_STOPPED",
              "ST_NET_PREOPERATIONAL", "ST_NET_OPERATIONAL",
              "ST_NET_STARTREMOTENODE", "ST_NET_ENTERPREOPERATIONAL"}

NmtCommands == {"none", "NMT_ENTERPREOPERATIONAL", "NMT_STARTREMOTENODE"}

NetNext(s, e) ==
    CASE s = "ST_NET_DISABLED" /\ e = "EV_NET_INTF_OPENED"
            -> "ST_NET_UNKNOWN"
      [] s # "ST_NET_DISABLED" /\ e = "EV_NET_INTF_CLOSED"
            -> "ST_NET_DISABLED"
      [] s = "ST_NET_UNKNOWN" /\ e = "EV_NET_STOPPED"
            -> "ST_NET_STOPPED"
      [] s = "ST_NET_UNKNOWN" /\ e = "EV_NET_OPERATIONAL"
            -> "ST_NET_ENTERPREOPERATIONAL"
      [] s \in {"ST_NET_UNKNOWN", "ST_NET_ENTERPREOPERATIONAL"}
            /\ e = "EV_NET_PREOPERATIONAL"
            -> "ST_NET_PREOPERATIONAL"
      [] s = "ST_NET_PREOPERATIONAL" /\ e = "EV_NET_UPLOAD_COMPLETE"
            -> "ST_NET_STARTREMOTENODE"
      [] s = "ST_NET_PREOPERATIONAL"
            /\ e \in {"EV_NET_STOPPED", "EV_NET_WATCHDOG_FAILED"}
            -> "ST_NET_UNKNOWN"
      [] s = "ST_NET_OPERATIONAL"
            /\ e \in {"EV_NET_STOPPED", "EV_NET_PREOPERATIONAL",
                      "EV_NET_WATCHDOG_FAILED"}
            -> "ST_NET_UNKNOWN"
      [] s = "ST_NET_STARTREMOTENODE" /\ e = "EV_NET_OPERATIONAL"
            -> "ST_NET_OPERATIONAL"
      [] OTHER -> s

(***************************************************************************)
(* mch_net_queue_setup: the whole configuration is queued; only the last   *)
(* write reports back.  val is the position in the list, and acked, a      *)
(* history variable, counts the writes of this upload that were confirmed. *)
(***************************************************************************)
\* Fault: the first write reports the upload complete.
FirstReportsBack(ses) ==
    [i \in 1..Len(Config) |->
        [op |-> "write", ob |-> Config[i], val |-> i,
         cb |-> IF i = 1 THEN "final" ELSE "config", ses |-> ses]]

ConfigItems(ses) ==
    [i \in 1..Len(Config) |->
        [op |-> "write", ob |-> Config[i], val |-> i,
         cb |-> IF i = Len(Config) THEN "final" ELSE "config", ses |-> ses]]

NetQueueSetup(h) == SdoQueueAll([h EXCEPT !.acked = 0], ConfigItems(h.ses))

SendNmt(h, command) == [h EXCEPT !.nmt = command]

(***************************************************************************)
(* mch_net_on_enter.  The STOPPED case has no break: it falls through to   *)
(* the start command.  Entering OPERATIONAL also marks every profile in    *)
(* use as unsaved, which is outside this record.                           *)
(***************************************************************************)
NetEnter(h) ==
    CASE h.net = "ST_NET_DISABLED"
            -> SdoHandle(h, "EV_NET_SDO_DISABLED")
      [] h.net = "ST_NET_UNKNOWN"
            -> SendNmt(SdoHandle(h, "EV_NET_SDO_DISABLED"),
                       "NMT_ENTERPREOPERATIONAL")
      [] h.net = "ST_NET_STOPPED"
            -> SendNmt(SdoHandle(h, "EV_NET_SDO_DISABLED"),
                       "NMT_STARTREMOTENODE")
      [] h.net = "ST_NET_STARTREMOTENODE"
            -> SendNmt(h, "NMT_STARTREMOTENODE")
      [] h.net = "ST_NET_ENTERPREOPERATIONAL"
            -> SendNmt(h, "NMT_ENTERPREOPERATIONAL")
      [] h.net = "ST_NET_OPERATIONAL"
            -> DsHandle(SdoHandle(h, "EV_NET_SDO_ENABLED"),
                        "EV_DS_NET_OPERATIONAL")
      [] h.net = "ST_NET_PREOPERATIONAL"
            -> NetQueueSetup(SdoHandle(h, "EV_NET_SDO_ENABLED"))
      [] OTHER -> h

\* Fault: leaving OPERATIONAL is not passed on.
LeavesUnannounced(h) == h

NetExit(h) ==
    IF h.net = "ST_NET_OPERATIONAL"
    THEN DsHandle(h, "EV_DS_NET_INOPERATIONAL") ELSE h

NetHandle(h, e) ==
    IF NetNext(h.net, e) = h.net THEN h
    ELSE NetEnter([NetExit(h) EXCEPT !.net = NetNext(h.net, e)])

(***************************************************************************)
(* The callback of a confirmed item.  The success callback of a profile    *)
(* only marks a field of that profile, outside this record.                *)
(***************************************************************************)
ItemConfirmed(h) ==
    CASE h.active.cb = "config" -> [h EXCEPT !.acked = @ + 1]
      [] h.active.cb = "final"  -> NetHandle([h EXCEPT !.acked = @ + 1],
                                             "EV_NET_UPLOAD_COMPLETE")
      [] OTHER                  -> h

(***************************************************************************)
(* mch_sdo_read_callback and mch_sdo_write_callback.  Assertions are       *)
(* compiled in: an answer that is not for the active SDO ends the process. *)
(***************************************************************************)
SdoConfirmCallback(h, r) ==
    IF h.active # NoSdo /\ h.active.op = r.op /\ h.active.ob = r.ob
    THEN SdoFinish(ItemConfirmed(h),
                   IF r.op = "read" THEN "EV_SDO_READ_RESPONSE"
                                    ELSE "EV_SDO_WRITE_RESPONSE")
    ELSE [h EXCEPT !.status = "aborted"]

SdoAbortCallback(h, r) ==
    IF h.active # NoSdo /\ h.active.ob = r.ob
    THEN IF HasAbortCallback(h.active) THEN [h EXCEPT !.status = "exited"]
         ELSE SdoFinish(h, "EV_SDO_ABORT_RESPONSE")
    ELSE [h EXCEPT !.status = "aborted"]

(***************************************************************************)
(* The SDO part of intf_dispatch_msg.  The callbacks registered are those  *)
(* of the last request sent and are never cleared; a confirmation of the   *)
(* other kind is logged and dropped.                                       *)
(***************************************************************************)
DispatchSdo(h, r, answer) ==
    CASE answer = "confirm" /\ h.cb = r.op     -> SdoConfirmCallback(h, r)
      [] answer = "abort"   /\ h.cb # "none"   -> SdoAbortCallback(h, r)
      [] OTHER                                 -> h
=============================================================================
