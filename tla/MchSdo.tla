------------------------------- MODULE MchSdo -------------------------------
(***************************************************************************)
(* The SDO queue machine (libsled/machines/mch_sdo.cc) and the request     *)
(* side of the CAN interface it drives (libsled/interface.cc).             *)
(*                                                                         *)
(* The server is one thread that runs event-loop callbacks to completion,  *)
(* and its five state machines call one another synchronously from inside  *)
(* on_enter and on_exit.  Each machine is therefore a set of operators     *)
(* from a process record h to the record the callback leaves behind, and   *)
(* the machines are layered in the order of those calls:                   *)
(*   MchSdo <- MchMp <- MchDs <- MchNet <- MchIntf <- Sled.                *)
(* An operator of a layer only touches its own fields of h and calls down. *)
(***************************************************************************)
EXTENDS Integers, Sequences

CONSTANTS
    Config,         \* the objects mch_net_queue_setup writes, in order
    ProfileFields,  \* the objects of a motion profile, in the order written
    MaxTx           \* requests the CAN controller buffers before it drops one

ASSUME ConfigAssumption == Config \in Seq(STRING) /\ Len(Config) > 0
ASSUME FieldsAssumption == ProfileFields \in Seq(STRING)
ASSUME MaxTxAssumption  == MaxTx \in Nat \ {0}

\* Neither list has the control word (0x6040) in it.
ASSUME ControlAssumption ==
    /\ \A i \in 1..Len(Config) : Config[i] # "control"
    /\ \A i \in 1..Len(ProfileFields) : ProfileFields[i] # "control"

SdoStates == {"ST_SDO_DISABLED", "ST_SDO_WAITING", "ST_SDO_SENDING",
              "ST_SDO_ERROR"}

\* The objects the program reads and writes; each stands for index:subindex.
Object == {"control", "mode", "clear_fault", "motion_task", "copy_task", "light"}
             \cup {Config[i] : i \in 1..Len(Config)}
             \cup {ProfileFields[i] : i \in 1..Len(ProfileFields)}

(***************************************************************************)
(* struct sdo_t.  The pair of function pointers is abstracted to who owns  *)
(* it:                                                                     *)
(*   none     no callbacks (control words, modes, motion task, light)      *)
(*   config   mch_net_sdo_abort_callback only                              *)
(*   final    the same, and mch_net_sdo_write_callback                     *)
(*   profile  on_success_callback and on_failure_callback                  *)
(* Every abort callback of the program ends in exit(1).  ses is a history  *)
(* variable: the parity of the SDO session the item was queued in.         *)
(***************************************************************************)
Callbacks == {"none", "config", "final", "profile"}
Item  == [op : {"read", "write"}, ob : Object, val : Nat, cb : Callbacks,
          ses : {0, 1}]
NoSdo == [op |-> "none", ob |-> "none", val |-> 0, cb |-> "none", ses |-> 0]
Frame == [op : {"read", "write"}, ob : Object, val : Nat]

FrameOf(sdo) == [op |-> sdo.op, ob |-> sdo.ob, val |-> sdo.val]

HasAbortCallback(sdo) == sdo.cb # "none"

\* Control words, with the bits of DS402: bit 4 is new_setpoint.
Shutdown        == 6        \* 0x06
SwitchOn        == 7        \* 0x07, also "disable operation"
EnableOperation == 15       \* 0x0F
ClearSetpoint   == 47       \* 0x0F | 0x20
NewSetpoint     == 63       \* 0x1F | 0x20

(***************************************************************************)
(* A new setpoint moves the sled when bit 4 rises while the operation is   *)
(* enabled: the word sent before it must be one of these.                  *)
(***************************************************************************)
EnabledWithBitClear == {EnableOperation, ClearSetpoint}

SdoNext(s, e) ==
    CASE s \in {"ST_SDO_DISABLED", "ST_SDO_ERROR"} /\ e = "EV_NET_SDO_ENABLED"
            -> "ST_SDO_WAITING"
      [] s \in {"ST_SDO_WAITING", "ST_SDO_SENDING"} /\ e = "EV_NET_SDO_DISABLED"
            -> "ST_SDO_DISABLED"
      [] s = "ST_SDO_WAITING" /\ e = "EV_SDO_ITEM_AVAILABLE"
            -> "ST_SDO_SENDING"
      [] s = "ST_SDO_SENDING"
            /\ e \in {"EV_SDO_READ_RESPONSE", "EV_SDO_WRITE_RESPONSE"}
            -> "ST_SDO_WAITING"
      [] s = "ST_SDO_SENDING" /\ e = "EV_SDO_ABORT_RESPONSE"
            -> "ST_SDO_ERROR"
      [] OTHER -> s

(***************************************************************************)
(* intf_send_read_req and intf_send_write_req: register the callbacks of   *)
(* this request and write the frame; the caller ignores the result of      *)
(* intf_write, so a full controller loses the frame.  cw and badStart are  *)
(* history variables: the last control word sent, and whether new_setpoint *)
(* was ever raised from a word that did not allow it.                      *)
(***************************************************************************)
SdoSend(h, sdo) ==
    [h EXCEPT !.cb = sdo.op,
              !.tx = IF Len(@) < MaxTx
                        THEN Append(@, FrameOf(sdo)) ELSE @,
              !.cw = IF sdo.ob = "control" THEN sdo.val ELSE @,
              !.badStart = @ \/ (/\ sdo.ob = "control"
                                 /\ sdo.val = NewSetpoint
                                 /\ h.cw \notin EnabledWithBitClear)]

(***************************************************************************)
(* Entering SENDING pops the head into sdo_active, whatever was there.     *)
(* leaked is a history variable: an item with callbacks was overwritten.   *)
(***************************************************************************)
SdoEnterSending(h) ==
    SdoSend([h EXCEPT !.active = Head(h.queue),
                      !.queue  = Tail(@),
                      !.leaked = @ \/ HasAbortCallback(h.active)],
            Head(h.queue))

\* Fault: WAITING does not look at the queue.
SleepOnWork(h) == h

SdoEnterWaiting(h) ==
    IF h.queue = <<>> THEN h
    ELSE SdoEnterSending(
            [h EXCEPT !.sdo = SdoNext("ST_SDO_WAITING", "EV_SDO_ITEM_AVAILABLE")])

SdoEnter(h) ==
    CASE h.sdo = "ST_SDO_SENDING" -> SdoEnterSending(h)
      [] h.sdo = "ST_SDO_WAITING" -> SdoEnterWaiting(h)
      [] OTHER                    -> h

\* The abort callback of a dropped item ends the process.
SdoClearQueue(h) ==
    [h EXCEPT !.queue = <<>>,
              !.status = IF \E i \in 1..Len(h.queue) : HasAbortCallback(h.queue[i])
                            THEN "exited" ELSE @]

\* Fault: only ERROR drops the queue.
KeepQueueWhenDisabled(h) ==
    IF h.sdo = "ST_SDO_ERROR" THEN [SdoClearQueue(h) EXCEPT !.ses = 1 - @]
    ELSE [h EXCEPT !.ses = IF h.sdo = "ST_SDO_DISABLED" THEN 1 - @ ELSE @]

\* Leaving DISABLED or ERROR drops the queue; it also opens a new session.
SdoExit(h) ==
    IF h.sdo \in {"ST_SDO_DISABLED", "ST_SDO_ERROR"}
    THEN [SdoClearQueue(h) EXCEPT !.ses = 1 - @]
    ELSE h

SdoHandle(h, e) ==
    IF SdoNext(h.sdo, e) = h.sdo THEN h
    ELSE SdoEnter([SdoExit(h) EXCEPT !.sdo = SdoNext(h.sdo, e)])

(***************************************************************************)
(* mch_sdo_queue_write_with_cb / _read_with_cb for one item, and for a     *)
(* batch of them.  After the first push of a batch the machine is not      *)
(* WAITING any more, so the later pushes only lengthen the queue: pushing  *)
(* the batch and raising the event once is the same as pushing one by one  *)
(* (theorem BatchIsIterated of SledProofs).                                *)
(***************************************************************************)
SdoQueue(h, op, ob, val, cb) ==
    SdoHandle([h EXCEPT !.queue = Append(@, [op |-> op, ob |-> ob, val |-> val,
                                             cb |-> cb, ses |-> h.ses])],
              "EV_SDO_ITEM_AVAILABLE")

SdoQueueAll(h, items) ==
    IF items = <<>> THEN h
    ELSE SdoHandle([h EXCEPT !.queue = @ \o items], "EV_SDO_ITEM_AVAILABLE")

SdoQueueWrite(h, ob, val) == SdoQueue(h, "write", ob, val, "none")

\* Fault: the callbacks of a read are not initialised.
QueueReadBadCallback(h, ob) == SdoQueue(h, "read", ob, 0, "garbage")

SdoQueueRead(h, ob) == SdoQueue(h, "read", ob, 0, "none")

\* Fault: sdo_active is cleared after the event, which may have replaced it.
FinishThenClear(h, e) == [SdoHandle(h, e) EXCEPT !.active = NoSdo]

\* The end of mch_sdo_{read,write,abort}_callback.
SdoFinish(h, e) == SdoHandle([h EXCEPT !.active = NoSdo], e)
=============================================================================
