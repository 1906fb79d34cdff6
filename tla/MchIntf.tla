------------------------------- MODULE MchIntf ------------------------------
(***************************************************************************)
(* The interface machine (libsled/machines/mch_intf.cc) and the opening    *)
(* and closing of the CAN device (libsled/interface.cc).                   *)
(***************************************************************************)
EXTENDS MchNet

IntfStates == {"ST_INTF_CLOSED", "ST_INTF_OPENING", "ST_INTF_OPENED",
               "ST_INTF_CLOSING"}

IntfNext(s, e) ==
    CASE s = "ST_INTF_CLOSED"  /\ e = "EV_INTF_OPEN"   -> "ST_INTF_OPENING"
      [] s = "ST_INTF_OPENING" /\ e = "EV_INTF_OPENED" -> "ST_INTF_OPENED"
      [] s = "ST_INTF_CLOSING" /\ e = "EV_INTF_CLOSED" -> "ST_INTF_CLOSED"
      [] s = "ST_INTF_OPENED"  /\ e = "EV_INTF_CLOSE"  -> "ST_INTF_CLOSING"
      [] OTHER -> s

(***************************************************************************)
(* The EV_INTF_OPENED and EV_INTF_CLOSED events, raised from inside        *)
(* on_enter of OPENING and CLOSING, with the handlers they lead to.        *)
(***************************************************************************)
IntfHandleDone(h, e) ==
    IF IntfNext(h.intf, e) = h.intf THEN h
    ELSE LET g == [h EXCEPT !.intf = IntfNext(h.intf, e)]
         IN  NetHandle(g, IF g.intf = "ST_INTF_OPENED" THEN "EV_NET_INTF_OPENED"
                                                       ELSE "EV_NET_INTF_CLOSED")

(***************************************************************************)
(* EV_INTF_OPEN: OPENING calls intf_open.  A failure raises                *)
(* EV_INTF_CLOSED, which OPENING ignores.                                  *)
(***************************************************************************)
IntfOpen(h, ok) ==
    LET g == [h EXCEPT !.intf = IntfNext(@, "EV_INTF_OPEN")]
    IN  IF ok THEN IntfHandleDone([g EXCEPT !.handle = TRUE, !.reading = TRUE],
                                  "EV_INTF_OPENED")
              ELSE IntfHandleDone(g, "EV_INTF_CLOSED")

(***************************************************************************)
(* EV_INTF_CLOSE, from close_handler.  CLOSING calls intf_close again; the *)
(* handle is already zero, so all that does is raise EV_INTF_CLOSE once    *)
(* more, which CLOSING ignores.                                            *)
(***************************************************************************)
IntfHandleClose(h) ==
    IF IntfNext(h.intf, "EV_INTF_CLOSE") = h.intf THEN h
    ELSE IntfHandleDone([h EXCEPT !.intf = IntfNext(@, "EV_INTF_CLOSE")],
                        "EV_INTF_CLOSED")

(***************************************************************************)
(* intf_close.  The read event goes first; if CAN_Close then fails the     *)
(* function returns before close_handler, and no machine hears of it.      *)
(***************************************************************************)
IntfClose(h, ok) ==
    LET g == [h EXCEPT !.reading = FALSE]
    IN  IF h.handle /\ ~ok THEN g
        ELSE IntfHandleClose([g EXCEPT !.handle = FALSE])
=============================================================================
