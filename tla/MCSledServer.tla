---------------------------- MODULE MCSledServer ----------------------------
(***************************************************************************)
(* Two clients, two profiles for three numbers, one command padded with    *)
(* blanks to one byte more than data_left can count, and a packet of       *)
(* length 0.                                                               *)
(***************************************************************************)
EXTENDS SledServer

Plain(type) == [type |-> type, boolean |-> FALSE, profile |-> 1, position |-> "in",
                next_profile |-> -1, next_delay |-> 0, size |-> 12, length |-> 12]

MCPackets ==
    {[Plain("cmd_streamframes") EXCEPT !.boolean = TRUE],
     Plain("cmd_profile_execute"), Plain("cmd_profile_set"),
     [Plain("cmd_profile_set") EXCEPT !.profile = 3],
     [Plain("cmd_profile_set") EXCEPT !.position = "out", !.next_profile = 2,
                                      !.next_delay = -1],
     Plain("cmd_bye"), Plain("badstatus"),
     [Plain("cmd_lights") EXCEPT !.size = 260, !.length = 260],
     [Plain("nocommand") EXCEPT !.size = SizeBytes, !.length = 0]}
=============================================================================
