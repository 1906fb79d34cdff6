---------------------------- MODULE MCSledDrive -----------------------------
(***************************************************************************)
(* The closed loop with a configuration of two writes and profiles of one  *)
(* field.                                                                  *)
(***************************************************************************)
EXTENDS SledDrive

MCConfig == <<"1A00:00", "1803:01">>
MCProfileFields == <<"O_P">>
=============================================================================
