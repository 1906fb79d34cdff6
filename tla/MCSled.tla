------------------------------- MODULE MCSled -------------------------------
(***************************************************************************)
(* A small instance of Sled.  As in mch_net_queue_setup, the object that   *)
(* opens the configuration is written twice.                               *)
(***************************************************************************)
EXTENDS Sled

MCConfig == <<"1A00:00", "1A00:01", "1A00:00", "1803:01">>
MCProfileFields == <<"O_P">>
=============================================================================
