--------------------------- MODULE MCSledProfile ----------------------------
(***************************************************************************)
(* Two profiles, chained or not, each parameter with its default and one   *)
(* other value.                                                            *)
(***************************************************************************)
EXTENDS SledProfile
=============================================================================
