--------------------------- MODULE MCSledSinusoid ---------------------------
(***************************************************************************)
(* The four built-in profiles and no other, one amplitude, one period and  *)
(* one position: the properties are about links and order.                 *)
(***************************************************************************)
EXTENDS SledSinusoid

(***************************************************************************)
(* The same with the commands in one order, which is too long to be found  *)
(* among all orders.                                                       *)
(***************************************************************************)
RampNext == \/ calls \in {0, 2, 5} /\ RSinusoidStop
            \/ calls \in {1, 3} /\ SinusoidStart
            \/ calls = 4 /\ RSinusoidStart
            \/ Link

RampSpec == SinusoidInit /\ [][RampNext]_allVars
=============================================================================
