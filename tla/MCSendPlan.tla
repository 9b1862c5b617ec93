----------------------------- MODULE MCSendPlan -----------------------------
(* SendPlan with amounts below, at and above what the coins of the instance pay. *)
EXTENDS SendPlan

MCAmounts == {-5, -3, 0, 1, 2, 3, 5, 8, 12}
=============================================================================
