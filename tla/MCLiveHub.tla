------------------------------ MODULE MCLiveHub ------------------------------
(***************************************************************************)
(* Instances of LiveHub for TLC.                                           *)
(***************************************************************************)
EXTENDS LiveHub

CONSTANTS p1, p2, v1, v2
===============================================================================
