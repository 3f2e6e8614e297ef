------------------------------- MODULE MCPoller -------------------------------
(***************************************************************************)
(* Instances of Poller for TLC.                                            *)
(***************************************************************************)
EXTENDS Poller

CONSTANTS main, dev
===============================================================================
