------------------------------- MODULE MCOutbox -------------------------------
(* Outbox for TLC: one build and the changes of one agent.                 *)
EXTENDS Outbox

CONSTANT build
===============================================================================
