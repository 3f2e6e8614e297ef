------------------------------ MODULE MCLogStream ------------------------------
(***************************************************************************)
(* Instances of LogStream for TLC.  One reader is enough: readers share    *)
(* nothing but the bus, on which they only subscribe and unsubscribe.      *)
(***************************************************************************)
EXTENDS LogStream

CONSTANT r1
===============================================================================
