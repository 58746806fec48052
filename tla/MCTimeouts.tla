------------------------------ MODULE MCTimeouts ------------------------------
(* The table of cyclic timers for checking Timeouts. *)
EXTENDS Timeouts

CONSTANTS reass, nd6

TwoTimers == <<reass, nd6>>
===============================================================================
