------------------------------ MODULE MCEventLog ------------------------------
(* A small instance of EventLog for TLC.                                     *)
EXTENDS EventLog

CONSTANTS j1, j2, a1

Faults == [stop |-> 1, unreadable |-> 1]
===============================================================================
