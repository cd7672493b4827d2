------------------------------ MODULE MCRegistry ------------------------------
(* Small instances of Registry for TLC.                                      *)
EXTENDS Registry

CONSTANTS j1, j2, p1, p2, on, moved, off, a, b

ToOne     == [j \in Jobs |-> p1]
OnePrinter == [p \in Printers |-> IF p = p1 THEN on ELSE None]
NoPrinter  == [p \in Printers |-> None]
WithOne    == {OnePrinter}
WithOrNone == {OnePrinter, NoPrinter}

AdminSymmetry == Permutations(Admins)

Bounds(save, pause, crash, fault) ==
    [save |-> save, pause |-> pause, crash |-> crash, fault |-> fault]
Swaps == Bounds(2, 1, 1, 1)
OneSwap == Bounds(1, 0, 0, 0)
===============================================================================
