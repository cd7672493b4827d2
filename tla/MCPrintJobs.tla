----------------------------- MODULE MCPrintJobs -----------------------------
(* Small instances of PrintJobs for TLC.                                     *)
EXTENDS PrintJobs

CONSTANTS p1, p2, key, a, b

Ask(api, p, k, body, stale) ==
    [api |-> api, printer |-> p, key |-> k, payload |-> body, stale |-> stale]

\* One key: the same request twice, a different body and another printer under
\* the same key, both API versions, a v1 request without a key, a stale v2 one.
Mixed ==
    {Ask("v1", p1, key, a, FALSE), Ask("v1", p1, NoKey, a, FALSE),
     Ask("v2", p1, key, a, FALSE), Ask("v2", p1, key, b, TRUE),
     Ask("v2", p2, key, a, FALSE)}

\* One v1 request without a key, one v2 request.
Plain == {Ask("v1", p1, NoKey, a, FALSE), Ask("v2", p1, key, a, FALSE)}

Bounds(crash, fault, drop, control, read) ==
    [crash |-> crash, fault |-> fault, drop |-> drop, control |-> control, read |-> read]

BudgetFaults   == Bounds(1, 2, 1, 0, 1)
BudgetControl  == Bounds(1, 1, 0, 3, 0)
BudgetLive     == Bounds(1, 0, 0, 1, 0)
BudgetDrop     == Bounds(0, 0, 1, 0, 0)

JobSymmetry == Permutations(Jobs)
=============================================================================
