----------------------------- MODULE RollAccount -----------------------------
(***************************************************************************)
(* What the media accounting of one printer promises: a loaded roll has an *)
(* account, and every mutation (a print, an estimate, an adjustment, a new *)
(* roll) applies to the account as the mutation before it left it.  There  *)
(* are no files, threads or crashes here: each mutation is one step.       *)
(***************************************************************************)
EXTENDS Naturals

CONSTANTS
    Sizes,      \* how many labels a new roll may have
    Amounts,    \* how many labels one mutation may take or add
    MaxLabels,  \* u64::MAX: label counts saturate here
    NoRoll      \* nothing is loaded

VARIABLE account   \* NoRoll or [initial, remaining, consumed, deficit]

Saturate(n) == IF n > MaxLabels THEN MaxLabels ELSE n
Over(n, m)  == IF n > m THEN n - m ELSE 0

Fresh(n) == [initial |-> n, remaining |-> n, consumed |-> 0, deficit |-> 0]

\* What the roll cannot give is remembered as a deficit.
Debited(a, n) == [a EXCEPT !.remaining = Over(a.remaining, n),
                           !.consumed  = Saturate(a.consumed + n),
                           !.deficit   = Saturate(a.deficit + Over(n, a.remaining))]
Credited(a, n) == [a EXCEPT !.remaining = Saturate(a.remaining + n)]

NewRoll == \E n \in Sizes : account' = Fresh(n)
Remove  == account # NoRoll /\ account' = NoRoll
Debit   == account # NoRoll /\ \E n \in Amounts : account' = Debited(account, n)
Credit  == account # NoRoll /\ \E n \in Amounts : account' = Credited(account, n)

AccountSpec == account = NoRoll /\ [][NewRoll \/ Remove \/ Debit \/ Credit]_account
=============================================================================
