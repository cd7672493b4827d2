---------------------------- MODULE MCMediaLedger ----------------------------
(* Small instances of MediaLedger and of LabelCount for TLC.                *)
EXTENDS MediaLedger, LabelCount

CONSTANTS j1, j2, j3, red

\* Two jobs whose labels are known, and one whose labels are not.
FewJobs == [j \in {j1, j2, j3} |-> CASE j = j1 -> 2 [] j = j2 -> 3 [] j = j3 -> None]

OneColour == {red}
Small == {3}
Steps == {-4, 2}

BudgetFaults == [op |-> 2, crash |-> 2, boot |-> 1, fault |-> 1]

\* Uploads of up to four pieces: markers, digits and something else.
TwoDigits == {"1", "2"}
FewCharacters == {"^", "P", "Q", ","} \cup TwoDigits
Pieces  == {PQ, <<"1">>, <<"2">>, <<",">>}
ShortTexts == {FlattenSeq(s) : s \in UNION {[1..n -> Pieces] : n \in 0..4}}
Numbers == BoundedSeq(TwoDigits, 2)

FewArtifacts ==
    [mime : {"zpl"}, intact : {TRUE}, size : {1}, quantities : BoundedSeq(0..2, 2), copies : {1},
     fits : {TRUE}]
        \cup [mime : {"raster"}, intact : BOOLEAN, size : {2}, quantities : {<<>>}, copies : 1..2,
              fits : BOOLEAN]
FewRequests == [copies : 0..2, artifacts : BoundedSeq(FewArtifacts, 2)]

\* A job is counted before the ledger hears of it, and the two share nothing but the
\* count.  The ledger takes any count (Labels), so it is followed once, behind the
\* empty upload.
Counted == pc = "counted" /\ job = <<>>

Uncounted == CountInit /\ Init

CountedThenCharged ==
    /\ Uncounted
    /\ [][\/ CountNext /\ UNCHANGED vars
          \/ Counted /\ Next /\ UNCHANGED countVars]_<<countVars, vars>>
=============================================================================
