------------------------------- MODULE LabelCount -------------------------------
(***************************************************************************)
(* How a job comes by the number of labels it is charged with.  For a v1    *)
(* upload parse_pq reads the stored text piece by piece and takes the number *)
(* behind the first ^PQ it sees; a v2 job is checked page by page and laid    *)
(* out copy by copy by prepare_job, which knows the number from the request.  *)
(*                                                                         *)
(* A text is a sequence of characters, of which only ^PQ and digits matter.  *)
(* An artifact is one format: the quantities its ^PQ commands name, or a      *)
(* raster page.                                                              *)
(***************************************************************************)
EXTENDS Integers, Sequences, SequencesExt

CONSTANTS
    Characters,
    Texts,          \* what v1 uploads may contain
    Requests,       \* v2 jobs
    Digit,          \* the ASCII digits
    Representable,  \* the numbers that u64 can hold
    ChunkSize,      \* what parse_pq reads at a time at most (8192)
    CarrySize,      \* what it keeps of the text read before (32)
    MaxCopies,      \* of a v2 job or a raster page (999)
    MaxArtifacts,   \* (100)
    MaxJobSize      \* of what is sent to the printer

PQ == <<"^", "P", "Q">>

\* quantities are a text's, copies and fits a raster page's.
Artifact == [mime : {"zpl", "raster"}, intact : BOOLEAN, size : Nat, quantities : Seq(Nat),
             copies : Nat, fits : BOOLEAN]

\* A marker that a read cuts in two is found again if it fits into the carry.
ASSUME LabelLimits ==
    /\ {ChunkSize, CarrySize, MaxCopies, MaxArtifacts, MaxJobSize} \subseteq Nat \ {0}
    /\ CarrySize >= Len(PQ)
ASSUME TextAssumption ==
    /\ {"^", "P", "Q"} \cup Digit \subseteq Characters
    /\ Texts \subseteq Seq(Characters)
ASSUME RequestAssumption == Requests \subseteq [copies : Nat, artifacts : Seq(Artifact)]

VARIABLES
    job,        \* the text or the request
    pc,
    at,         \* how much of the text has been read; how many pages are done
    carry,      \* the end of what was read before
    size,       \* of the pages prepared so far
    copy,       \* copies laid out
    found,      \* the digits it returns
    labels,     \* the label count of a v2 job
    printed     \* observer: labels the printer makes of what is laid out

scan == <<carry, found>>
lay  == <<size, copy, labels, printed>>
countVars == <<job, pc, at, scan, lay>>

Unknown == <<>>     \* no count

CountInit ==
    /\ \/ job \in Texts /\ pc = "read"
       \/ job \in Requests /\ pc = "check"
    /\ at = 0 /\ carry = <<>>
    /\ found = Unknown
    /\ size = 0 /\ copy = 0 /\ labels = 0 /\ printed = 0

-----------------------------------------------------------------------------
(* parse_pq                                                                  *)

MarkersIn(text) == {i \in DOMAIN text : i + 2 <= Len(text) /\ SubSeq(text, i, i + 2) = PQ}
IsFirst(i, text) == i \in MarkersIn(text) /\ \A k \in MarkersIn(text) : i <= k
HasNumber(text, i) == i + 3 <= Len(text) /\ text[i + 3] \in Digit

\* digits are those behind the marker at i, or the first of them.
Leads(text, i, digits) ==
    /\ digits # <<>> /\ i + 2 + Len(digits) <= Len(text)
    /\ \A k \in DOMAIN digits : digits[k] = text[i + 2 + k] /\ digits[k] \in Digit

\* What is searched: the carry and the n characters just read.
Window(n) == carry \o SubSeq(job, at + 1, at + n)

\* Mutant: nothing is kept.
KeepNothing(window) == <<>>

\* What is kept of a window without a number.
LastPart(window) ==
    SubSeq(window, IF Len(window) > CarrySize THEN Len(window) - CarrySize + 1 ELSE 1, Len(window))

\* A read fills the chunk or a part of it.
Reads(n) == n \in 1..ChunkSize /\ at + n <= Len(job)

ReadOn ==
    /\ pc = "read"
    /\ \E n \in 1..ChunkSize :
        /\ Reads(n)
        /\ ~\E i \in MarkersIn(Window(n)) : IsFirst(i, Window(n)) /\ HasNumber(Window(n), i)
        /\ carry' = LastPart(Window(n))
        /\ at' = at + n
    /\ UNCHANGED <<job, pc, found, lay>>

\* The digits of this window decide, even if the number goes on behind it; one too
\* large for u64 is no count.
FindNumber ==
    /\ pc = "read"
    /\ \E n \in 1..ChunkSize : Reads(n) /\
        \E i \in MarkersIn(Window(n)) : \E k \in 1..Len(Window(n)) - i - 2 :
            LET digits == SubSeq(Window(n), i + 3, i + 2 + k) IN
            /\ IsFirst(i, Window(n)) /\ Leads(Window(n), i, digits)
            /\ ~HasNumber(Window(n), i + k)
            /\ found' = IF digits \in Representable THEN digits ELSE Unknown
    /\ pc' = "counted"
    /\ UNCHANGED <<job, at, carry, lay>>

EndOfText ==
    /\ pc = "read" /\ at = Len(job)
    /\ pc' = "counted"
    /\ UNCHANGED <<job, at, scan, lay>>

\* The file cannot be opened or read.
ReadFails ==
    /\ pc = "read" /\ pc' = "unread"
    /\ UNCHANGED <<job, at, scan, lay>>

ParsePq == ReadOn \/ FindNumber \/ EndOfText \/ ReadFails

-----------------------------------------------------------------------------
(* The raster driver and prepare_job.                                        *)

\* prepare_zebra_payload: text stays as it is, a raster page becomes one format with
\* its copies in ^PQ if it fits the profile.
Accepts(page) ==
    page.mime = "raster" => page.copies \in 1..MaxCopies /\ page.fits

Payload(page) == IF page.mime = "raster" THEN <<page.copies>> ELSE page.quantities

\* Mutant: only the first ^PQ of a text is looked at.
FirstIsMultiple(quantities) == quantities # <<>> /\ quantities[1] > 1

MultiCopy(quantities) == \E i \in DOMAIN quantities : quantities[i] > 1

Pages == job.artifacts

EnvelopeOk == job.copies \in 1..MaxCopies /\ Len(Pages) \in 1..MaxArtifacts

PageOk(page) ==
    /\ page.intact /\ Accepts(page)
    /\ IF page.mime = "raster" THEN page.copies = 1
       ELSE job.copies > 1 => ~MultiCopy(page.quantities)

SizeOk(n) == n * job.copies <= MaxJobSize

Refuse ==
    /\ pc = "check"
    /\ EnvelopeOk =>
          at < Len(Pages) /\ ~(PageOk(Pages[at + 1]) /\ SizeOk(size + Pages[at + 1].size))
    /\ pc' = "refused"
    /\ UNCHANGED <<job, at, scan, lay>>

CheckPage ==
    /\ pc = "check" /\ EnvelopeOk /\ at < Len(Pages)
    /\ PageOk(Pages[at + 1]) /\ SizeOk(size + Pages[at + 1].size)
    /\ size' = size + Pages[at + 1].size
    /\ at' = at + 1
    /\ UNCHANGED <<job, pc, scan, copy, labels, printed>>

BeginLayout ==
    /\ pc = "check" /\ EnvelopeOk /\ at = Len(Pages)
    /\ pc' = "lay" /\ at' = 0
    /\ UNCHANGED <<job, scan, lay>>

\* The printer prints a format as often as the last ^PQ in it says.
Quantity(quantities) ==
    IF quantities = <<>> THEN 1
    ELSE IF Last(quantities) = 0 THEN 1 ELSE Last(quantities)

\* What is sent: the pages in order, as often as there are copies.
LayPage ==
    /\ pc = "lay" /\ copy < job.copies
    /\ printed' = printed + Quantity(Payload(Pages[at + 1]))
    /\ IF at + 1 < Len(Pages) THEN at' = at + 1 /\ UNCHANGED copy
                              ELSE at' = 0 /\ copy' = copy + 1
    /\ UNCHANGED <<job, pc, scan, size, labels>>

Prepared ==
    /\ pc = "lay" /\ copy = job.copies
    /\ labels' = Len(Pages) * job.copies
    /\ pc' = "prepared"
    /\ UNCHANGED <<job, at, scan, size, copy, printed>>

PrepareJob == Refuse \/ CheckPage \/ BeginLayout \/ LayPage \/ Prepared

CountNext == ParsePq \/ PrepareJob

CountSpec == CountInit /\ [][CountNext]_countVars

-----------------------------------------------------------------------------
(* Properties *)

\* Type invariant; the carry never outgrows its bound, and is no longer than the text
\* before it.
CountTypeOK ==
    /\ pc \in {"read", "counted", "unread", "check", "lay", "prepared", "refused"}
    /\ IF pc \in {"read", "counted", "unread"}
       THEN job \in Texts /\ at \in 0..Len(job) /\ Len(carry) <= at
       ELSE job \in Requests /\ at \in 0..Len(Pages)
    /\ carry \in Seq(Characters) /\ Len(carry) <= CarrySize
    /\ found \in Representable \cup {Unknown}
    /\ size \in Nat /\ copy \in Nat /\ labels \in Nat /\ printed \in Nat

Numbered(text) == \A i \in MarkersIn(text) : HasNumber(text, i)

\* However the reads cut a text, a count that parse_pq finds consists of digits behind
\* a ^PQ of the text, if need be cut short, and of no others; and if every ^PQ has a
\* number, it is the first ^PQ, which is never missed, wherever the chunks end, unless
\* its digits do not fit u64.  (Behind a ^PQ without a number, a count may be missed, or
\* come from a later one.)
PqCutShort ==
    pc = "counted" =>
        /\ found # Unknown => \E i \in MarkersIn(job) :
              Leads(job, i, found) /\ (Numbered(job) => IsFirst(i, job))
        /\ found = Unknown /\ Numbered(job) => \A i \in MarkersIn(job) :
              IsFirst(i, job) => \E k \in 1..Len(job) - i - 2 :
                  LET digits == SubSeq(job, i + 3, i + 2 + k)
                  IN Leads(job, i, digits) /\ digits \notin Representable

\* A v2 job that is accepted is charged with what it prints, page by page and copy by
\* copy, unless a single copy has a ^PQ of its own; then it is charged with less.
LabelsCounted ==
    pc = "prepared" =>
        LET own == \E i \in DOMAIN Pages : MultiCopy(Payload(Pages[i]))
        IN /\ labels <= printed
           /\ job.copies > 1 \/ ~own => labels = printed
=================================================================================
