----------------------------- MODULE MediaLedger -----------------------------
(***************************************************************************)
(* The media accounting of one printer: media.json, the state of the       *)
(* loaded roll; media-ledger.ndjson, one line per change; and everybody    *)
(* who changes them: jobs that were printed, maintenance labels, estimated *)
(* losses, the operator's loads, edits and adjustments, all run by the     *)
(* printer's worker, and the boot accounting that main runs before there   *)
(* is a worker.                                                            *)
(*                                                                         *)
(* Each mutation reads media.json, appends to the ledger and saves         *)
(* media.json in separate steps, so that crashes and disk errors can fall  *)
(* between them.  What a second worker of the same printer does to them,   *)
(* after a reconfiguration, is the subject of Registry.                    *)
(***************************************************************************)
EXTENDS Integers, Sequences, FiniteSets, SequencesExt

CONSTANTS
    Worker,      \* the printer's worker thread
    Main,        \* the main thread, which does the boot accounting
    Jobs,        \* jobs for the printer
    Labels,      \* job -> its label_count, or None when nothing in the upload told it
    Definitions, \* what a media definition may say (name, color, size)
    Sizes,       \* labels_available_at_load of a new roll
    Deltas,      \* amounts an operator may adjust by
    Estimate,    \* labels of a maintenance print or a reconnect loss
    BootLoss,    \* host_boot_loss_labels
    HalfRange,   \* 2^63: i64 is -HalfRange .. HalfRange - 1, u64 is 0 .. 2*HalfRange - 1
    InboxCap,    \* capacity of a worker's channel
    None,        \* no file, no job, no count
    Budget       \* bounds: operations, crashes, host boots, disk faults

MaxLabels == 2 * HalfRange - 1
Workers   == {Worker}
Threads   == Workers \cup {Main}

ASSUME ThreadsAssumption == Main \notin Workers
ASSUME JobsAssumption == IsFiniteSet(Jobs) /\ None \notin Jobs
ASSUME AmountsAssumption ==
    /\ HalfRange \in Nat \ {0}
    /\ Labels \in [Jobs -> (0..MaxLabels) \cup {None}]
    /\ Sizes \subseteq 0..(HalfRange - 1)
    /\ Deltas \subseteq -HalfRange..(HalfRange - 1)
    /\ Estimate \in 0..MaxLabels /\ BootLoss \in 0..MaxLabels
    /\ InboxCap \in Nat
ASSUME BudgetAssumption ==
    Budget \in [op : Nat, crash : Nat, boot : Nat, fault : Nat]

VARIABLES
    \* -- the data directory --------------------------------------------------
    media,      \* media.json: None or a state
    ledger,     \* media-ledger.ndjson
    rolls,      \* the clock behind loaded_at: rolls loaded so far
    jobs,       \* job -> the state of its record, as far as accounting goes
    bootFile,   \* boot_id: None or the host boot it names
    \* -- host and process ------------------------------------------------------
    host,       \* the boot the host is in
    phase,      \* "down", "booting" (main) or "up" (the worker runs)
    inbox,      \* worker -> commands in its channel
    tpc, work,  \* thread -> where it stands, the mutation it is making
    \* -- observers: what was really done ---------------------------------------
    debits, credits,  \* labels taken from and added to the loaded roll
    charged,          \* jobs whose consumption is in media.json
    excused,          \* jobs with nothing to charge: no roll was loaded, or no count known
    bootDue,          \* must the boot the host is in be charged?
    bootCharges,      \* how often it was
    served,           \* has the agent served in this boot?
    budget

fileVars   == <<media, ledger, rolls>>
bootVars   == <<bootFile, host, bootDue, served>>
threadVars == <<tpc, work>>
sumVars    == <<debits, credits, charged, bootCharges>>
vars == <<fileVars, jobs, bootVars, phase, inbox, threadVars, sumVars, excused, budget>>

-----------------------------------------------------------------------------
(* The state of a roll *)

\* Mutant: the check against zero is dropped.
Difference(n, m) == n - m

Over(n, m)  == IF n > m THEN n - m ELSE 0

Saturate(n) == IF n > MaxLabels THEN MaxLabels ELSE n

\* -(count as i64): the ledger's delta is the negated count in 64 bits.
Negated(n) == IF n <= HalfRange - 1 THEN -n
              ELSE IF n = HalfRange THEN -HalfRange ELSE 2 * HalfRange - n

State(roll, n, def) ==
    [roll |-> roll, def |-> def, initial |-> n, remaining |-> n, consumed |-> 0,
     deficit |-> 0, exact |-> TRUE, seq |-> 0]

\* Mutant: what the roll could not give is forgotten.
DebitedInPart(m, n) ==
    [m EXCEPT !.remaining = Over(m.remaining, n),
              !.consumed  = Saturate(m.consumed + n),
              !.seq       = @ + 1]

Debited(m, n) ==
    [m EXCEPT !.remaining = Over(m.remaining, n),
              !.consumed  = Saturate(m.consumed + n),
              !.deficit   = Saturate(m.deficit + Over(n, m.remaining)),
              !.seq       = @ + 1]

Estimated(m, n) == [Debited(m, n) EXCEPT !.exact = FALSE]

Credited(m, n) == [m EXCEPT !.remaining = Saturate(m.remaining + n), !.seq = @ + 1]

(* A mutation under way: the new state, the ledger line, and what it amounts
   to.  why is the reason, or the job.                                       *)
Mutation(m, draft, delta, debit, credit, why) ==
    [draft |-> draft, debit |-> debit, credit |-> credit, why |-> why,
     line |-> [roll |-> m.roll, seq |-> draft.seq, delta |-> delta, before |-> m.remaining,
               after |-> draft.remaining, deficit |-> draft.deficit, why |-> why]]

Rewrite(draft) ==   \* a change of media.json without a ledger line
    [draft |-> draft, debit |-> 0, credit |-> 0, why |-> "edit",
     line |-> [roll |-> 0, seq |-> 0, delta |-> 0, before |-> 0, after |-> 0,
               deficit |-> 0, why |-> "edit"]]

Idle == Rewrite(State(0, 0, None))

(* An append writes the value, then the newline.  What stops in between (a
   whole value too) is an open last line; whatever is appended next ends up in
   that same line, which nobody can read any more.  Neither has a number.     *)
Unreadable(why) == [Idle.line EXCEPT !.why = why]
Torn    == Unreadable("torn")
Damaged == Unreadable("damaged")

Write(line) ==
    ledger' = IF ledger # <<>> /\ Last(ledger) = Torn
              THEN [ledger EXCEPT ![Len(ledger)] = IF line = Torn THEN Torn ELSE Damaged]
              ELSE Append(ledger, line)

Outcomes == {"ok", "lost", "late"}    \* as for every file: see PrintJobs
Landed(o) == o # "lost"
Faults(o) == IF o = "ok" THEN 0 ELSE 1
Spend(kind, n) == budget[kind] >= n /\ budget' = [budget EXCEPT ![kind] = @ - n]
Spent(kind) == Budget[kind] - budget[kind]

Ops == [op : {"load"}, n : Sizes, def : Definitions] \cup [op : {"adjust"}, n : Deltas]
       \cup [op : {"unload", "maintain", "probe"}]

Init ==
    /\ media = None /\ ledger = <<>> /\ rolls = 0
    /\ jobs = [j \in Jobs |-> "new"]
    /\ bootFile = None /\ host = 0
    /\ phase = "down"
    /\ inbox = [w \in Workers |-> <<>>]
    /\ tpc = [t \in Threads |-> "idle"]
    /\ work = [t \in Threads |-> Idle]
    /\ debits = 0 /\ credits = 0 /\ charged = {} /\ excused = {}
    /\ bootDue = FALSE /\ bootCharges = 0 /\ served = FALSE
    /\ budget = Budget

-----------------------------------------------------------------------------
(* Requests.  A handler posts its command to the worker's channel at once.  *)

Post(command) ==
    /\ phase = "up" /\ Len(inbox[Worker]) < InboxCap
    /\ inbox' = [inbox EXCEPT ![Worker] = Append(@, command)]
    /\ UNCHANGED <<fileVars, bootVars, phase, threadVars, sumVars, excused>>

Request == /\ Spend("op", 1)
           /\ \E c \in Ops : Post(c)
           /\ UNCHANGED jobs

\* The editor's form carries the revision of the media it was opened with.
RequestEdit == /\ media # None
               /\ Spend("op", 1)
               /\ \E d \in Definitions : Post([op |-> "edit", seen |-> media, def |-> d])
               /\ UNCHANGED jobs

Submit(j) == /\ jobs[j] = "new"
             /\ jobs' = [jobs EXCEPT ![j] = "queued"]
             /\ Post([op |-> "print", job |-> j])
             /\ UNCHANGED budget

-----------------------------------------------------------------------------
(* The steps every mutation is made of.                                      *)

At(t, pc)  == tpc' = [tpc EXCEPT ![t] = pc]
Make(t, m) == work' = [work EXCEPT ![t] = m]
Done(t)    == At(t, "idle") /\ Make(t, Idle)

Quiet == UNCHANGED <<bootVars, phase, sumVars>>

Take(w, op) == /\ phase = "up" /\ tpc[w] = "idle" /\ inbox[w] # <<>>
               /\ Head(inbox[w]).op = op
               /\ inbox' = [inbox EXCEPT ![w] = Tail(@)]
               /\ Quiet
Nothing(w) == Done(w) /\ UNCHANGED <<fileVars, jobs, excused, budget>>

\* load: archive the old state, start a new account, leave the ledger alone.
\* Mutant: a new roll keeps the sequence of the old one.
LoadInSequence(w) ==
    /\ Take(w, "load")
    /\ LET c == Head(inbox[w]) IN
       /\ rolls' = rolls + 1
       /\ Make(w, Rewrite([State(rolls + 1, c.n, c.def)
                           EXCEPT !.seq = IF media = None THEN 0 ELSE media.seq]))
       /\ At(w, "save")
    /\ UNCHANGED <<media, ledger, jobs, excused, budget>>

Load(w) ==
    /\ Take(w, "load")
    /\ LET c == Head(inbox[w]) IN
       \/ /\ rolls' = rolls + 1
          /\ Make(w, Rewrite(State(rolls + 1, c.n, c.def)))
          /\ At(w, "save")
          /\ UNCHANGED budget
       \/ media # None /\ Spend("fault", 1) /\ Done(w) /\ UNCHANGED rolls
    /\ UNCHANGED <<media, ledger, jobs, excused>>

\* Mutant: the revision covers what the form shows, and the form is saved.
EditForm(w) ==
    /\ Take(w, "edit")
    /\ LET c == Head(inbox[w]) IN
       IF media # None /\ c.seen.roll = media.roll /\ c.seen.def = media.def
       THEN /\ Make(w, Rewrite([c.seen EXCEPT !.def = c.def]))
            /\ At(w, "save")
            /\ UNCHANGED <<fileVars, jobs, excused, budget>>
       ELSE Nothing(w)

(* edit: refused when another roll was loaded or another definition saved
   since the form was opened; consumption does not make a form stale.        *)
Edit(w) ==
    /\ Take(w, "edit")
    /\ LET c == Head(inbox[w]) IN
       IF media # None /\ c.seen.roll = media.roll /\ c.seen.def = media.def
       THEN /\ Make(w, Rewrite([media EXCEPT !.def = c.def]))
            /\ At(w, "save")
            /\ UNCHANGED <<fileVars, jobs, excused, budget>>
       ELSE Nothing(w)

\* unload: archive, then remove the file.
Unload(w) ==
    /\ Take(w, "unload")
    /\ IF media = None THEN Done(w) /\ UNCHANGED budget
       ELSE \/ At(w, "remove") /\ UNCHANGED <<work, budget>>
            \/ Spend("fault", 1) /\ Done(w)
    /\ UNCHANGED <<fileVars, jobs, excused>>

RemoveFile(w) ==
    /\ phase = "up" /\ tpc[w] = "remove"
    /\ Done(w)
    /\ \/ media' = None /\ UNCHANGED budget
       \/ UNCHANGED media /\ Spend("fault", 1)
    /\ UNCHANGED <<ledger, rolls, jobs, inbox, excused>> /\ Quiet

\* adjust: a negative delta is a debit, any other a credit.
Adjust(w) ==
    /\ Take(w, "adjust")
    /\ IF media = None THEN Nothing(w)
       ELSE /\ LET n == Head(inbox[w]).n
                   draft == IF n < 0 THEN Debited(media, -n) ELSE Credited(media, n)
               IN Make(w, IF n < 0 THEN Mutation(media, draft, n, -n, 0, "adjust")
                                   ELSE Mutation(media, draft, n, 0, n, "adjust"))
            /\ At(w, "append")
            /\ UNCHANGED <<fileVars, jobs, excused, budget>>

Charge(t, draft, n, why) ==
    /\ Make(t, Mutation(media, draft, Negated(n), n, 0, why))
    /\ At(t, "append")

\* A maintenance label was written to the printer, or could not be.
Maintain(w) ==
    /\ Take(w, "maintain")
    /\ \/ media # None /\ Charge(w, Estimated(media, Estimate), Estimate, "maintenance")
       \/ Done(w)
    /\ UNCHANGED <<fileVars, jobs, excused, budget>>

\* A probe reached the printer, after an absence long enough or not.
Probe(w) ==
    /\ Take(w, "probe")
    /\ \/ media # None /\ Estimate > 0
          /\ Charge(w, Estimated(media, Estimate), Estimate, "reconnect")
       \/ Done(w)
    /\ UNCHANGED <<fileVars, jobs, excused, budget>>

-----------------------------------------------------------------------------
(* A job: delivered, recorded as accepted, then charged.                     *)

Deliver(w) ==
    /\ Take(w, "print")
    /\ LET j == Head(inbox[w]).job IN
       /\ jobs' = [jobs EXCEPT ![j] = "writing"]
       /\ Make(w, [Idle EXCEPT !.why = j])
    /\ At(w, "deliver")
    /\ UNCHANGED <<fileVars, excused, budget>>

(* The save of the accepted record may fail; the job is charged all the same.*)
Accept(w) ==
    /\ phase = "up" /\ tpc[w] = "deliver"
    /\ \E o \in Outcomes :
        /\ Spend("fault", Faults(o))
        /\ jobs' = IF Landed(o) THEN [jobs EXCEPT ![work[w].why] = "accepted"] ELSE jobs
    /\ At(w, "charge")
    /\ UNCHANGED <<fileVars, inbox, work, excused>> /\ Quiet

NotAccepted(w) ==
    /\ phase = "up" /\ tpc[w] = "deliver"
    /\ jobs' = [jobs EXCEPT ![work[w].why] = "failed"]
    /\ Done(w)
    /\ UNCHANGED <<fileVars, inbox, excused, budget>> /\ Quiet

\* Mutant: a job is charged only when the roll can give all of it.
ConsumeIfEnough(w) ==
    /\ phase = "up" /\ tpc[w] = "charge"
    /\ LET j == work[w].why IN
       IF media = None \/ Labels[j] = None
       THEN Done(w) /\ excused' = excused \cup {j}
       ELSE /\ IF media.remaining >= Labels[j]
               THEN Charge(w, Debited(media, Labels[j]), Labels[j], j)
               ELSE Done(w)
            /\ UNCHANGED excused
    /\ UNCHANGED <<fileVars, jobs, inbox, budget>> /\ Quiet

Consume(w) ==
    /\ phase = "up" /\ tpc[w] = "charge"
    /\ LET j == work[w].why IN
       \/ /\ media # None /\ Labels[j] # None
          /\ Charge(w, Debited(media, Labels[j]), Labels[j], j)
          /\ UNCHANGED <<excused, budget>>
       \/ /\ media = None \/ Labels[j] = None
          /\ Done(w) /\ excused' = excused \cup {j} /\ UNCHANGED budget
       \/ Spend("fault", 1) /\ Done(w) /\ UNCHANGED excused    \* media.json unreadable
    /\ UNCHANGED <<fileVars, jobs, inbox>> /\ Quiet

-----------------------------------------------------------------------------
(* The two writes.  The operator's adjustment and the boot accounting stop at
   an error, everything else goes on to save what the ledger does not know.  *)

Strict(t) == t = Main \/ work[t].why = "adjust"

\* main exits at an error; the service manager starts the agent again.
GiveUp(t) == Done(t) /\ phase' = IF t = Main THEN "down" ELSE phase

AppendLine(t) ==
    /\ tpc[t] = "append"
    /\ \E o \in Outcomes \cup {"torn"} :   \* "late": written and not synced
        /\ Spend("fault", Faults(o))
        /\ CASE o = "lost" -> UNCHANGED ledger
             [] o = "torn" -> Write(Torn)
             [] OTHER      -> Write(work[t].line)
        /\ IF o # "ok" /\ Strict(t) THEN GiveUp(t)
           ELSE At(t, "save") /\ UNCHANGED <<work, phase>>
    /\ UNCHANGED <<media, rolls, jobs, bootVars, inbox, sumVars, excused>>

Account(m) ==   \* the observers of a state that reached media.json
    LET new == m.why = "edit" /\ (media = None \/ media.roll # m.draft.roll) IN
    /\ debits'  = IF new THEN 0 ELSE debits + m.debit
    /\ credits' = IF new THEN 0 ELSE credits + m.credit
    /\ charged' = IF m.why \in Jobs THEN charged \cup {m.why} ELSE charged
    /\ bootCharges' = IF m.why = "boot" THEN bootCharges + 1 ELSE bootCharges

SaveMedia(t) ==
    /\ tpc[t] = "save"
    /\ \E o \in Outcomes :
        /\ Spend("fault", Faults(o))
        /\ IF Landed(o) THEN media' = work[t].draft /\ Account(work[t])
                        ELSE UNCHANGED <<media, sumVars>>
        /\ IF t # Main THEN Done(t) /\ UNCHANGED phase
           ELSE IF o = "ok" THEN At(t, "mark") /\ Make(t, Idle) /\ UNCHANGED phase
           ELSE GiveUp(t)
    /\ UNCHANGED <<ledger, rolls, jobs, bootVars, inbox, excused>>

-----------------------------------------------------------------------------
(* Start: main compares the host's boot with the one on file, charges the
   loaded roll when it is another one, and only then writes the new one.     *)

\* Mutant: the new boot id is written first.
StartMarkingFirst ==
    /\ phase = "down"
    /\ phase' = "booting"
    /\ bootFile' = host
    /\ IF bootFile \in {None, host} \/ media = None
       THEN At(Main, "mark") /\ UNCHANGED work
       ELSE Charge(Main, Estimated(media, BootLoss), BootLoss, "boot")
    /\ UNCHANGED <<fileVars, jobs, host, bootDue, served, inbox, sumVars, excused, budget>>

\* Mutant: any boot id on file is taken for another boot's.
StartCharging ==
    /\ phase = "down"
    /\ phase' = "booting"
    /\ IF bootFile = None \/ media = None THEN At(Main, "mark") /\ UNCHANGED work
       ELSE Charge(Main, Estimated(media, BootLoss), BootLoss, "boot")
    /\ UNCHANGED <<fileVars, jobs, bootVars, inbox, sumVars, excused, budget>>

Start ==
    /\ phase = "down"
    /\ phase' = "booting"
    /\ \E unreadable \in BOOLEAN :
        /\ Spend("fault", IF unreadable THEN 1 ELSE 0)
        /\ IF bootFile = host /\ ~unreadable THEN At(Main, "ready") /\ UNCHANGED work
           ELSE IF bootFile = None \/ unreadable \/ media = None \/ BootLoss = 0
           THEN At(Main, "mark") /\ UNCHANGED work
           ELSE Charge(Main, Estimated(media, BootLoss), BootLoss, "boot")
    /\ UNCHANGED <<fileVars, jobs, bootVars, inbox, sumVars, excused>>

MarkBoot ==
    /\ tpc[Main] = "mark"
    /\ \E o \in Outcomes :
        /\ Spend("fault", Faults(o))
        /\ bootFile' = IF Landed(o) THEN host ELSE bootFile
        /\ IF o = "ok" THEN At(Main, "ready") /\ UNCHANGED <<work, phase>> ELSE GiveUp(Main)
    /\ UNCHANGED <<fileVars, jobs, host, bootDue, served, inbox, sumVars, excused>>

\* Mutant: what was being printed is printed again.
ToPrintAgain == {j \in Jobs : jobs[j] \in {"queued", "writing"}}

ToPrint == {j \in Jobs : jobs[j] = "queued"}

(* recover_jobs and the start of the worker: queued jobs go on.              *)
Serve ==
    /\ tpc[Main] = "ready"
    /\ At(Main, "idle")
    /\ phase' = "up" /\ served' = TRUE
    /\ jobs' = [j \in Jobs |-> IF jobs[j] = "writing" /\ j \notin ToPrint
                               THEN "unknown" ELSE jobs[j]]
    /\ \E s \in SetToSeqs(ToPrint) :
        inbox' = [inbox EXCEPT ![Worker] = [i \in DOMAIN s |-> [op |-> "print", job |-> s[i]]]]
    /\ UNCHANGED <<fileVars, bootFile, host, bootDue, work, sumVars, excused, budget>>

(* The process stops anywhere, inside an append too; the host may have gone
   down with it.                                                             *)
Crash ==
    /\ phase # "down" /\ Spend("crash", 1)
    /\ \/ UNCHANGED ledger
       \/ (\E t \in Threads : tpc[t] = "append") /\ Write(Torn)
    /\ phase' = "down"
    /\ inbox' = [w \in Workers |-> <<>>]
    /\ tpc' = [t \in Threads |-> "idle"]
    /\ work' = [t \in Threads |-> Idle]
    /\ UNCHANGED <<media, rolls, jobs, bootVars, sumVars, excused>>

HostBoot ==
    /\ phase = "down" /\ Spend("boot", 1)
    /\ host' = host + 1
    /\ bootDue' = (bootFile # None /\ media # None)
    /\ bootCharges' = 0 /\ served' = FALSE
    /\ UNCHANGED <<fileVars, jobs, bootFile, phase, inbox, threadVars,
                   debits, credits, charged, excused>>

WorkerStep(w) == \/ Load(w) \/ Edit(w) \/ Unload(w) \/ RemoveFile(w) \/ Adjust(w)
                 \/ Maintain(w) \/ Probe(w) \/ Deliver(w) \/ Accept(w) \/ NotAccepted(w)
                 \/ Consume(w) \/ AppendLine(w) \/ SaveMedia(w)

MainStep == Start \/ AppendLine(Main) \/ SaveMedia(Main) \/ MarkBoot \/ Serve

Next == \/ Request \/ RequestEdit
        \/ \E j \in Jobs : Submit(j)
        \/ \E w \in Workers : WorkerStep(w)
        \/ MainStep
        \/ Crash \/ HostBoot

Spec == Init /\ [][Next]_vars

-----------------------------------------------------------------------------
(* Properties *)

States == [roll : Nat, def : Definitions \cup {None}, initial : 0..MaxLabels,
           remaining : 0..MaxLabels, consumed : 0..MaxLabels, deficit : 0..MaxLabels,
           exact : BOOLEAN, seq : Nat]
ASSUME NoneAssumption ==   \* None is no state, nor the part of one that is the account
    /\ None \notin States \cup [initial : Nat, remaining : Nat, consumed : Nat, deficit : Nat]
    /\ None \notin Nat
Words == {"adjust", "maintenance", "reconnect", "boot", "edit", "torn", "damaged"}
ASSUME WordsAssumption == Jobs \cap Words = {}   \* a job's id is a UUID
Reasons == Jobs \cup Words
Lines == [roll : Nat, seq : Nat, delta : -HalfRange..(HalfRange - 1), before : 0..MaxLabels,
          after : 0..MaxLabels, deficit : 0..MaxLabels, why : Reasons]
Works == [draft : States, debit : 0..MaxLabels, credit : 0..MaxLabels, why : Reasons,
          line : Lines]
Commands == Ops \cup [op : {"edit"}, seen : States, def : Definitions]
                \cup [op : {"print"}, job : Jobs]

\* Type invariant; a thread that delivers or charges has a job in hand.
TypeOK ==
    /\ media \in States \cup {None}
    /\ ledger \in Seq(Lines)
    /\ rolls \in Nat /\ host \in Nat /\ bootFile \in Nat \cup {None}
    /\ jobs \in [Jobs -> {"new", "queued", "writing", "accepted", "failed", "unknown"}]
    /\ phase \in {"down", "booting", "up"}
    /\ inbox \in [Workers -> Seq(Commands)]
    /\ tpc \in [Threads -> {"idle", "remove", "deliver", "charge", "append", "save",
                            "mark", "ready"}]
    /\ work \in [Threads -> Works]
    /\ \A t \in Threads : tpc[t] \in {"deliver", "charge"} => work[t].why \in Jobs
    /\ debits \in Nat /\ credits \in Nat /\ bootCharges \in Nat
    /\ charged \subseteq Jobs /\ excused \subseteq Jobs
    /\ bootDue \in BOOLEAN /\ served \in BOOLEAN
    /\ budget \in [{"op", "crash", "boot", "fault"} -> Nat]

\* No mutation is lost ("serialized with printing to prevent lost consumption",
\* README.md:106): the state of the roll is the sum of all that was taken from
\* it and added to it, edits, boots, crashes and disk errors included.  A sum
\* that does not fit 64 bits stays at the largest value that does.
Fits == debits <= MaxLabels /\ media.initial + credits <= MaxLabels
NothingLost == media # None =>
    /\ media.consumed = IF debits <= MaxLabels THEN debits ELSE MaxLabels
    /\ Fits => media.remaining + media.consumed = media.initial + credits + media.deficit

Writable == budget.fault = Budget.fault   \* no disk fault so far

\* No line was appended to an open one; that one is the last, if there is any.
Intact == \A i \in DOMAIN ledger : ledger[i] # Damaged

\* The ledger explains the state, while files can be written, the sums fit, no
\* count is beyond an i64 (such a count, negated in 64 bits, is no delta) and no
\* line was lost to an open one that a crash had left: the last line of each
\* sequence number of the roll starts where the one before it ended, the first
\* at the new roll, and the last one is the state; its delta is what happened,
\* but for a deficit; and a state that contains an estimate does not pass for an
\* exact one.
Counts == {Labels[j] : j \in Jobs} \ {None}
Countable == Counts \cup {Estimate, BootLoss} \subseteq 0..HalfRange
LinesOf(n) == {i \in DOMAIN ledger : ledger[i].roll = media.roll /\ ledger[i].seq = n}
Line(n) == ledger[CHOOSE i \in LinesOf(n) : \A k \in LinesOf(n) : k <= i]
LedgerExplains ==
    media # None /\ Writable /\ Fits /\ Countable /\ Intact => \A n \in 1..media.seq :
        /\ LinesOf(n) # {}
        /\ Line(n).before = IF n = 1 THEN media.initial ELSE Line(n - 1).after
        /\ Line(n).after = Line(n).before + Line(n).delta
                           + (Line(n).deficit - IF n = 1 THEN 0 ELSE Line(n - 1).deficit)
        /\ n = media.seq => Line(n).after = media.remaining /\ Line(n).deficit = media.deficit
        /\ Line(n).why \in {"maintenance", "reconnect", "boot"} => ~media.exact

\* A job is charged at most once, whatever crashes and restarts happen.
ChargedOnce == \A j \in Jobs : Cardinality({i \in DOMAIN ledger : ledger[i].why = j}) <= 1

\* Consumption is lost only to a crash or a disk error, one job at a time: any
\* other accepted job is charged, unless no roll was loaded or its labels are
\* unknown (a v1 upload without ^PQ and without a count in its headers).
InHand(j) == \E t \in Threads : tpc[t] \in {"charge", "append", "save"} /\ work[t].why = j
Lost == {j \in Jobs : jobs[j] = "accepted" /\ j \notin charged \cup excused /\ ~InHand(j)}
LossBounded ==
    Cardinality(Lost) <= Spent("crash") + Spent("fault")

\* When the agent serves, the boot the host is in is on file, and the roll that
\* was loaded when the host went down was charged for it (unless a disk error
\* hid the boot on file).
BootCharged == phase = "up" =>
    /\ bootFile = host
    /\ bootDue /\ BootLoss > 0 /\ Writable => bootCharges > 0

\* Once the agent has served in a boot, no restart charges that boot again.
BootSettled == [][served /\ served' => bootCharges' = bootCharges]_vars

\* The files show an account to which every mutation applies atomically.
Amounts == Counts \cup {Estimate, BootLoss}
           \cup {IF n < 0 THEN -n ELSE n : n \in Deltas}
Roll == INSTANCE RollAccount WITH
    account <- IF media = None THEN None
               ELSE [initial |-> media.initial, remaining |-> media.remaining,
                     consumed |-> media.consumed, deficit |-> media.deficit],
    NoRoll <- None

Atomic == Roll!AccountSpec

\* -- Why no mutation is lost: the inductive invariant ----------------------

\* main works before there is a worker, the worker only when main is done.
Serial == /\ tpc[Main] # "idle" => phase = "booting"
          /\ \A w \in Workers : tpc[w] # "idle" => phase = "up"

SameAccount(x, y) ==
    x.remaining = y.remaining /\ x.consumed = y.consumed /\ x.deficit = y.deficit

\* The mutation m was made from the state now: of another roll, of the
\* definition only, or of the account by one debit or credit.
Follows(m, now, clock) ==
    /\ m.draft.roll <= clock
    /\ \/ /\ m.why = "edit"
          /\ now # None => m.draft.roll > now.roll
          /\ m.draft.initial \in Sizes
          /\ m.draft.remaining = m.draft.initial /\ m.draft.consumed = 0 /\ m.draft.deficit = 0
       \/ /\ now # None /\ m.draft.roll = now.roll /\ m.draft.initial = now.initial
          /\ \/ m.debit = 0 /\ m.credit = 0 /\ SameAccount(m.draft, now)
             \/ m.credit = 0 /\ m.debit \in Amounts /\ SameAccount(m.draft, Debited(now, m.debit))
             \/ m.debit = 0 /\ m.credit \in Amounts /\ SameAccount(m.draft, Credited(now, m.credit))

\* Whatever a thread is about to save was made from what it will replace.
UpToDate == \A t \in Threads :
    tpc[t] \in {"append", "save"} => Follows(work[t], media, rolls)

\* The sums, with the bounds that keep them exact while they fit 64 bits.
Sums(now, taken, added) == now # None =>
    /\ now.consumed = IF taken <= MaxLabels THEN taken ELSE MaxLabels
    /\ now.deficit <= taken /\ now.remaining <= now.initial + added
    /\ taken <= MaxLabels /\ now.initial + added <= MaxLabels =>
        now.remaining + now.consumed = now.initial + added + now.deficit

AccountInv == /\ Serial /\ UpToDate
              /\ media # None => media.roll <= rolls
              /\ Sums(media, debits, credits)
=============================================================================
