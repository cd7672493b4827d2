----------------------------- MODULE SettingsSave -----------------------------
(***************************************************************************)
(* "Save in the printer": the worker reads the printer's configuration,    *)
(* compares its revision with the one the user acknowledged, sends the     *)
(* changed settings, reads them back, tells the printer to save all its    *)
(* settings (^JUS) and reads once more.  A file, configuration-attempt.json,*)
(* says at any time how far that went, whatever fails or crashes.          *)
(*                                                                         *)
(* Below the worker are a transport and a printer.  A query has a time     *)
(* limit, but the printer answers it all the same; a TCP transport asks    *)
(* every query on a connection of its own, a character device or USB       *)
(* endpoint keeps the late answer for whoever reads next.                  *)
(***************************************************************************)
EXTENDS Integers, Sequences, SequencesExt

CONSTANTS
    Values,       \* what a setting may be
    Transports,   \* those that keep an answer nobody waited for (TRUE), those that do not
    None,
    Budget        \* bounds: operations, crashes, disk faults, power cycles, link errors

ASSUME ValuesAssumption == Values # {} /\ Transports \subseteq BOOLEAN
ASSUME BudgetAssumption == Budget \in [op : Nat, crash : Nat, fault : Nat, power : Nat, link : Nat]

(* A configuration: the setting a request asks for, and all the others.  Its
   revision covers both, ^JUS saves both.                                    *)
Configurations == [asked : Values, rest : Values]

VARIABLES
    keepsAnswers,   \* the printer's transport
    active, nvm,    \* printer: the settings in force and those saved
    wire,           \* bytes on the way to the printer
    answers,        \* answers on the way back
    late,           \* observer: a query was given up, and the link not found silent since
    attempt,        \* configuration-attempt.json
    pc,             \* where the worker stands
    request,        \* what it was asked to save, [revision, want]
    report,         \* the state in its report
    number,         \* attempts so far
    applied, saved, \* observers: the last attempt that sent settings, ^JUS
    budget

device == <<active, nvm>>
link   == <<wire, answers, late>>
worker == <<pc, request, report>>
seen   == <<applied, saved>>
vars   == <<keepsAnswers, device, link, attempt, worker, number, seen, budget>>

NoRequest == [revision |-> None, want |-> None]

Outcomes == {"ok", "lost", "late"}   \* atomic_json: done, failed before or after the rename
Landed(o) == o # "lost"
Faults(o) == IF o = "ok" THEN 0 ELSE 1
Spend(kind, n) == budget[kind] >= n /\ budget' = [budget EXCEPT ![kind] = @ - n]

Init ==
    /\ keepsAnswers \in Transports
    /\ active \in Configurations /\ nvm = active
    /\ wire = <<>> /\ answers = <<>> /\ late = FALSE
    /\ attempt = None
    /\ pc = "idle" /\ request = NoRequest /\ report = "none"
    /\ number = 0 /\ applied = 0 /\ saved = 0
    /\ budget = Budget

-----------------------------------------------------------------------------
(* The printer works off what reaches it, in order.                          *)

Job(c)    == [what |-> "zpl", config |-> c]      \* a job's ZPL may change settings
Set(v)    == [what |-> "set", value |-> v]
Query     == [what |-> "query"]
Persist   == [what |-> "save",                   \* ^JUS, with what the user acknowledged
              config |-> [asked |-> request.want, rest |-> request.revision.rest]]

Printer ==
    /\ wire # <<>>
    /\ wire' = Tail(wire)
    /\ LET m == Head(wire) IN
       \/ m.what = "zpl" /\ active' = m.config /\ UNCHANGED <<nvm, answers>>
       \/ m.what = "set" /\ active' \in {active, [active EXCEPT !.asked = m.value]}
                         /\ UNCHANGED <<nvm, answers>>
       \/ m.what = "save" /\ nvm' = active /\ UNCHANGED <<active, answers>>
       \/ m.what = "query" /\ answers' = Append(answers, active) /\ UNCHANGED device
    /\ UNCHANGED <<keepsAnswers, late, attempt, worker, number, seen, budget>>

PowerCycle ==
    /\ Spend("power", 1)
    /\ active' = nvm
    /\ wire' = <<>> /\ answers' = <<>>
    /\ UNCHANGED <<keepsAnswers, nvm, late, attempt, worker, number, seen>>

-----------------------------------------------------------------------------
(* The transport.  write_bytes may fail when all or none of a message left.  *)

Write(m) == wire' = Append(wire, m) /\ UNCHANGED <<answers, late>>

\* The first message of an operation.
Begin(m) == /\ wire' = Append(wire, m) /\ UNCHANGED answers
            /\ late' = (late /\ ~(wire = <<>> /\ answers = <<>>))

Broken(m) == /\ Spend("link", 1)
             /\ wire' \in {wire, Append(wire, m)} /\ UNCHANGED <<answers, late>>

\* Nobody waits for an answer any more: a connection of its own is closed, and
\* with it goes the query, the last message, if the printer has not taken it yet.
Unasked(sent) == IF sent # <<>> /\ Last(sent).what = "query" THEN Front(sent) ELSE sent

HangUp ==
    IF keepsAnswers THEN /\ UNCHANGED <<wire, answers>>
                         /\ late' = (late \/ answers # <<>> \/ Unasked(wire) # wire)
                    ELSE wire' = Unasked(wire) /\ answers' = <<>> /\ UNCHANGED late

\* query reads until the printer is silent for a while; what came late from
\* earlier queries comes first, the last value of a field counts.
Hear(k) == /\ k \in 1..Len(answers)
           /\ answers' = SubSeq(answers, k + 1, Len(answers)) /\ UNCHANGED <<wire, late>>
Heard(k) == answers[k]

\* The mark of several answers is that of no configuration.
Mark(k) == IF k = 1 THEN answers[1] ELSE None

-----------------------------------------------------------------------------
(* The worker: one operation at a time.                                      *)

At(l)  == pc' = l

Done   == pc' = "idle" /\ request' = NoRequest /\ report' = "none"
Finish(state) == At("finish") /\ report' = state /\ UNCHANGED request

\* A job, or a read of the configuration that nobody acknowledges yet.
RunJob ==
    /\ pc = "idle" /\ Spend("op", 1)
    /\ \E c \in Configurations : Begin(Job(c))
    /\ UNCHANGED <<keepsAnswers, device, attempt, worker, number, seen>>

ReadDevice ==
    /\ pc = "idle" /\ Spend("op", 1)
    /\ Begin(Query) /\ At("read")
    /\ UNCHANGED <<keepsAnswers, device, attempt, request, report, number, seen>>

ReadEnds ==
    /\ pc = "read"
    /\ HangUp \/ \E k \in 1..Len(answers) : Hear(k)
    /\ Done
    /\ UNCHANGED <<keepsAnswers, device, attempt, number, seen, budget>>

BeginSave ==
    /\ pc = "idle" /\ Spend("op", 1)
    /\ \E c \in Configurations, v \in Values : request' = [revision |-> c, want |-> v]
    /\ Begin(Query) /\ At("before")
    /\ UNCHANGED <<keepsAnswers, device, attempt, report, number, seen>>

(* Nothing was written or sent yet: every error just ends the operation.     *)
RefuseSave ==
    /\ pc = "before"
    /\ HangUp \/ \E k \in 1..Len(answers) : Hear(k)
    /\ Done
    /\ UNCHANGED <<keepsAnswers, device, attempt, number, seen, budget>>

\* Mutant: the field is compared, the rest of the configuration is not.
CheckField ==
    /\ pc = "before"
    /\ \E k \in 1..Len(answers) : Hear(k) /\ Heard(k).asked = request.revision.asked
    /\ At("open")
    /\ UNCHANGED <<keepsAnswers, device, attempt, request, report, number, seen, budget>>

CheckRevision ==
    /\ pc = "before"
    /\ \E k \in 1..Len(answers) : Hear(k) /\ Mark(k) = request.revision
    /\ At("open")
    /\ UNCHANGED <<keepsAnswers, device, attempt, request, report, number, seen, budget>>

Record(n, state, o) == attempt' = IF Landed(o) THEN [number |-> n, want |-> request.want,
                                                     state |-> state]
                                               ELSE attempt

OpenAttempt ==
    /\ pc = "open"
    /\ number' = number + 1
    /\ \E o \in Outcomes :
        /\ Spend("fault", Faults(o))
        /\ Record(number + 1, "in_progress", o)
        /\ IF o = "ok" THEN At("apply") /\ report' = "in_progress" /\ UNCHANGED request ELSE Done
    /\ UNCHANGED <<keepsAnswers, device, link, seen>>

Apply ==
    /\ pc = "apply"
    /\ \/ Write(Set(request.want)) /\ At("ask_readback") /\ UNCHANGED <<request, report, budget>>
       \/ Broken(Set(request.want)) /\ Finish("apply_outcome_unknown")
    /\ applied' = number
    /\ UNCHANGED <<keepsAnswers, device, attempt, number, saved>>

\* What a failure makes of the report; not_saved and the like are set before.
Failed == IF report = "in_progress" THEN "apply_outcome_unknown" ELSE report

Asks == [readback |-> "ask_readback", after |-> "ask_after"]

Ask(p) ==
    /\ pc = Asks[p]
    /\ \/ Write(Query) /\ At(p) /\ UNCHANGED <<request, report, budget>>
       \/ Spend("link", 1) /\ UNCHANGED link /\ Finish(Failed)   \* it did not leave
    /\ UNCHANGED <<keepsAnswers, device, attempt, number, seen>>

\* The time limit passed, or configuration.json could not be written.
NoAnswer(p) ==
    /\ pc = p /\ Finish(Failed)
    /\ \/ HangUp /\ UNCHANGED budget
       \/ Spend("fault", 1) /\ \E k \in 1..Len(answers) : Hear(k)
    /\ UNCHANGED <<keepsAnswers, device, attempt, number, seen>>

ReadBack ==
    /\ pc = "readback"
    /\ \E k \in 1..Len(answers) :
        /\ Hear(k)
        /\ IF Heard(k).asked = request.want THEN At("arm") /\ UNCHANGED <<request, report>>
                                            ELSE Finish("not_saved")
    /\ UNCHANGED <<keepsAnswers, device, attempt, number, seen, budget>>

\* Mutant: an attempt that could not be recorded goes on.
ArmAnyway ==
    /\ pc = "arm"
    /\ \E o \in Outcomes :
        Spend("fault", Faults(o)) /\ Record(number, "save_outcome_unknown", o)
    /\ At("save") /\ report' = "save_outcome_unknown"
    /\ UNCHANGED <<keepsAnswers, device, link, request, number, seen>>

(* The outcome is on file before ^JUS leaves.                                *)
Arm ==
    /\ pc = "arm"
    /\ \E o \in Outcomes :
        /\ Spend("fault", Faults(o))
        /\ Record(number, "save_outcome_unknown", o)
        /\ At(IF o = "ok" THEN "save" ELSE "finish")
    /\ report' = "save_outcome_unknown"
    /\ UNCHANGED <<keepsAnswers, device, link, request, number, seen>>

SendSave ==
    /\ pc = "save"
    /\ \/ Write(Persist) /\ At("ask_after") /\ UNCHANGED <<request, report, budget>>
       \/ Broken(Persist) /\ Finish(report)
    /\ saved' = number
    /\ UNCHANGED <<keepsAnswers, device, attempt, number, applied>>

\* Mutant: any answer after ^JUS counts as confirmation.
ConfirmAny ==
    /\ pc = "after"
    /\ \E k \in 1..Len(answers) : Hear(k)
    /\ Finish("save_sent_active_verified")
    /\ UNCHANGED <<keepsAnswers, device, attempt, number, seen, budget>>

Confirm ==
    /\ pc = "after"
    /\ \E k \in 1..Len(answers) :
        /\ Hear(k)
        /\ Finish(IF Heard(k).asked = request.want THEN "save_sent_active_verified" ELSE report)
    /\ UNCHANGED <<keepsAnswers, device, attempt, number, seen, budget>>

FinishAttempt ==
    /\ pc = "finish"
    /\ \E o \in Outcomes : Spend("fault", Faults(o)) /\ Record(number, report, o)
    /\ Done
    /\ UNCHANGED <<keepsAnswers, device, link, number, seen>>

(* The agent stops and is started again; nobody looks at the attempt.        *)
Crash ==
    /\ Spend("crash", 1)
    /\ HangUp /\ Done
    /\ UNCHANGED <<keepsAnswers, device, attempt, number, seen>>

Save == \/ BeginSave \/ RefuseSave \/ CheckRevision \/ OpenAttempt \/ Apply
        \/ Ask("readback") \/ NoAnswer("readback") \/ ReadBack \/ Arm \/ SendSave
        \/ Ask("after") \/ NoAnswer("after") \/ Confirm \/ FinishAttempt

Next == RunJob \/ ReadDevice \/ ReadEnds \/ Save \/ Printer \/ PowerCycle \/ Crash

Spec == Init /\ [][Next]_vars

-----------------------------------------------------------------------------
(* Properties *)

States == {"in_progress", "not_saved", "apply_outcome_unknown", "save_outcome_unknown",
           "save_sent_active_verified"}
ASSUME NoneAssumption ==
    None \notin [number : Nat, want : Values, state : States]
Messages == [what : {"zpl", "save"}, config : Configurations] \cup [what : {"set"}, value : Values]
            \cup [what : {"query"}]

\* Type invariant; the request is known exactly while the worker saves.
TypeOK ==
    /\ keepsAnswers \in Transports
    /\ active \in Configurations /\ nvm \in Configurations
    /\ wire \in Seq(Messages) /\ answers \in Seq(Configurations) /\ late \in BOOLEAN
    /\ attempt \in {None} \cup [number : Nat, want : Values, state : States]
    /\ pc \in {"idle", "read", "before", "open", "apply", "ask_readback", "readback", "arm",
               "save", "ask_after", "after", "finish"}
    /\ IF pc \in {"idle", "read"} THEN request = NoRequest
                                  ELSE request \in [revision : Configurations, want : Values]
    /\ report \in States \cup {"none"}
    /\ pc \in {"apply", "ask_readback", "readback", "arm", "save", "ask_after", "after", "finish"}
         => report \in States
    /\ number \in Nat /\ applied \in Nat /\ saved \in Nat
    /\ budget \in [{"op", "crash", "fault", "power", "link"} -> Nat]

\* The file never claims less than happened: settings are sent only by an
\* attempt that is on file, and as long as its file does not say so no ^JUS can
\* have reached the printer ("not_saved", "apply_outcome_unknown": nothing was
\* saved to nonvolatile memory), whatever crashes and disk errors there are.
FileHonest ==
    /\ applied > 0 => attempt # None /\ attempt.number >= applied
    /\ attempt # None /\ saved = attempt.number =>
        attempt.state \in {"save_outcome_unknown", "save_sent_active_verified"}

\* The printer saves the settings the user acknowledged, with the one asked for
\* and no other change: the revision check is made on a fresh reading and
\* nothing comes between it and ^JUS, unless the printer loses power there.
SavedAsAcknowledged ==
    [][nvm' # nvm /\ budget.power = Budget.power =>
        /\ wire # <<>> /\ Head(wire).what = "save" /\ nvm' = Head(wire).config]_vars

\* It is so over TCP, and on a device as long as no query was given up: an answer that
\* comes late is the only thing that can make it false, and only until an operation
\* finds the link silent again.
Undisturbed == keepsAnswers => ~late

SavedUnlessLate ==
    [][nvm' # nvm /\ budget.power = Budget.power /\ Undisturbed =>
        /\ wire # <<>> /\ Head(wire).what = "save" /\ nvm' = Head(wire).config]_vars

\* A verified save is in nonvolatile memory when it is reported, although the
\* printer may have lost power, and with it ^JUS, on the way; on a device again as long
\* as no query was given up.
VerifiedUnlessLate ==
    [][attempt' # attempt /\ attempt'.state = "save_sent_active_verified" /\ Undisturbed
         => nvm.asked = attempt'.want]_vars

\* -- Why the file is honest: the inductive invariant ------------------------

AfterSave == {"save_outcome_unknown", "save_sent_active_verified"}
Before    == {"apply", "ask_readback", "readback", "arm"}   \* ^JUS was not sent
Armed     == {"save", "ask_after", "after"}

AttemptInv ==
    /\ number \in Nat /\ applied \in 0..number /\ saved \in 0..number
    /\ attempt # None => attempt.number \in 1..number
    /\ pc \notin {"idle", "read"} => request.want \in Values
    /\ pc \in Before \cup Armed \cup {"finish"} => report \in States
    /\ pc \in Before \cup Armed \cup {"finish"} => attempt # None /\ attempt.number = number
    /\ pc \in Before => saved < number
    /\ pc \in Armed => /\ report = "save_outcome_unknown"
                      /\ attempt.state = "save_outcome_unknown"
    /\ pc = "finish" /\ saved = number => report \in AfterSave
    /\ FileHonest
===============================================================================
