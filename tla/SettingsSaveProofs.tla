------------------------- MODULE SettingsSaveProofs -------------------------
(***************************************************************************)
(* The attempt file of a settings save is honest for any number of saves,  *)
(* crashes, disk faults, power cycles and link errors, on any transport.   *)
(* That argument is about the file, the report and the worker alone.  Then *)
(* what the printer does and what its answers say is followed as well, as  *)
(* long as no late answer is on the link, which over TCP is always: what is *)
(* saved was acknowledged, and what is verified was saved.                 *)
(***************************************************************************)
EXTENDS SettingsSave, SequenceTheorems, TLAPS

Running == Before \cup Armed \cup {"finish"}

\* An attempt on file is a file.
LEMMA RecordIsFile ==
    ASSUME NEW n \in Nat, NEW want \in Values, NEW state \in States
    PROVE  [number |-> n, want |-> want, state |-> state] # None
  BY NoneAssumption

\* Steps that leave the file and the counters alone.
LEMMA AsideKeeps ==
    ASSUME AttemptInv, UNCHANGED <<attempt, number, seen>>,
           pc' \notin {"idle", "read"} => request'.want \in Values,
           \/ pc' \notin Running
           \/ UNCHANGED <<pc, report>>
           \/ pc \in Before /\ pc' \in Before /\ report' \in States
           \/ pc = "ask_after" /\ pc' = "after" /\ report' = report
           \/ pc \in Before /\ pc' = "finish" /\ report' \in States
           \/ pc \in Armed /\ pc' = "finish" /\ report' \in AfterSave
    PROVE  AttemptInv'
  <1>1. UNCHANGED <<attempt, number, applied, saved>>
    BY DEF seen
  <1>2. FileHonest'
    BY <1>1 DEF AttemptInv, FileHonest
  <1> USE <1>1, <1>2 DEF AttemptInv, Running, Before, Armed, AfterSave, States
  <1>3. CASE pc' \notin Running
    BY <1>3
  <1>4. CASE UNCHANGED <<pc, report>>
    BY <1>4
  <1>5. CASE pc \in Before /\ pc' \in Before /\ report' \in States
    BY <1>5
  <1>6. CASE pc = "ask_after" /\ pc' = "after" /\ report' = report
    BY <1>6
  <1>7. CASE pc \in Before /\ pc' = "finish" /\ report' \in States
    BY <1>7
  <1>8. CASE pc \in Armed /\ pc' = "finish" /\ report' \in AfterSave
    BY <1>8
  <1> QED BY <1>3, <1>4, <1>5, <1>6, <1>7, <1>8

\* The printer, the link and what happens before an attempt begins.
LEMMA OutsideKeeps ==
    ASSUME AttemptInv,
           \/ Printer \/ PowerCycle \/ RunJob \/ ReadDevice \/ ReadEnds \/ BeginSave
           \/ RefuseSave \/ CheckRevision \/ Crash
    PROVE  AttemptInv'
  <1>1. pc \notin {"idle", "read"} => request.want \in Values
    BY DEF AttemptInv
  <1>2. UNCHANGED <<attempt, number, seen>>
    BY DEF Printer, PowerCycle, RunJob, ReadDevice, ReadEnds, BeginSave, RefuseSave,
           CheckRevision, Crash
  <1>3. CASE UNCHANGED <<pc, request, report>>
    BY <1>1, <1>2, <1>3, AsideKeeps
  <1>4. CASE BeginSave \/ CheckRevision
    <2>1. request'.want \in Values /\ pc' \in {"before", "open"}
      BY <1>1, <1>4 DEF BeginSave, CheckRevision, At
    <2> QED BY <1>2, <2>1, AsideKeeps DEF Running, Before, Armed
  <1>5. CASE pc' \in {"idle", "read"}
    BY <1>2, <1>5, AsideKeeps DEF Running, Before, Armed
  <1> QED BY <1>3, <1>4, <1>5 DEF Printer, PowerCycle, RunJob, ReadDevice, ReadEnds,
                                 RefuseSave, Crash, Done, At, worker

\* A new attempt has a number of its own, and its file comes first.
LEMMA OpenKeeps ==
    ASSUME AttemptInv, OpenAttempt
    PROVE  AttemptInv'
  <1>1. /\ pc = "open" /\ number' = number + 1 /\ applied' = applied /\ saved' = saved
        /\ number \in Nat /\ applied \in 0..number /\ saved \in 0..number
        /\ request.want \in Values
    BY DEF OpenAttempt, seen, AttemptInv
  <1>2. PICK o \in Outcomes :
            /\ Record(number + 1, "in_progress", o)
            /\ IF o = "ok" THEN At("apply") /\ report' = "in_progress" /\ UNCHANGED request
                           ELSE Done
    BY DEF OpenAttempt
  <1>3. /\ number' \in Nat /\ applied' \in 0..number' /\ saved' \in 0..number'
        /\ saved' < number' /\ applied' < number'
    BY <1>1
  <1>4. CASE attempt' = attempt /\ pc' = "idle"
    BY <1>1, <1>3, <1>4 DEF AttemptInv, FileHonest, Before, Armed, AfterSave
  <1>5. CASE /\ attempt' = [number |-> number + 1, want |-> request.want, state |-> "in_progress"]
             /\ \/ pc' = "idle"
                \/ pc' = "apply" /\ report' = "in_progress" /\ request' = request
    <2>1. attempt'.number = number' /\ attempt' # None
      BY <1>1, <1>5, RecordIsFile DEF States
    <2>2. FileHonest'
      BY <1>3, <2>1 DEF FileHonest
    <2> QED BY <1>1, <1>3, <1>5, <2>1, <2>2 DEF AttemptInv, Before, Armed, States
  <1> QED BY <1>2, <1>4, <1>5 DEF Record, Landed, At, Done, Outcomes

\* Settings are sent by the attempt on file.
LEMMA ApplyKeeps ==
    ASSUME AttemptInv, Apply
    PROVE  AttemptInv'
  <1>1. /\ UNCHANGED <<attempt, number, saved, request>> /\ applied' = number
        /\ \/ pc' = "ask_readback" /\ report' = report
           \/ pc' = "finish" /\ report' = "apply_outcome_unknown"
    BY DEF Apply, Finish, At
  <1>2. /\ pc = "apply" /\ number \in Nat /\ attempt # None /\ attempt.number = number
        /\ saved \in 0..number /\ saved < number /\ report \in States
        /\ attempt.number \in 1..number /\ request.want \in Values
    BY DEF Apply, AttemptInv, Before
  <1>3. FileHonest'
    BY <1>1, <1>2 DEF FileHonest
  <1> QED BY <1>1, <1>2, <1>3 DEF AttemptInv, Before, Armed, States

\* Readings change the report at most.
LEMMA ReadingKeeps ==
    ASSUME AttemptInv,
           \/ Ask("readback") \/ NoAnswer("readback") \/ ReadBack
           \/ Ask("after") \/ NoAnswer("after") \/ Confirm
    PROVE  AttemptInv'
  <1>1. UNCHANGED <<attempt, number, seen>> /\ request' = request
    BY DEF Ask, NoAnswer, ReadBack, Confirm, Finish
  <1>2. pc \in Before \cup Armed /\ request.want \in Values /\ report \in States
    BY DEF AttemptInv, Ask, Asks, NoAnswer, ReadBack, Confirm, Before, Armed
  <1>3. pc \in Armed => report = "save_outcome_unknown"
    BY DEF AttemptInv
  <1>4. Failed \in States /\ (pc \in Armed => Failed \in AfterSave)
    BY <1>2, <1>3 DEF Failed, States, AfterSave
  <1>5. CASE Ask("readback") \/ NoAnswer("readback") \/ ReadBack
    <2>1. /\ pc \in Before
          /\ \/ pc' \in Before /\ report' = report
             \/ pc' = "finish" /\ report' \in {Failed, "not_saved"}
      BY <1>5 DEF Ask, Asks, NoAnswer, ReadBack, Finish, At, Before
    <2> QED BY <1>1, <1>2, <1>4, <2>1, AsideKeeps DEF States
  <1>6. CASE Ask("after") \/ NoAnswer("after") \/ Confirm
    <2>1. /\ pc \in Armed
          /\ \/ pc = "ask_after" /\ pc' = "after" /\ report' = report
             \/ pc' = "finish" /\ report' \in {Failed, report, "save_sent_active_verified"}
      BY <1>6 DEF Ask, Asks, NoAnswer, Confirm, Finish, At, Armed
    <2> QED BY <1>1, <1>2, <1>3, <1>4, <2>1, AsideKeeps DEF AfterSave
  <1> QED BY <1>5, <1>6

\* The outcome is on file before ^JUS can leave.
LEMMA ArmKeeps ==
    ASSUME AttemptInv, Arm
    PROVE  AttemptInv'
  <1>1. /\ pc = "arm" /\ number \in Nat /\ attempt # None /\ attempt.number = number
        /\ saved \in 0..number /\ saved < number /\ applied \in 0..number
        /\ attempt.number \in 1..number /\ request.want \in Values
    BY DEF Arm, AttemptInv, Before
  <1>2. PICK o \in Outcomes : /\ Record(number, "save_outcome_unknown", o)
                              /\ pc' = IF o = "ok" THEN "save" ELSE "finish"
    BY DEF Arm, At
  <1>3. UNCHANGED <<number, applied, saved, request>> /\ report' = "save_outcome_unknown"
    BY DEF Arm, seen
  <1>4. CASE attempt' = attempt /\ pc' = "finish"
    <2>1. FileHonest'
      BY <1>1, <1>3, <1>4 DEF FileHonest
    <2> QED BY <1>1, <1>3, <1>4, <2>1 DEF AttemptInv, Before, Armed, States, AfterSave
  <1>5. CASE /\ attempt' = [number |-> number, want |-> request.want,
                            state |-> "save_outcome_unknown"]
             /\ pc' \in {"save", "finish"}
    <2>1. attempt' # None /\ attempt'.number = number /\ attempt'.state = "save_outcome_unknown"
      BY <1>1, <1>5, RecordIsFile DEF States
    <2>2. FileHonest'
      BY <1>1, <1>3, <2>1 DEF FileHonest
    <2> QED BY <1>1, <1>3, <1>5, <2>1, <2>2 DEF AttemptInv, Before, Armed, States, AfterSave
  <1> QED BY <1>2, <1>4, <1>5 DEF Record, Landed, Outcomes

\* From then on the file says so.
LEMMA SendSaveKeeps ==
    ASSUME AttemptInv, SendSave
    PROVE  AttemptInv'
  <1>1. /\ UNCHANGED <<attempt, number, applied, request>> /\ saved' = number
        /\ pc' \in {"ask_after", "finish"} /\ report' = report
    BY DEF SendSave, Finish, At
  <1>2. /\ pc = "save" /\ number \in Nat /\ attempt # None /\ attempt.number = number
        /\ applied \in 0..number /\ attempt.number \in 1..number /\ request.want \in Values
        /\ report = "save_outcome_unknown" /\ attempt.state = "save_outcome_unknown"
    BY DEF SendSave, AttemptInv, Armed
  <1>3. FileHonest'
    BY <1>1, <1>2 DEF FileHonest
  <1> QED BY <1>1, <1>2, <1>3 DEF AttemptInv, Before, Armed, States, AfterSave

\* The report that ends an attempt knows whether ^JUS was sent.
LEMMA FinishKeeps ==
    ASSUME AttemptInv, FinishAttempt
    PROVE  AttemptInv'
  <1>1. /\ pc = "finish" /\ number \in Nat /\ attempt # None /\ attempt.number = number
        /\ saved \in 0..number /\ applied \in 0..number /\ request.want \in Values
        /\ attempt.number \in 1..number
        /\ report \in States /\ (saved = number => report \in AfterSave)
    BY DEF FinishAttempt, AttemptInv
  <1>2. PICK o \in Outcomes : Record(number, report, o)
    BY DEF FinishAttempt
  <1>3. UNCHANGED <<number, applied, saved>> /\ pc' = "idle"
    BY DEF FinishAttempt, seen, Done
  <1>4. CASE attempt' = attempt
    <2>1. FileHonest'
      BY <1>3, <1>4 DEF AttemptInv, FileHonest
    <2> QED BY <1>1, <1>3, <1>4, <2>1 DEF AttemptInv, Before, Armed
  <1>5. CASE attempt' = [number |-> number, want |-> request.want, state |-> report]
    <2>1. attempt' # None /\ attempt'.number = number /\ attempt'.state = report
      BY <1>1, <1>5, RecordIsFile
    <2>2. FileHonest'
      BY <1>1, <1>3, <2>1 DEF FileHonest, AfterSave
    <2> QED BY <1>1, <1>3, <2>1, <2>2 DEF AttemptInv, Before, Armed
  <1> QED BY <1>2, <1>4, <1>5 DEF Record

LEMMA AttemptInit == Init => AttemptInv
  BY DEF Init, AttemptInv, FileHonest, Before, Armed

LEMMA AttemptStep == AttemptInv /\ [Next]_vars => AttemptInv'
  <1> SUFFICES ASSUME AttemptInv, [Next]_vars PROVE AttemptInv'
    OBVIOUS
  <1>1. CASE Save
    BY <1>1, OutsideKeeps, OpenKeeps, ApplyKeeps, ReadingKeeps, ArmKeeps, SendSaveKeeps,
       FinishKeeps DEF Save
  <1>2. CASE UNCHANGED vars
    <2>1. UNCHANGED <<attempt, number, seen, pc, request, report>>
      BY <1>2 DEF vars, worker
    <2>2. pc \notin {"idle", "read"} => request.want \in Values
      BY DEF AttemptInv
    <2> QED BY <2>1, <2>2, AsideKeeps
  <1> QED BY <1>1, <1>2, OutsideKeeps DEF Next

\* The attempt file never claims less than happened: settings are sent only by
\* an attempt on file, and once ^JUS may have reached the printer the file says
\* that the outcome is unknown, or verified, whatever crashes and errors follow.
THEOREM FileIsHonest == Spec => []FileHonest
  <1>1. AttemptInv => FileHonest
    BY DEF AttemptInv
  <1> QED BY <1>1, AttemptInit, AttemptStep, PTL DEF Spec

-----------------------------------------------------------------------------
(* Types. *)

LinkOk   == wire \in Seq(Messages) /\ answers \in Seq(Configurations) /\ late \in BOOLEAN
FileOk   == attempt \in {None} \cup [number : Nat, want : Values, state : States]
BudgetOk == budget \in [{"op", "crash", "fault", "power", "link"} -> Nat]
PlaceOk  ==
    /\ pc \in {"idle", "read", "before", "open", "apply", "ask_readback", "readback", "arm",
               "save", "ask_after", "after", "finish"}
    /\ IF pc \in {"idle", "read"} THEN request = NoRequest
                                  ELSE request \in [revision : Configurations, want : Values]
    /\ report \in States \cup {"none"}
    /\ pc \in {"apply", "ask_readback", "readback", "arm", "save", "ask_after", "after", "finish"}
         => report \in States

LEMMA TypeParts ==
    TypeOK <=> /\ keepsAnswers \in Transports
               /\ active \in Configurations /\ nvm \in Configurations
               /\ LinkOk /\ FileOk /\ BudgetOk /\ PlaceOk
               /\ number \in Nat /\ applied \in Nat /\ saved \in Nat
  BY DEF TypeOK, LinkOk, FileOk, BudgetOk, PlaceOk

LEMMA TypePartsNext ==
    /\ keepsAnswers' \in Transports
    /\ active' \in Configurations /\ nvm' \in Configurations
    /\ LinkOk' /\ FileOk' /\ BudgetOk' /\ PlaceOk'
    /\ number' \in Nat /\ applied' \in Nat /\ saved' \in Nat
    => TypeOK'
  BY DEF TypeOK, LinkOk, FileOk, BudgetOk, PlaceOk

LEMMA BudgetType ==
    ASSUME BudgetOk, NEW kind \in {"op", "crash", "fault", "power", "link"}, NEW n \in Nat,
           Spend(kind, n)
    PROVE  BudgetOk'
  BY DEF BudgetOk, Spend

LEMMA FaultsType == \A o \in Outcomes : Faults(o) \in Nat
  BY DEF Faults

LEMMA MessageTypes ==
    /\ \A c \in Configurations : Job(c) \in Messages
    /\ \A v \in Values : Set(v) \in Messages
    /\ Query \in Messages
    /\ request \in [revision : Configurations, want : Values] => Persist \in Messages
  BY DEF Job, Set, Query, Persist, Messages, Configurations

LEMMA LinkTypes ==
    ASSUME LinkOk
    PROVE  /\ UNCHANGED link => LinkOk'
           /\ \A m \in Messages : Begin(m) \/ Write(m) \/ Broken(m) => LinkOk'
           /\ HangUp => LinkOk'
           /\ \A k \in 1..Len(answers) :
                  Heard(k) \in Configurations /\ (Hear(k) => LinkOk')
  <1>1. wire \in Seq(Messages) /\ answers \in Seq(Configurations) /\ late \in BOOLEAN
    BY DEF LinkOk
  <1>a. ASSUME NEW m, Begin(m) PROVE late' \in BOOLEAN
    BY <1>a, Zenon DEF Begin
  <1>b. ASSUME HangUp PROVE late' \in BOOLEAN
    <2>1. late' = late \/ late' = (late \/ answers # <<>> \/ Unasked(wire) # wire)
      BY <1>b, Zenon DEF HangUp
    <2>2. (late \/ answers # <<>> \/ Unasked(wire) # wire) \in BOOLEAN
      BY Zenon
    <2> QED BY <1>1, <2>1, <2>2, Zenon
  <1>2. \A m \in Messages : Append(wire, m) \in Seq(Messages)
    BY <1>1
  <1>3. Unasked(wire) \in Seq(Messages)
    <2>1. CASE wire = <<>>
      BY <1>1, <2>1 DEF Unasked
    <2>2. CASE wire # <<>>
      <3>1. Len(wire) \in Nat \ {0} /\ \A i \in 1..Len(wire) : wire[i] \in Messages
        BY <1>1, <2>2
      <3>2. SubSeq(wire, 1, Len(wire) - 1) \in Seq(Messages)
        BY <1>1, <3>1
      <3> QED BY <1>1, <3>2 DEF Unasked, Front
    <2> QED BY <2>1, <2>2
  <1>4. ASSUME NEW k \in 1..Len(answers)
        PROVE  Heard(k) \in Configurations /\ (Hear(k) => LinkOk')
    <2>1. Len(answers) \in Nat /\ \A i \in 1..Len(answers) : answers[i] \in Configurations
      BY <1>1
    <2>2. SubSeq(answers, k + 1, Len(answers)) \in Seq(Configurations)
      BY <1>1, <2>1
    <2> QED BY <1>1, <2>1, <2>2 DEF Hear, Heard, LinkOk
  <1>5. ASSUME HangUp PROVE LinkOk'
    <2>1. \/ wire' = wire /\ answers' = answers
          \/ wire' = Unasked(wire) /\ answers' = <<>>
      BY <1>5, Zenon DEF HangUp
    <2>2. <<>> \in Seq(Configurations)
      OBVIOUS
    <2>3. late' \in BOOLEAN
      BY <1>5, <1>b
    <2> QED BY <1>1, <1>3, <2>1, <2>2, <2>3 DEF LinkOk
  <1>6. ASSUME NEW m \in Messages, Begin(m) PROVE LinkOk'
    <2>1. late' \in BOOLEAN
      BY <1>6, <1>a
    <2>2. wire' = Append(wire, m) /\ answers' = answers
      BY <1>6 DEF Begin
    <2> QED BY <1>1, <1>2, <2>1, <2>2 DEF LinkOk
  <1> QED BY <1>1, <1>2, <1>4, <1>5, <1>6 DEF LinkOk, Write, Broken, link

LEMMA RecordType ==
    ASSUME FileOk, NEW n \in Nat, request.want \in Values, NEW state \in States,
           NEW o \in Outcomes, Record(n, state, o)
    PROVE  FileOk'
  BY DEF FileOk, Record

\* The printer and the link.
LEMMA PrinterType ==
    ASSUME TypeOK, Printer \/ PowerCycle
    PROVE  TypeOK'
  <1> USE TypeParts, TypePartsNext
  <1>1. UNCHANGED <<keepsAnswers, attempt, pc, request, report, number, applied, saved>>
    BY DEF Printer, PowerCycle, worker, seen
  <1>2. CASE Printer
    <2>1. wire \in Seq(Messages) /\ answers \in Seq(Configurations) /\ wire # <<>>
      BY <1>2 DEF LinkOk, Printer
    <2>2. Head(wire) \in Messages /\ Tail(wire) \in Seq(Messages)
      BY <2>1
    <2>3. /\ Head(wire).what = "zpl" => Head(wire).config \in Configurations
          /\ Head(wire).what = "set" => Head(wire).value \in Values
      BY <2>2 DEF Messages
    <2>4. active' \in Configurations /\ nvm' \in Configurations
      BY <1>2, <2>3 DEF Printer, device, Configurations
    <2>5. answers' \in Seq(Configurations)
      <3>1. answers' = answers \/ answers' = Append(answers, active)
        BY <1>2 DEF Printer
      <3>2. active \in Configurations
        OBVIOUS
      <3>3. Append(answers, active) \in Seq(Configurations)
        BY <2>1, <3>2
      <3> QED BY <2>1, <3>1, <3>3
    <2>6. wire' = Tail(wire) /\ budget' = budget /\ late' = late
      BY <1>2 DEF Printer
    <2> QED BY <1>1, <2>2, <2>4, <2>5, <2>6 DEF LinkOk, FileOk, BudgetOk, PlaceOk
  <1>3. CASE PowerCycle
    <2>1. BudgetOk' /\ active' = nvm /\ nvm' = nvm /\ wire' = <<>> /\ answers' = <<>>
          /\ late' = late
      BY <1>3, BudgetType DEF PowerCycle
    <2> QED BY <1>1, <2>1 DEF LinkOk, FileOk, PlaceOk
  <1> QED BY <1>2, <1>3

\* What happens before an attempt begins, and what ends it from outside.
LEMMA IdleType ==
    ASSUME TypeOK,
           RunJob \/ ReadDevice \/ ReadEnds \/ BeginSave \/ RefuseSave \/ CheckRevision \/ Crash
    PROVE  TypeOK'
  <1> USE TypeParts, TypePartsNext
  <1>1. UNCHANGED <<keepsAnswers, active, nvm, attempt, number, applied, saved>>
    BY DEF RunJob, ReadDevice, ReadEnds, BeginSave, RefuseSave, CheckRevision, Crash, device, seen
  <1>2. BudgetOk'
    <2>1. UNCHANGED budget \/ \E kind \in {"op", "crash"} : Spend(kind, 1)
      BY DEF RunJob, ReadDevice, ReadEnds, BeginSave, RefuseSave, CheckRevision, Crash
    <2> QED BY <2>1, BudgetType DEF BudgetOk
  <1>3. LinkOk'
    BY LinkTypes, MessageTypes DEF RunJob, ReadDevice, ReadEnds, BeginSave, RefuseSave,
       CheckRevision, Crash
  <1>4. PlaceOk'
    <2>1. CASE RunJob
      BY <2>1 DEF RunJob, worker, PlaceOk
    <2>2. CASE ReadDevice
      BY <2>2 DEF ReadDevice, At, PlaceOk
    <2>3. CASE ReadEnds \/ RefuseSave \/ Crash
      BY <2>3 DEF ReadEnds, RefuseSave, Crash, Done, PlaceOk
    <2>4. CASE BeginSave
      BY <2>4 DEF BeginSave, At, PlaceOk
    <2>5. CASE CheckRevision
      BY <2>5 DEF CheckRevision, At, PlaceOk
    <2> QED BY <2>1, <2>2, <2>3, <2>4, <2>5
  <1> QED BY <1>1, <1>2, <1>3, <1>4 DEF FileOk

\* The steps of an attempt.
LEMMA SaveType ==
    ASSUME TypeOK,
           \/ OpenAttempt \/ Apply \/ ReadBack \/ Arm \/ SendSave \/ Confirm \/ FinishAttempt
           \/ \E p \in {"readback", "after"} : Ask(p) \/ NoAnswer(p)
    PROVE  TypeOK'
  <1> USE TypeParts, TypePartsNext
  <1>1. /\ pc \notin {"idle", "read"} /\ request \in [revision : Configurations, want : Values]
        /\ request.want \in Values
        /\ pc \in {"apply", "ask_readback", "readback", "arm", "save", "ask_after", "after", "finish"}
               => report \in States
    BY DEF PlaceOk, OpenAttempt, Apply, ReadBack, Arm, SendSave, Confirm, FinishAttempt, Ask,
       Asks, NoAnswer
  <1>2. /\ "in_progress" \in States /\ "not_saved" \in States /\ "apply_outcome_unknown" \in States
        /\ "save_outcome_unknown" \in States /\ "save_sent_active_verified" \in States
    BY DEF States
  <1>3. UNCHANGED <<keepsAnswers, active, nvm>>
    BY DEF OpenAttempt, Apply, ReadBack, Arm, SendSave, Confirm, FinishAttempt, Ask, NoAnswer,
       device
  <1>4. number' \in Nat /\ applied' \in Nat /\ saved' \in Nat
    BY DEF OpenAttempt, Apply, ReadBack, Arm, SendSave, Confirm, FinishAttempt, Ask, NoAnswer, seen
  <1>5. BudgetOk'
    <2>1. \/ UNCHANGED budget \/ \E kind \in {"fault", "link"} : Spend(kind, 1)
          \/ \E o \in Outcomes : Spend("fault", Faults(o))
      BY DEF OpenAttempt, Apply, ReadBack, Arm, SendSave, Confirm, FinishAttempt, Ask, NoAnswer,
         Broken
    <2> QED BY <2>1, BudgetType, FaultsType DEF BudgetOk
  <1>6. LinkOk'
    <2>1. \/ UNCHANGED link \/ HangUp \/ \E k \in 1..Len(answers) : Hear(k)
          \/ \E m \in Messages : Write(m) \/ Broken(m)
      BY <1>1, MessageTypes DEF OpenAttempt, Apply, ReadBack, Arm, SendSave, Confirm,
         FinishAttempt, Ask, NoAnswer
    <2> QED BY <2>1, LinkTypes
  <1>7. CASE OpenAttempt
    <2>1. PICK o \in Outcomes :
            /\ Record(number + 1, "in_progress", o)
            /\ IF o = "ok" THEN At("apply") /\ report' = "in_progress" /\ UNCHANGED request ELSE Done
      BY <1>7 DEF OpenAttempt
    <2>2. FileOk'
      BY <1>1, <1>2, <2>1, RecordType
    <2>3. PlaceOk'
      BY <1>1, <1>2, <2>1 DEF At, Done, PlaceOk
    <2> QED BY <1>3, <1>4, <1>5, <1>6, <2>2, <2>3
  <1>8. CASE Arm
    <2>1. PICK o \in Outcomes : /\ Record(number, "save_outcome_unknown", o)
                                /\ At(IF o = "ok" THEN "save" ELSE "finish")
      BY <1>8 DEF Arm
    <2>2. FileOk'
      BY <1>1, <1>2, <2>1, RecordType
    <2>3. PlaceOk'
      BY <1>1, <1>2, <1>8, <2>1 DEF Arm, At, PlaceOk
    <2> QED BY <1>3, <1>4, <1>5, <1>6, <2>2, <2>3
  <1>9. CASE FinishAttempt
    <2>1. PICK o \in Outcomes : Record(number, report, o)
      BY <1>9 DEF FinishAttempt
    <2>2. FileOk'
      BY <1>1, <1>9, <2>1, RecordType DEF FinishAttempt
    <2>3. PlaceOk'
      BY <1>9 DEF FinishAttempt, Done, PlaceOk
    <2> QED BY <1>3, <1>4, <1>5, <1>6, <2>2, <2>3
  <1>10. CASE \/ Apply \/ ReadBack \/ SendSave \/ Confirm
              \/ \E p \in {"readback", "after"} : Ask(p) \/ NoAnswer(p)
    <2>1. attempt' = attempt /\ request' = request
      BY <1>10 DEF Apply, ReadBack, SendSave, Confirm, Ask, NoAnswer, Finish
    <2>2. PlaceOk'
      <3>1. Failed \in States \cup {"none"} /\ (report \in States => Failed \in States)
        BY <1>2 DEF Failed, PlaceOk
      <3>2. CASE Apply
        <4>1. \/ pc' = "ask_readback" /\ report' = report
              \/ pc' = "finish" /\ report' = "apply_outcome_unknown"
          BY <3>2 DEF Apply, At, Finish
        <4>2. report \in States
          BY <1>1, <3>2 DEF Apply
        <4> QED BY <1>1, <1>2, <2>1, <4>1, <4>2 DEF PlaceOk
      <3>3. CASE ReadBack \/ SendSave \/ Confirm
        <4>1. /\ pc' \in {"arm", "ask_after", "finish"} /\ report \in States
              /\ report' \in {report, "not_saved", "save_sent_active_verified"}
          BY <1>1, <3>3 DEF ReadBack, SendSave, Confirm, At, Finish
        <4> QED BY <1>1, <1>2, <2>1, <4>1 DEF PlaceOk
      <3>4. ASSUME NEW p \in {"readback", "after"}, Ask(p) \/ NoAnswer(p) PROVE PlaceOk'
        <4>1. /\ pc' \in {p, "finish"} /\ report \in States /\ report' \in {report, Failed}
          BY <1>1, <3>4 DEF Ask, Asks, NoAnswer, At, Finish
        <4> QED BY <1>1, <2>1, <3>1, <4>1 DEF PlaceOk
      <3> QED BY <1>10, <3>2, <3>3, <3>4
    <2> QED BY <1>3, <1>4, <1>5, <1>6, <2>1, <2>2 DEF FileOk
  <1> QED BY <1>7, <1>8, <1>9, <1>10

LEMMA TypeInit == Init => TypeOK
  <1>1. Init => late \in BOOLEAN
    BY Zenon DEF Init
  <1> QED BY <1>1, BudgetAssumption DEF Init, TypeOK, NoRequest

LEMMA TypeStep == TypeOK /\ [Next]_vars => TypeOK'
  <1> SUFFICES ASSUME TypeOK, [Next]_vars PROVE TypeOK'
    OBVIOUS
  <1>1. CASE UNCHANGED vars
    BY <1>1 DEF vars, device, link, worker, seen, TypeOK
  <1>2. CASE Save
    BY <1>2, IdleType, SaveType DEF Save
  <1> QED BY <1>1, <1>2, PrinterType, IdleType DEF Next

\* Every variable keeps its type, and a request is in hand exactly while one is
\* worked on.
THEOREM SettingsTyped == Spec => []TypeOK
  BY TypeInit, TypeStep, PTL DEF Spec

-----------------------------------------------------------------------------
(* What is saved, while no answer comes late.                                *)

Waiting == {"read", "before", "readback", "after"}

\* The messages on the way: a query is the last and somebody waits for it, so
\* an answer tells the settings in force; ^JUS leaves when nothing else is on
\* the way.
WireInv ==
    /\ \A i \in 1..Len(wire) : wire[i].what = "query" => i = Len(wire) /\ pc \in Waiting
    /\ \A i \in 1..Len(wire) : wire[i].what = "save" => i = 1
    /\ answers # <<>> => pc \in Waiting /\ wire = <<>> /\ answers = <<active>>
    /\ pc \in {"open", "apply", "arm", "save"} => wire = <<>>
    /\ pc \in {"ask_readback", "readback"}
         => \A i \in 1..Len(wire) : wire[i].what \in {"set", "query"}
    /\ pc \in {"ask_after", "after"}
         => \A i \in 1..Len(wire) : wire[i].what \in {"save", "query"}

\* What was saved: after ^JUS the settings in force are the saved ones, or it
\* is still on the way.
SavedInv ==
    /\ pc \in Before => report = "in_progress"
    /\ pc \in {"ask_after", "after"} /\ (wire # <<>> => wire[1].what # "save") => nvm = active
    /\ pc = "finish" /\ report = "save_sent_active_verified"
         => wire = <<>> /\ nvm.asked = request.want

Powered == budget.power = Budget.power

\* As long as the printer has power, what was read stays true: the settings
\* nobody asked to change are those acknowledged.
PowerInv ==
    /\ budget.power <= Budget.power
    /\ Powered =>
        /\ \A i \in 1..Len(wire) : wire[i].what = "save" => active = wire[i].config
        /\ pc \in {"open", "apply", "ask_readback", "readback"}
             => active.rest = request.revision.rest
        /\ pc \in {"arm", "save"}
             => active = [asked |-> request.want, rest |-> request.revision.rest]

\* The transport at work.
LEMMA HearFacts ==
    ASSUME TypeOK, WireInv, NEW k \in 1..Len(answers), Hear(k)
    PROVE  /\ pc \in Waiting /\ wire = <<>> /\ wire' = <<>> /\ answers' = <<>>
           /\ k = 1 /\ Heard(k) = active
  <1>1. answers \in Seq(Configurations) /\ answers # <<>>
    BY DEF TypeOK
  <1>2. pc \in Waiting /\ wire = <<>> /\ answers = <<active>>
    BY <1>1 DEF WireInv
  <1>3. k = 1 /\ answers[1] = active /\ Len(answers) = 1
    BY <1>2
  <1>4. SubSeq(answers, 2, 1) = <<>>
    BY <1>1
  <1> QED BY <1>2, <1>3, <1>4 DEF Hear, Heard

LEMMA HangUpFacts ==
    ASSUME TypeOK, WireInv, ~late', HangUp
    PROVE  /\ answers' = <<>> /\ Len(wire') \in 0..Len(wire)
           /\ wire = <<>> => wire' = <<>>
           /\ \A i \in 1..Len(wire') : wire'[i] = wire[i] /\ wire'[i].what # "query"
  <1>1. wire \in Seq(Messages) /\ answers' = <<>> /\ wire' = Unasked(wire)
    <2>1. CASE keepsAnswers
      <3>1. wire' = wire /\ answers' = answers
        BY <2>1, Zenon DEF HangUp
      <3>2. answers = <<>> /\ Unasked(wire) = wire
        BY <2>1, Zenon DEF HangUp
      <3> QED BY <3>1, <3>2 DEF TypeOK
    <2>2. CASE ~keepsAnswers
      <3>1. wire' = Unasked(wire) /\ answers' = <<>>
        BY <2>2, Zenon DEF HangUp
      <3> QED BY <3>1 DEF TypeOK
    <2> QED BY <2>1, <2>2
  <1>2. CASE wire = <<>>
    BY <1>1, <1>2 DEF Unasked
  <1>3. CASE wire # <<>>
    <2>1. Len(wire) \in Nat \ {0} /\ Last(wire) = wire[Len(wire)]
      BY <1>1, <1>3 DEF Last
    <2>2. \A i \in 1..Len(wire) : wire[i].what = "query" => i = Len(wire)
      BY DEF WireInv
    <2>3. CASE Last(wire).what = "query"
      <3>1. wire' = SubSeq(wire, 1, Len(wire) - 1)
        BY <1>1, <1>3, <2>3 DEF Unasked, Front
      <3>2. Len(wire') = Len(wire) - 1 /\ \A i \in 1..Len(wire') : wire'[i] = wire[i]
        <4>1. \A i \in 1..Len(wire) - 1 : wire[i] \in Messages
          BY <1>1, <2>1
        <4>2. PICK n \in Nat : n = Len(wire) - 1
          BY <2>1
        <4>3. /\ Len(wire') = IF 1 <= n THEN n - 1 + 1 ELSE 0
              /\ \A i \in 1..(n - 1 + 1) : wire'[i] = wire[1 + i - 1]
          BY <3>1, <4>1, <4>2, SubSeqProperties
        <4>4. Len(wire') = n
          BY <4>3
        <4>5. ASSUME NEW i \in 1..n PROVE wire'[i] = wire[i]
          <5>1. i \in 1..(n - 1 + 1) /\ 1 + i - 1 = i
            OBVIOUS
          <5> QED BY <4>3, <5>1
        <4> QED BY <4>2, <4>4, <4>5
      <3> QED BY <1>1, <1>3, <2>1, <2>2, <3>2
    <2>4. CASE Last(wire).what # "query"
      <3>1. wire' = wire
        BY <1>1, <2>4 DEF Unasked
      <3> QED BY <1>1, <1>3, <2>1, <2>2, <2>4, <3>1
    <2> QED BY <2>3, <2>4
  <1> QED BY <1>2, <1>3

LEMMA AppendFacts ==
    ASSUME TypeOK, NEW m, wire' = Append(wire, m)
    PROVE  /\ Len(wire) \in Nat /\ Len(wire') = Len(wire) + 1 /\ wire'[Len(wire) + 1] = m
           /\ \A i \in 1..Len(wire) : wire'[i] = wire[i]
           /\ wire' # <<>> /\ (wire = <<>> <=> Len(wire) = 0)
  BY DEF TypeOK

LEMMA PrinterFacts ==
    ASSUME TypeOK, Printer
    PROVE  /\ wire # <<>> /\ Len(wire) \in Nat \ {0} /\ Len(wire') = Len(wire) - 1
           /\ \A i \in 1..Len(wire') : wire'[i] = wire[i + 1]
           /\ Head(wire) = wire[1] /\ wire' \in Seq(Messages)
           /\ wire' = <<>> <=> Len(wire) = 1
  <1>1. wire \in Seq(Messages) /\ wire # <<>> /\ wire' = Tail(wire)
    BY DEF TypeOK, Printer
  <1>2. Len(wire) \in Nat \ {0} /\ Head(wire) = wire[1]
    BY <1>1, EmptySeq
  <1>3. /\ wire' \in Seq(Messages) /\ Len(wire') = Len(wire) - 1
        /\ \A i \in 1..Len(wire') : wire'[i] = wire[i + 1]
    BY <1>1, HeadTailProperties
  <1>4. wire' = <<>> <=> Len(wire') = 0
    BY <1>3, EmptySeq
  <1> QED BY <1>1, <1>2, <1>3, <1>4

\* What becomes of the messages on the way.
LEMMA ClearedWire ==
    ASSUME wire' = <<>>, answers' = <<>>
    PROVE  WireInv'
  BY DEF WireInv

LEMMA LeftWire ==
    ASSUME TypeOK, WireInv, pc \notin Waiting, UNCHANGED link, pc' \in {"idle", "finish"}
    PROVE  WireInv'
  BY DEF WireInv, link, Waiting

LEMMA HungUpWire ==
    ASSUME TypeOK, WireInv, ~late', HangUp, pc' \in {"idle", "finish"}
    PROVE  WireInv'
  <1>1. \A i \in 1..Len(wire') : i \in 1..Len(wire)
    BY HangUpFacts DEF TypeOK
  <1>2. \A i \in 1..Len(wire) : wire[i].what = "save" => i = 1
    BY DEF WireInv
  <1> QED BY <1>1, <1>2, HangUpFacts DEF WireInv

LEMMA LongerWire ==
    ASSUME TypeOK, WireInv, NEW m \in Messages, wire' = Append(wire, m), answers' = answers,
           pc \notin Waiting, pc' \notin {"open", "apply", "arm", "save"},
           m.what = "query" => pc' \in Waiting,
           m.what = "save" => wire = <<>>,
           pc' \in {"ask_readback", "readback"} =>
               m.what \in {"set", "query"} /\ (wire = <<>> \/ pc = "ask_readback"),
           pc' \in {"ask_after", "after"} =>
               m.what \in {"save", "query"} /\ (wire = <<>> \/ pc = "ask_after")
    PROVE  WireInv'
  <1>1. answers' = <<>>
    BY DEF WireInv
  <1>2. \A i \in 1..Len(wire') : \/ i \in 1..Len(wire) /\ wire'[i] = wire[i]
                                 \/ i = Len(wire) + 1 /\ wire'[i] = m
    BY AppendFacts
  <1>3. \A i \in 1..Len(wire) : wire[i].what # "query"
    BY DEF WireInv
  <1>4. \A i \in 1..Len(wire') : wire'[i].what = "query" => i = Len(wire') /\ pc' \in Waiting
    BY <1>2, <1>3, AppendFacts
  <1>5. \A i \in 1..Len(wire') : wire'[i].what = "save" => i = 1
    BY <1>2, AppendFacts DEF WireInv
  <1>6. pc' \in {"ask_readback", "readback"} =>
            \A i \in 1..Len(wire') : wire'[i].what \in {"set", "query"}
    BY <1>2, AppendFacts DEF WireInv
  <1>7. pc' \in {"ask_after", "after"} =>
            \A i \in 1..Len(wire') : wire'[i].what \in {"save", "query"}
    BY <1>2, AppendFacts DEF WireInv
  <1> QED BY <1>1, <1>4, <1>5, <1>6, <1>7 DEF WireInv

LEMMA PrinterWire ==
    ASSUME TypeOK, WireInv, Printer
    PROVE  WireInv'
  <1>1. pc' = pc /\ answers = <<>> /\ pc \notin {"open", "apply", "arm", "save"}
    BY DEF Printer, worker, WireInv
  <1>2. \A i \in 1..Len(wire') : i + 1 \in 1..Len(wire) /\ wire'[i] = wire[i + 1]
    BY PrinterFacts
  <1>3. \A i \in 1..Len(wire') : /\ wire'[i].what = "query" => i = Len(wire') /\ pc' \in Waiting
                                 /\ wire'[i].what # "save"
    BY <1>1, <1>2, PrinterFacts DEF WireInv
  <1>4. /\ pc' \in {"ask_readback", "readback"} =>
              \A i \in 1..Len(wire') : wire'[i].what \in {"set", "query"}
        /\ pc' \in {"ask_after", "after"} =>
              \A i \in 1..Len(wire') : wire'[i].what \in {"save", "query"}
    BY <1>1, <1>2 DEF WireInv
  <1>5. answers' # <<>> => pc' \in Waiting /\ wire' = <<>> /\ answers' = <<active'>>
    <2>1. CASE Head(wire).what = "query"
      <3>1. Len(wire) = 1 /\ pc \in Waiting
        BY <2>1, PrinterFacts DEF WireInv
      <3>2. answers' = Append(answers, active) /\ active' = active
        BY <2>1 DEF Printer, device
      <3>3. Append(<<>>, active) = <<active>>
        OBVIOUS
      <3> QED BY <1>1, <3>1, <3>2, <3>3, PrinterFacts
    <2>2. CASE Head(wire).what # "query"
      BY <1>1, <2>2 DEF Printer
    <2> QED BY <2>1, <2>2
  <1> QED BY <1>1, <1>3, <1>4, <1>5 DEF WireInv

LEMMA WireStep ==
    ASSUME TypeOK, WireInv, ~late', [Next]_vars
    PROVE  WireInv'
  <1>1. CASE Printer
    BY <1>1, PrinterWire
  <1>2. CASE PowerCycle
    BY <1>2, ClearedWire DEF PowerCycle
  <1>3. CASE \/ ReadEnds \/ RefuseSave \/ Crash
             \/ \E p \in {"readback", "after"} : NoAnswer(p)
    <2>1. pc' \in {"idle", "finish"} /\ (HangUp \/ \E k \in 1..Len(answers) : Hear(k))
      BY <1>3 DEF ReadEnds, RefuseSave, Crash, NoAnswer, Done, Finish, At
    <2> QED BY <2>1, HungUpWire, HearFacts, ClearedWire
  <1>4. CASE CheckRevision \/ ReadBack \/ Confirm
    BY <1>4, HearFacts, ClearedWire DEF CheckRevision, ReadBack, Confirm
  <1>5. CASE OpenAttempt \/ Arm \/ FinishAttempt
    <2>1. UNCHANGED link /\ pc \in {"open", "arm", "finish"}
          /\ pc' \in {"idle", "finish", "apply", "save"}
      BY <1>5 DEF OpenAttempt, Arm, FinishAttempt, Done, At
    <2>2. CASE pc' \in {"idle", "finish"}
      BY <2>1, <2>2, LeftWire DEF Waiting
    <2>3. CASE pc' \in {"apply", "save"}
      <3>1. pc \in {"open", "arm"}
        BY <1>5, <2>3 DEF OpenAttempt, Arm, FinishAttempt, Done, At
      <3>2. wire' = <<>> /\ answers' = <<>>
        BY <2>1, <3>1 DEF WireInv, link, Waiting
      <3> QED BY <3>2, ClearedWire
    <2> QED BY <2>1, <2>2, <2>3
  <1>6. CASE RunJob
    <2>1. PICK c \in Configurations : Begin(Job(c))
      BY <1>6 DEF RunJob
    <2>2. Job(c) \in Messages /\ Job(c).what = "zpl" /\ pc = "idle" /\ pc' = "idle"
      BY <1>6, MessageTypes DEF RunJob, worker, Job
    <2> QED BY <2>1, <2>2, LongerWire DEF Begin, Waiting
  <1>7. CASE ReadDevice \/ BeginSave
    <2>1. /\ Query \in Messages /\ Query.what = "query" /\ Begin(Query)
          /\ pc = "idle" /\ pc' \in {"read", "before"}
      BY <1>7, MessageTypes DEF ReadDevice, BeginSave, At, Query
    <2> QED BY <2>1, LongerWire DEF Begin, Waiting
  <1>8. CASE Apply \/ SendSave
    <2>1. request \in [revision : Configurations, want : Values] /\ wire = <<>>
      BY <1>8 DEF Apply, SendSave, TypeOK, WireInv
    <2>2. PICK m \in Messages :
              /\ Write(m) \/ Broken(m)
              /\ \/ m.what = "set" /\ pc = "apply" /\ pc' \in {"ask_readback", "finish"}
                 \/ m.what = "save" /\ pc = "save" /\ pc' \in {"ask_after", "finish"}
      <3>1. Set(request.want) \in Messages /\ Persist \in Messages
        BY <2>1, MessageTypes
      <3>2. Set(request.want).what = "set" /\ Persist.what = "save"
        BY DEF Set, Persist
      <3> QED BY <1>8, <3>1, <3>2 DEF Apply, SendSave, At, Finish
    <2>3. CASE wire' = Append(wire, m)
      BY <2>1, <2>2, <2>3, LongerWire DEF Write, Broken, Waiting
    <2>4. CASE wire' = wire
      <3>1. answers' = <<>>
        BY <2>2 DEF WireInv, Write, Broken, Waiting
      <3> QED BY <2>1, <2>4, <3>1, ClearedWire
    <2> QED BY <2>2, <2>3, <2>4 DEF Write, Broken
  <1>9. ASSUME NEW p \in {"readback", "after"}, Ask(p) PROVE WireInv'
    <2>1. pc = Asks[p] /\ pc \in {"ask_readback", "ask_after"}
      BY <1>9 DEF Ask, Asks
    <2>2. CASE Write(Query) /\ pc' = p
      <3>1. Query \in Messages /\ Query.what = "query"
        BY MessageTypes DEF Query
      <3> QED BY <2>1, <2>2, <3>1, LongerWire DEF Write, Waiting, Asks
    <2>3. CASE UNCHANGED link /\ pc' = "finish"
      BY <2>1, <2>3, LeftWire DEF Waiting
    <2> QED BY <1>9, <2>2, <2>3 DEF Ask, At, Finish
  <1>10. CASE UNCHANGED vars
    BY <1>10 DEF vars, device, link, worker, WireInv
  <1> QED BY <1>1, <1>2, <1>3, <1>4, <1>5, <1>6, <1>7, <1>8, <1>9, <1>10 DEF Next, Save

LEMMA SavedStep ==
    ASSUME TypeOK, AttemptInv, WireInv, SavedInv, [Next]_vars
    PROVE  SavedInv'
  <1>1. CASE Printer
    <2>1. UNCHANGED <<pc, report, request>> /\ wire # <<>>
      BY <1>1 DEF Printer, worker
    <2>2. CASE pc \in {"ask_after", "after"}
      <3>1. wire[1].what \in {"save", "query"} /\ Head(wire) = wire[1]
        BY <2>2, <1>1, PrinterFacts DEF WireInv
      <3>2. CASE wire[1].what = "save"
        BY <1>1, <2>1, <2>2, <3>1, <3>2 DEF Printer, SavedInv, Before
      <3>3. CASE wire[1].what = "query"
        BY <1>1, <2>1, <2>2, <3>1, <3>3 DEF Printer, SavedInv, Before, device
      <3> QED BY <3>1, <3>2, <3>3
    <2>3. CASE pc \notin {"ask_after", "after"}
      BY <2>1, <2>3 DEF SavedInv
    <2> QED BY <2>2, <2>3
  <1>2. CASE PowerCycle
    BY <1>2 DEF PowerCycle, worker, SavedInv
  <1>3. CASE \/ RunJob \/ ReadDevice \/ ReadEnds \/ BeginSave \/ RefuseSave \/ CheckRevision
             \/ Crash \/ FinishAttempt
    <2>1. pc' \in {"idle", "read", "before", "open"}
      BY <1>3 DEF RunJob, ReadDevice, ReadEnds, BeginSave, RefuseSave, CheckRevision, Crash,
         FinishAttempt, Done, At, worker
    <2> QED BY <2>1 DEF SavedInv, Before
  <1>4. CASE OpenAttempt
    <2>1. pc' = "idle" \/ (pc' = "apply" /\ report' = "in_progress")
      BY <1>4 DEF OpenAttempt, Done, At
    <2> QED BY <2>1 DEF SavedInv, Before
  <1>5. CASE Apply
    <2>1. \/ pc' = "ask_readback" /\ report' = report /\ pc = "apply"
          \/ pc' = "finish" /\ report' = "apply_outcome_unknown"
      BY <1>5 DEF Apply, Finish, At
    <2> QED BY <2>1 DEF SavedInv, Before
  <1>6. CASE Arm
    <2>1. pc' \in {"save", "finish"} /\ report' = "save_outcome_unknown"
      BY <1>6 DEF Arm, At
    <2> QED BY <2>1 DEF SavedInv, Before
  <1>7. CASE SendSave
    <2>1. pc = "save" /\ report = "save_outcome_unknown" /\ wire = <<>> /\ report' = report
      BY <1>7 DEF SendSave, Finish, AttemptInv, Armed, WireInv
    <2>2. \/ pc' = "ask_after" /\ wire' = Append(wire, Persist)
          \/ pc' = "finish"
      BY <1>7 DEF SendSave, Write, Finish, At
    <2>3. CASE pc' = "ask_after" /\ wire' = Append(wire, Persist)
      <3>1. wire' # <<>> /\ wire'[1] = Persist
        BY <2>1, <2>3, AppendFacts
      <3>2. Persist.what = "save"
        BY DEF Persist
      <3> QED BY <2>1, <2>3, <3>1, <3>2 DEF SavedInv, Before
    <2> QED BY <2>1, <2>2, <2>3 DEF SavedInv, Before
  <1>8. ASSUME NEW p \in {"readback", "after"}, Ask(p) \/ NoAnswer(p) PROVE SavedInv'
    <2>1. report # "save_sent_active_verified" /\ Failed # "save_sent_active_verified"
      <3>1. pc \in Before \cup Armed
        BY <1>8 DEF Ask, Asks, NoAnswer, Before, Armed
      <3> QED BY <3>1 DEF SavedInv, AttemptInv, Failed
    <2>2. CASE pc' = "finish" /\ report' = Failed
      BY <2>1, <2>2 DEF SavedInv, Before
    <2>3. CASE Ask(p) /\ pc' = p /\ Write(Query) /\ report' = report
      <3>1. pc = Asks[p] /\ nvm' = nvm /\ active' = active /\ wire' = Append(wire, Query)
        BY <2>3 DEF Ask, device, Write
      <3>2. CASE p = "readback"
        BY <2>3, <3>1, <3>2 DEF SavedInv, Before, Asks
      <3>3. CASE p = "after"
        <4>1. ASSUME wire'[1].what # "save", wire # <<>> PROVE wire[1].what # "save"
          BY <3>1, <4>1, AppendFacts
        <4> QED BY <2>3, <3>1, <3>3, <4>1, AppendFacts DEF SavedInv, Before, Asks
      <3> QED BY <3>2, <3>3
    <2> QED BY <1>8, <2>2, <2>3 DEF Ask, NoAnswer, Finish, At
  <1>9. CASE ReadBack
    <2>1. pc = "readback" /\ \/ pc' = "arm" /\ report' = report
                             \/ pc' = "finish" /\ report' = "not_saved"
      BY <1>9 DEF ReadBack, Finish, At
    <2> QED BY <2>1 DEF SavedInv, Before
  <1>10. CASE Confirm
    <2>1. PICK k \in 1..Len(answers) :
            /\ Hear(k)
            /\ pc' = "finish" /\ request' = request
            /\ report' = IF Heard(k).asked = request.want THEN "save_sent_active_verified"
                                                          ELSE report
      BY <1>10 DEF Confirm, Finish, At
    <2>2. /\ wire = <<>> /\ wire' = <<>> /\ Heard(k) = active
      BY <2>1, HearFacts
    <2>3. nvm = active /\ nvm' = nvm /\ report = "save_outcome_unknown"
      BY <1>10, <2>2 DEF Confirm, SavedInv, AttemptInv, Armed, device
    <2> QED BY <2>1, <2>2, <2>3 DEF SavedInv, Before
  <1>11. CASE UNCHANGED vars
    BY <1>11 DEF vars, device, link, worker, SavedInv
  <1> QED BY <1>1, <1>2, <1>3, <1>4, <1>5, <1>6, <1>7, <1>8, <1>9, <1>10, <1>11 DEF Next, Save

\* Power is never restored in the count.
LEMMA PowerFalls ==
    ASSUME TypeOK, NEW kind \in {"op", "crash", "fault", "link"}, NEW n \in Nat, Spend(kind, n)
    PROVE  budget'.power = budget.power
  BY DEF TypeOK, Spend

\* Steps that change no setting.
LEMMA SettledPower ==
    ASSUME TypeOK, PowerInv, budget'.power = budget.power, active' = active,
           \A i \in 1..Len(wire') : wire'[i].what = "save" =>
               i \in 1..Len(wire) /\ wire'[i] = wire[i],
           \/ pc' \in {"open", "apply", "ask_readback", "readback"} /\
                request' = request /\ pc \in {"open", "apply", "ask_readback", "readback"}
           \/ pc' = "save" /\ request' = request /\ pc = "arm"
           \/ pc' = pc /\ request' = request
           \/ pc' \notin {"open", "apply", "ask_readback", "readback", "arm", "save"}
    PROVE  PowerInv'
  <1>1. budget'.power <= Budget.power /\ (Powered' => Powered)
    BY DEF PowerInv, Powered
  <1>2. ASSUME Powered', NEW i \in 1..Len(wire'), wire'[i].what = "save"
        PROVE  active' = wire'[i].config
    BY <1>1, <1>2 DEF PowerInv
  <1>3. ASSUME Powered', pc' \in {"open", "apply", "ask_readback", "readback"}
        PROVE  active'.rest = request'.revision.rest
    BY <1>1, <1>3 DEF PowerInv
  <1>4. ASSUME Powered', pc' \in {"arm", "save"}
        PROVE  active' = [asked |-> request'.want, rest |-> request'.revision.rest]
    BY <1>1, <1>4 DEF PowerInv
  <1> QED BY <1>1, <1>2, <1>3, <1>4 DEF PowerInv

LEMMA PowerStep ==
    ASSUME TypeOK, AttemptInv, WireInv, PowerInv, ~late', [Next]_vars
    PROVE  PowerInv'
  <1>1. CASE Printer
    <2>1. UNCHANGED <<pc, report, request, budget>> /\ wire # <<>> /\ Head(wire) = wire[1]
      BY <1>1, PrinterFacts DEF Printer, worker
    <2>2. \A i \in 1..Len(wire') : i + 1 \in 1..Len(wire) /\ wire'[i].what # "save"
      <3>1. ASSUME NEW i \in 1..Len(wire') PROVE i + 1 \in 1..Len(wire) /\ wire'[i].what # "save"
        <4>1. i + 1 \in 1..Len(wire) /\ i + 1 # 1 /\ wire'[i] = wire[i + 1]
          BY <1>1, PrinterFacts
        <4> QED BY <4>1 DEF WireInv
      <3> QED BY <3>1
    <2>3. CASE pc \in {"open", "apply", "arm", "save"}
      BY <2>1, <2>3 DEF WireInv
    <2>4. CASE pc \in {"ask_readback", "readback"}
      <3>1. wire[1].what \in {"set", "query"}
        BY <1>1, <2>4, PrinterFacts DEF WireInv
      <3>2. active'.rest = active.rest
        BY <1>1, <2>1, <3>1 DEF Printer, device, TypeOK, Configurations
      <3> QED BY <2>1, <2>2, <2>4, <3>2 DEF PowerInv, Powered
    <2>5. CASE pc \notin {"open", "apply", "ask_readback", "readback", "arm", "save"}
      BY <2>1, <2>2, <2>5 DEF PowerInv, Powered
    <2> QED BY <2>3, <2>4, <2>5
  <1>2. CASE PowerCycle
    <2>1. budget'.power = budget.power - 1 /\ budget.power \in Nat /\ Budget.power \in Nat
      BY <1>2, BudgetAssumption DEF PowerCycle, Spend, TypeOK
    <2>2. budget'.power < Budget.power
      BY <2>1 DEF PowerInv
    <2> QED BY <2>1, <2>2, BudgetAssumption DEF PowerInv, Powered
  <1>3. ASSUME ~Printer, ~PowerCycle PROVE active' = active /\ budget'.power = budget.power
    <2>1. active' = active
      BY <1>3 DEF Next, Save, RunJob, ReadDevice, ReadEnds, BeginSave, RefuseSave, CheckRevision,
         OpenAttempt, Apply, Ask, NoAnswer, ReadBack, Arm, SendSave, Confirm, FinishAttempt,
         Crash, vars, device
    <2>2. \/ budget' = budget \/ \E kind \in {"op", "crash", "fault", "link"} : Spend(kind, 1)
          \/ \E o \in Outcomes : Spend("fault", Faults(o))
      BY <1>3 DEF Next, Save, RunJob, ReadDevice, ReadEnds, BeginSave, RefuseSave, CheckRevision,
         OpenAttempt, Apply, Ask, NoAnswer, ReadBack, Arm, SendSave, Confirm, FinishAttempt,
         Crash, Broken, vars
    <2> QED BY <2>1, <2>2, PowerFalls, FaultsType
  <1>4. CASE \/ ReadEnds \/ RefuseSave \/ Crash
             \/ \E p \in {"readback", "after"} : NoAnswer(p)
    <2>1. pc' \in {"idle", "finish"} /\ (HangUp \/ \E k \in 1..Len(answers) : Hear(k))
      BY <1>4 DEF ReadEnds, RefuseSave, Crash, NoAnswer, Done, Finish, At
    <2>2. \A i \in 1..Len(wire') : i \in 1..Len(wire) /\ wire'[i] = wire[i]
      BY <2>1, HangUpFacts, HearFacts DEF TypeOK
    <2>3. (~Printer /\ ~PowerCycle) \/ Printer \/ PowerCycle
      OBVIOUS
    <2> QED BY <1>1, <1>2, <1>3, <2>1, <2>2, <2>3, SettledPower
  <1>5. CASE CheckRevision
    <2>1. PICK k \in 1..Len(answers) : Hear(k) /\ Mark(k) = request.revision
      BY <1>5 DEF CheckRevision
    <2>2. request.revision = active /\ wire' = <<>>
      BY <2>1, HearFacts DEF Mark, Heard
    <2>3. request' = request /\ pc' = "open"
      BY <1>5 DEF CheckRevision, At
    <2> QED BY <1>1, <1>2, <1>3, <2>2, <2>3 DEF PowerInv, Powered
  <1>6. CASE ReadBack
    <2>1. PICK k \in 1..Len(answers) :
            /\ Hear(k) /\ request' = request /\ pc = "readback"
            /\ IF Heard(k).asked = request.want THEN pc' = "arm" ELSE pc' = "finish"
      BY <1>6 DEF ReadBack, At, Finish
    <2>2. Heard(k) = active /\ wire' = <<>>
      BY <2>1, HearFacts
    <2>3. CASE pc' = "arm"
      <3>1. active.asked = request.want
        BY <2>1, <2>2, <2>3
      <3>2. active = [asked |-> active.asked, rest |-> active.rest]
        BY DEF TypeOK, Configurations
      <3> QED BY <1>1, <1>2, <1>3, <2>1, <2>2, <2>3, <3>1, <3>2 DEF PowerInv, Powered
    <2>4. CASE pc' = "finish"
      BY <1>1, <1>2, <1>3, <2>2, <2>4 DEF PowerInv, Powered
    <2> QED BY <2>1, <2>3, <2>4
  <1>7. CASE Confirm
    <2>1. wire' = <<>> /\ pc' = "finish"
      BY <1>7, HearFacts DEF Confirm, Finish, At
    <2> QED BY <1>1, <1>2, <1>3, <2>1 DEF PowerInv, Powered
  <1>8. CASE SendSave
    <2>1. pc = "save" /\ wire = <<>> /\ request' = request /\ pc' \in {"ask_after", "finish"}
      BY <1>8 DEF SendSave, WireInv, Finish, At
    <2>2. wire' = wire \/ wire' = Append(wire, Persist)
      BY <1>8 DEF SendSave, Write, Broken
    <2>3. Powered => active = Persist.config
      BY <2>1 DEF PowerInv, Persist
    <2>4. \A i \in 1..Len(wire') : wire'[i] = Persist
      BY <2>1, <2>2, AppendFacts
    <2> QED BY <1>1, <1>2, <1>3, <2>1, <2>3, <2>4 DEF PowerInv, Powered
  <1>9. CASE \/ RunJob \/ ReadDevice \/ BeginSave \/ OpenAttempt \/ Apply \/ Arm
             \/ FinishAttempt \/ UNCHANGED vars \/ \E p \in {"readback", "after"} : Ask(p)
    <2>1. \/ wire' = wire
          \/ \E m : m.what # "save" /\ wire' = Append(wire, m)
      BY <1>9 DEF RunJob, ReadDevice, BeginSave, OpenAttempt, Apply, Arm, FinishAttempt, Ask,
         Begin, Write, Broken, Job, Query, Set, link, vars
    <2>2. \A i \in 1..Len(wire') : wire'[i].what = "save" => i \in 1..Len(wire) /\ wire'[i] = wire[i]
      <3>1. CASE wire' = wire
        BY <3>1
      <3>2. ASSUME NEW m, m.what # "save", wire' = Append(wire, m)
            PROVE \A i \in 1..Len(wire') : wire'[i].what = "save" => i \in 1..Len(wire) /\ wire'[i] = wire[i]
        <4>1. \A i \in 1..Len(wire') : i \in 1..Len(wire) \/ i = Len(wire) + 1
          BY <3>2, AppendFacts
        <4> QED BY <3>2, <4>1, AppendFacts
      <3> QED BY <2>1, <3>1, <3>2
    <2>3. \/ pc' \in {"open", "apply", "ask_readback", "readback"} /\
                request' = request /\ pc \in {"open", "apply", "ask_readback", "readback"}
          \/ pc' = "save" /\ request' = request /\ pc = "arm"
          \/ pc' = pc /\ request' = request
          \/ pc' \notin {"open", "apply", "ask_readback", "readback", "arm", "save"}
      BY <1>9 DEF RunJob, ReadDevice, BeginSave, OpenAttempt, Apply, Arm, FinishAttempt, Ask, Asks,
         At, Finish, Done, vars, worker
    <2> QED BY <1>1, <1>2, <1>3, <2>2, <2>3, SettledPower
  <1> QED BY <1>1, <1>2, <1>4, <1>5, <1>6, <1>7, <1>8, <1>9 DEF Next, Save

-----------------------------------------------------------------------------

\* On a link that nobody has left an answer on, and at the start of an operation
\* that finds the link silent, whatever was left there before.
Fresh == ~late \/ (pc = "idle" /\ wire = <<>> /\ answers = <<>>)

\* A connection that is closed takes its late answer with it.
Traceless == late => keepsAnswers

SettingsInv ==
    /\ TypeOK /\ AttemptInv
    /\ budget.power <= Budget.power
    /\ Traceless
    /\ ~late => WireInv /\ SavedInv /\ PowerInv

LEMMA FreshInv == SettingsInv /\ Fresh => WireInv /\ SavedInv /\ PowerInv
  <1> SUFFICES ASSUME SettingsInv, late, pc = "idle", wire = <<>>, answers = <<>>
               PROVE  WireInv /\ SavedInv /\ PowerInv
    BY DEF SettingsInv, Fresh
  <1> QED BY DEF SettingsInv, WireInv, SavedInv, PowerInv, Before

\* Only the start of an operation forgets what was left.
LEMMA OnlyFresh ==
    ASSUME TypeOK, [Next]_vars, ~late'
    PROVE  Fresh
  <1>1. CASE RunJob \/ ReadDevice \/ BeginSave
    <2>1. pc = "idle" /\ \E m : Begin(m)
      BY <1>1 DEF RunJob, ReadDevice, BeginSave
    <2> QED BY <2>1, Zenon DEF Begin, Fresh
  <1>2. CASE \/ ReadEnds \/ RefuseSave \/ Crash
             \/ \E p \in {"readback", "after"} : NoAnswer(p)
    <2>1. HangUp \/ \E k \in 1..Len(answers) : Hear(k)
      BY <1>2 DEF ReadEnds, RefuseSave, Crash, NoAnswer
    <2> QED BY <2>1, Zenon DEF HangUp, Hear, Fresh
  <1>3. CASE \/ Printer \/ PowerCycle \/ CheckRevision \/ OpenAttempt \/ Apply \/ ReadBack \/ Arm
             \/ SendSave \/ Confirm \/ FinishAttempt \/ UNCHANGED vars
             \/ \E p \in {"readback", "after"} : Ask(p)
    <2>1. late' = late
      BY <1>3 DEF Printer, PowerCycle, CheckRevision, OpenAttempt, Apply, ReadBack, Arm, SendSave,
         Confirm, FinishAttempt, Ask, Hear, Write, Broken, link, vars
    <2> QED BY <2>1 DEF Fresh
  <1> QED BY <1>1, <1>2, <1>3 DEF Next, Save

LEMMA PowerBound ==
    ASSUME TypeOK, budget.power <= Budget.power, [Next]_vars
    PROVE  budget'.power <= Budget.power
  <1>1. budget.power \in Nat /\ Budget.power \in Nat
    BY BudgetAssumption DEF TypeOK
  <1>2. CASE PowerCycle
    BY <1>1, <1>2 DEF PowerCycle, Spend, TypeOK
  <1>3. CASE ~PowerCycle
    <2>1. \/ budget' = budget \/ \E kind \in {"op", "crash", "fault", "link"} : Spend(kind, 1)
          \/ \E o \in Outcomes : Spend("fault", Faults(o))
      BY <1>3 DEF Next, Save, RunJob, ReadDevice, ReadEnds, BeginSave, RefuseSave, CheckRevision,
         OpenAttempt, Apply, Ask, NoAnswer, ReadBack, Arm, SendSave, Confirm, FinishAttempt,
         Crash, Broken, Printer, vars
    <2> QED BY <2>1, PowerFalls, FaultsType
  <1> QED BY <1>2, <1>3

LEMMA TracelessStep ==
    ASSUME Traceless, [Next]_vars
    PROVE  Traceless'
  <1>1. keepsAnswers' = keepsAnswers
    BY DEF Next, Save, RunJob, ReadDevice, ReadEnds, BeginSave, RefuseSave, CheckRevision,
       OpenAttempt, Apply, Ask, NoAnswer, ReadBack, Arm, SendSave, Confirm, FinishAttempt,
       Crash, PowerCycle, Printer, vars
  <1>2. \/ late' = late \/ HangUp \/ \E m : Begin(m)
    BY DEF Next, Save, RunJob, ReadDevice, ReadEnds, BeginSave, RefuseSave, CheckRevision,
       OpenAttempt, Apply, Ask, NoAnswer, ReadBack, Arm, SendSave, Confirm, FinishAttempt,
       Crash, PowerCycle, Printer, Hear, Write, Broken, link, vars
  <1> QED BY <1>1, <1>2, Zenon DEF HangUp, Begin, Traceless

LEMMA Silent == Traceless /\ Undisturbed => ~late
  BY Zenon DEF Traceless, Undisturbed

LEMMA SettingsInit == Init => SettingsInv
  <1> SUFFICES ASSUME Init PROVE SettingsInv
    OBVIOUS
  <1>1. budget.power = Budget.power /\ Budget.power \in Nat
    BY BudgetAssumption DEF Init
  <1>2. Traceless
    BY Zenon DEF Init, Traceless
  <1> QED BY <1>1, <1>2, TypeInit, AttemptInit
          DEF Init, SettingsInv, WireInv, SavedInv, PowerInv, Before

LEMMA SettingsStep == SettingsInv /\ [Next]_vars => SettingsInv'
  <1> SUFFICES ASSUME SettingsInv, [Next]_vars PROVE SettingsInv'
    OBVIOUS
  <1>1. TypeOK' /\ AttemptInv' /\ budget'.power <= Budget.power
    BY TypeStep, AttemptStep, PowerBound DEF SettingsInv
  <1>2. ASSUME ~late' PROVE WireInv' /\ SavedInv' /\ PowerInv'
    <2>1. TypeOK /\ AttemptInv /\ WireInv /\ SavedInv /\ PowerInv
      BY <1>2, OnlyFresh, FreshInv DEF SettingsInv
    <2> QED BY <1>2, <2>1, WireStep, SavedStep, PowerStep
  <1>3. Traceless'
    BY TracelessStep DEF SettingsInv
  <1> QED BY <1>1, <1>2, <1>3 DEF SettingsInv

\* As long as no query was given up, an answer is what is in force with nothing else
\* on the way, and ^JUS is the first message there and finds what was acknowledged; on
\* every transport, and again once an operation finds the link silent.
THEOREM SettingsInvariant == Spec => []SettingsInv
  BY SettingsInit, SettingsStep, PTL DEF Spec

\* What the printer saves, on a link where nothing was left.
LEMMA SavedFresh ==
    ASSUME SettingsInv, [Next]_vars, nvm' # nvm, budget.power = Budget.power, ~late
    PROVE  wire # <<>> /\ Head(wire).what = "save" /\ nvm' = Head(wire).config
  <1>1. Printer
    BY DEF Next, Save, RunJob, ReadDevice, ReadEnds, BeginSave, RefuseSave, CheckRevision,
       OpenAttempt, Apply, Ask, NoAnswer, ReadBack, Arm, SendSave, Confirm, FinishAttempt,
       Crash, PowerCycle, vars, device
  <1>2. wire # <<>> /\ Head(wire) = wire[1] /\ 1 \in 1..Len(wire)
    BY <1>1, PrinterFacts DEF SettingsInv
  <1>3. Head(wire).what = "save" /\ nvm' = active
    BY <1>1 DEF Printer, device
  <1> QED BY <1>2, <1>3 DEF SettingsInv, PowerInv, Powered

LEMMA VerifiedFresh ==
    ASSUME SettingsInv, [Next]_vars, attempt' # attempt,
           attempt'.state = "save_sent_active_verified", ~late
    PROVE  nvm.asked = attempt'.want
  <1>1. OpenAttempt \/ Arm \/ FinishAttempt
    BY DEF Next, Save, RunJob, ReadDevice, ReadEnds, BeginSave, RefuseSave, CheckRevision,
       Apply, Ask, NoAnswer, ReadBack, SendSave, Confirm, Crash, PowerCycle, Printer, vars
  <1>2. PICK n, state, o :
          /\ Record(n, state, o)
          /\ state \in {"in_progress", "save_outcome_unknown"} \/ (pc = "finish" /\ state = report)
    BY <1>1 DEF OpenAttempt, Arm, FinishAttempt
  <1>3. attempt'.want = request.want /\ attempt'.state = state
    BY <1>2 DEF Record
  <1> QED BY <1>2, <1>3 DEF SettingsInv, SavedInv

\* Over TCP always, and on a device as long as no query was given up, or an operation
\* found the link silent again: what the printer saves is what the user acknowledged
\* with the one setting asked for, unless it loses power.
THEOREM SavedOnAnyTransport == Spec => SavedUnlessLate
  <1>1. SettingsInv /\ [Next]_vars =>
          [nvm' # nvm /\ budget.power = Budget.power /\ Undisturbed =>
              wire # <<>> /\ Head(wire).what = "save" /\ nvm' = Head(wire).config]_vars
    <2> SUFFICES ASSUME SettingsInv, [Next]_vars, nvm' # nvm, budget.power = Budget.power,
                        Undisturbed
                 PROVE  wire # <<>> /\ Head(wire).what = "save" /\ nvm' = Head(wire).config
      OBVIOUS
    <2>1. ~late
      BY Silent DEF SettingsInv
    <2> QED BY <2>1, SavedFresh
  <1> QED BY <1>1, SettingsInvariant, PTL DEF Spec, SavedUnlessLate

\* And then a save that is reported as verified is in nonvolatile memory, although the
\* printer may have lost power, and with it ^JUS, on the way.
THEOREM VerifiedOnAnyTransport == Spec => VerifiedUnlessLate
  <1>1. SettingsInv /\ [Next]_vars =>
          [attempt' # attempt /\ attempt'.state = "save_sent_active_verified" /\ Undisturbed
              => nvm.asked = attempt'.want]_vars
    <2> SUFFICES ASSUME SettingsInv, [Next]_vars, attempt' # attempt,
                        attempt'.state = "save_sent_active_verified", Undisturbed
                 PROVE  nvm.asked = attempt'.want
      OBVIOUS
    <2>1. ~late
      BY Silent DEF SettingsInv
    <2> QED BY <2>1, VerifiedFresh
  <1> QED BY <1>1, SettingsInvariant, PTL DEF Spec, VerifiedUnlessLate
=============================================================================
