--------------------------- MODULE PrintJobsProofs ---------------------------
(* The type invariant and the safety of the paper, for any number of jobs,
   printers, crashes, disk faults, disconnects and operator commands.        *)
EXTENDS PrintJobs, FiniteSetTheorems, SequenceTheorems, TLAPS

-----------------------------------------------------------------------------
(* Facts about the operators of the model. *)

\* A job belongs to a printer.
LEMMA PrinterType ==
    ASSUME TypeOK, NEW r \in Jobs
    PROVE  /\ Printer(r) \in Printers
           /\ req[r].api \in {"v1", "v2"}
           /\ Hold(r) \in BOOLEAN
  BY RequestsAssumption DEF TypeOK, TypeRecords, Printer, Hold

\* Spending keeps the budget a record of naturals.
LEMMA SpendType ==
    ASSUME TypePaper, NEW kind \in {"crash", "fault", "drop", "control", "read"}, NEW n \in Nat,
           Spend(kind, n)
    PROVE  budget' \in [{"crash", "fault", "drop", "control", "read"} -> Nat]
  BY DEF TypePaper, Spend

\* So does a scan that skips records, in a step that may fail.
LEMMA SpendBothType ==
    ASSUME TypePaper, NEW faults \in Nat, NEW skips \in Nat, SpendBoth(faults, skips)
    PROVE  budget' \in [{"crash", "fault", "drop", "control", "read"} -> Nat]
<1> DEFINE kinds == {"crash", "fault", "drop", "control", "read"}
<1>1. /\ budget \in [kinds -> Nat]
      /\ budget["fault"] - faults \in Nat /\ budget["read"] - skips \in Nat
  BY DEF TypePaper, SpendBoth
<1>2. budget' = [k \in kinds |-> CASE k = "fault" -> budget["fault"] - faults
                                   [] k = "read" -> budget["read"] - skips
                                   [] OTHER -> budget[k]]
  BY <1>1 DEF SpendBoth
<1> QED BY <1>1, <1>2

\* A scan passes over a number of records.
LEMMA SkipsType == \A S \in SUBSET Jobs : IsFiniteSet(S) /\ Cardinality(S) \in Nat
  BY JobsAssumption, FS_Subset, FS_CardinalityType

\* A fault costs one or nothing.
LEMMA FaultsType == \A o \in Outcomes : Faults(o) \in Nat
  BY DEF Faults, Outcomes

\* The records the model writes are records.
LEMMA RecType ==
    /\ Absent \in Records
    /\ \A state \in States, sha \in BOOLEAN : Rec(state, sha) \in Records
  BY DEF Absent, Records, Rec, States, Active, Terminal

\* Writing a record changes that record only.
LEMMA WriteJobType ==
    ASSUME job \in [Jobs -> Records], NEW r \in Jobs, NEW rec \in Records,
           NEW o \in Outcomes, WriteJob(r, rec, o)
    PROVE  /\ job' \in [Jobs -> Records]
           /\ \A s \in Jobs : s # r => job'[s] = job[s]
           /\ job'[r] = IF Landed(o) THEN rec ELSE job[r]
           /\ job' = [job EXCEPT ![r] = job'[r]]
  BY DEF WriteJob

-----------------------------------------------------------------------------
(* A step of the handler of job r, seen from the invariant: its own record
   and its own position change, and the rest of the system stands still.     *)

OwnRecordOnly(r) ==
    /\ chan' = chan /\ hpc[r] # "done"
    /\ \A s \in Jobs : s # r => hpc'[s] = hpc[s] /\ job'[s] = job[s]
    /\ job'[r] # job[r] =>
        /\ Loose(r)
        /\ job[r].state \in {"absent", "receiving", "held", "queued"}
        /\ job'[r].state \in {"absent", "receiving", "held", "queued", "failed"}
    /\ HandlerAt(r)'

\* Such a step keeps every part of the inductive invariant.
LEMMA HandlerFrame ==
    ASSUME IInv, TypeOK', Handler, NEW r \in Jobs, OwnRecordOnly(r)
    PROVE  IInv'
<1> USE DEF IInv, Handler, OwnRecordOnly, loopVars, workVars, paperVars
<1>1. HandlerInv'
  <2> SUFFICES ASSUME NEW s \in Jobs, s # r PROVE HandlerAt(s)'
    BY DEF HandlerInv
  <2>1. HandlerAt(s) /\ hpc'[s] = hpc[s] /\ job'[s] = job[s]
    BY DEF HandlerInv, TypeOK, TypeRecords, TypeHandlers
  <2> QED BY <2>1 DEF HandlerAt, Loose, InQueue, InHand, InChannel, Waiting, Hold
<1>2. ChannelInv'
  <2> SUFFICES ASSUME NEW p \in Printers, NEW s \in Jobs, NEW i \in DOMAIN chan[p],
                      chan[p][i] = Enq(s)
               PROVE  /\ p = Printer(s) /\ job'[s].state = "queued" /\ reply[s] = "none"
                      /\ hpc'[s] \in {"await", "done"}
                      /\ ~InQueue(s) /\ ~InHand(s)
                      /\ \A k \in DOMAIN chan[p] : chan[p][k] = Enq(s) => k = i
    BY DEF ChannelInv, Printer, InQueue, InHand, Waiting
  <2>1. /\ p = Printer(s) /\ job[s].state = "queued" /\ reply[s] = "none"
        /\ hpc[s] \in {"await", "done"}
        /\ ~InQueue(s) /\ ~InHand(s)
        /\ \A k \in DOMAIN chan[p] : chan[p][k] = Enq(s) => k = i
    BY DEF ChannelInv
  <2>2. InChannel(s)
    BY DEF InChannel
  <2>3. CASE s # r
    BY <2>1, <2>3 DEF TypeOK, TypeRecords, TypeHandlers
  <2>4. CASE s = r
    <3>1. ~Loose(r)
      BY <2>2, <2>4 DEF Loose
    <3>2. job'[r] = job[r]
      BY <3>1 DEF TypeOK, TypeRecords
    <3>3. hpc[r] = "await" /\ hpc'[r] \in {"await", "done"}
      <4>1. reply'[r] = "none"
        BY <2>1, <2>4
      <4>2. ~Loose(r)'
        BY <3>1 DEF Loose, InQueue, InHand, InChannel, Waiting, Enq
      <4> QED BY <2>1, <2>4, <4>1, <4>2 DEF HandlerAt
    <3> QED BY <2>1, <2>4, <3>2, <3>3 DEF TypeOK, TypeHandlers
  <2> QED BY <2>3, <2>4
<1>3. QueueInv'
  <2> SUFFICES ASSUME NEW p \in Printers, NEW i \in DOMAIN queue[p]
               PROVE  /\ p = Printer(queue[p][i])
                      /\ job'[queue[p][i]].state \in {"queued", "cancelled"}
                      /\ \A k \in DOMAIN queue[p] : queue[p][k] = queue[p][i] => k = i
    BY DEF QueueInv, Printer
  <2>1. queue[p][i] \in Jobs /\ ~Loose(queue[p][i])
    BY DEF Loose, InQueue, Waiting, TypeOK, TypeQueues
  <2>2. job'[queue[p][i]] = job[queue[p][i]]
    BY <2>1 DEF TypeOK, TypeRecords
  <2> QED BY <2>2 DEF QueueInv
<1>4. WorkerInv'
  <2> SUFFICES ASSUME NEW p \in Printers, cur[p] # None
               PROVE  /\ Printer(cur[p])' = Printer(cur[p])
                      /\ job'[cur[p]] = job[cur[p]]
                      /\ InQueue(cur[p])' = InQueue(cur[p])
    BY DEF WorkerInv, WorkerAt
  <2>1. cur[p] \in Jobs /\ ~Loose(cur[p])
    BY DEF Loose, InHand, TypeOK, TypeWorkers
  <2>2. job'[cur[p]] = job[cur[p]]
    BY <2>1 DEF TypeOK, TypeRecords
  <2> QED BY <2>2 DEF Printer, InQueue, Waiting
<1>5. DownInv'
  BY DEF DownInv
<1>6. SentOnce' /\ RecordHonest'
  <2>1. SentOnce'
    BY DEF SentOnce
  <2>2. ASSUME NEW s \in Jobs
        PROVE  /\ sent[s] > 0 => job'[s].state \in {"writing", "transport_accepted",
                                                    "outcome_unknown"}
               /\ job'[s].state = "transport_accepted" => whole[s]
    BY DEF RecordHonest, TypeOK, TypeRecords
  <2> QED BY <2>1, <2>2 DEF RecordHonest
<1> QED BY <1>1, <1>2, <1>3, <1>4, <1>5, <1>6 DEF IInv

-----------------------------------------------------------------------------
(* Every handler step but Enqueue changes its own record and position only.  *)

\* created_at is a time.
LEMMA CreatedType ==
    ASSUME birth \in [Jobs -> Nat], NEW r \in Jobs, Created(r)
    PROVE  birth' \in [Jobs -> Nat]
  <1>1. Cardinality({s \in Jobs : birth[s] > 0}) \in Nat
    BY JobsAssumption, FS_Subset, FS_CardinalityType
  <1> QED BY <1>1 DEF Created

\* Being queued, in hand or in a channel is none of the handler's doing.
LEMMA LooseStable ==
    ASSUME Handler, chan' = chan, NEW r \in Jobs
    PROVE  Loose(r)' = Loose(r)
  BY DEF Handler, Loose, InQueue, InHand, InChannel, Waiting, loopVars, workVars

\* Where a handler goes, with or without an answer.
LEMMA GotoType ==
    ASSUME TypeHandlers, NEW r \in Jobs, NEW pc \in HandlerPCs, Goto(r, pc)
    PROVE  /\ hpc' \in [Jobs -> HandlerPCs] /\ hpc' = [hpc EXCEPT ![r] = pc]
           /\ lock' \in Jobs \cup {None}
           /\ answer' \in [Jobs -> [kind : AnswerKinds, job : Jobs]]
  BY DEF Goto, TypeHandlers

LEMMA AnswerType ==
    ASSUME TypeHandlers, NEW r \in Jobs, NEW kind \in AnswerKinds, NEW j \in Jobs,
           Answer(r, kind, j)
    PROVE  /\ hpc' \in [Jobs -> HandlerPCs] /\ hpc' = [hpc EXCEPT ![r] = "done"]
           /\ lock' \in Jobs \cup {None}
           /\ answer' \in [Jobs -> [kind : AnswerKinds, job : Jobs]]
  BY DEF Answer, TypeHandlers, HandlerPCs

\* A handler that writes its record and goes on, or ends.
LEMMA WriteAndMove ==
    ASSUME IInv, Handler, NEW r \in Jobs, hpc[r] # "done", Loose(r),
           NEW rec \in Records, NEW o \in Outcomes, NEW n \in Nat, NEW skips \in Nat,
           Spend("fault", n) \/ SpendBoth(n, skips), WriteJob(r, rec, o),
           NEW pc \in HandlerPCs, NEW kind \in AnswerKinds, NEW j \in Jobs,
           \/ o = "ok" /\ Goto(r, pc)
           \/ Answer(r, kind, j),
           birth' \in [Jobs -> Nat], index' \subseteq Jobs, chan' = chan,
           job[r].state \in {"absent", "receiving", "held", "queued"},
           rec.state \in {"absent", "receiving", "held", "queued", "failed"},
           o = "ok" /\ hpc'[r] = pc /\ job'[r] = rec => HandlerAt(r)' \/ hpc'[r] = "done"
    PROVE  IInv'
<1>1. TypeOK
  BY DEF IInv
<1>2. /\ job' \in [Jobs -> Records]
      /\ \A s \in Jobs : s # r => job'[s] = job[s]
      /\ job'[r] = IF Landed(o) THEN rec ELSE job[r]
  BY <1>1, WriteJobType DEF TypeOK, TypeRecords
<1>3. budget' \in [{"crash", "fault", "drop", "control", "read"} -> Nat]
  BY <1>1, SpendType, SpendBothType DEF TypeOK
<1>4. /\ hpc' \in [Jobs -> HandlerPCs]
      /\ lock' \in Jobs \cup {None}
      /\ answer' \in [Jobs -> [kind : AnswerKinds, job : Jobs]]
      /\ \A s \in Jobs : s # r => hpc'[s] = hpc[s]
      /\ (o = "ok" /\ hpc'[r] = pc) \/ hpc'[r] = "done"
  BY <1>1, GotoType, AnswerType DEF TypeOK, TypeHandlers
<1>5. TypeOK'
  BY <1>1, <1>2, <1>3, <1>4 DEF Handler, loopVars, workVars, paperVars, TypeOK, TypeRecords,
     TypeHandlers, TypeQueues, TypeChannels, TypeWorkers, TypePaper
<1>6. HandlerAt(r)'
  <2>1. CASE hpc'[r] = "done"
    BY <2>1 DEF HandlerAt
  <2>2. CASE hpc'[r] # "done"
    BY <1>2, <1>4, <2>2 DEF Landed
  <2> QED BY <2>1, <2>2
<1>7. OwnRecordOnly(r)
  BY <1>2, <1>4, <1>6 DEF OwnRecordOnly
<1> QED BY <1>5, <1>7, HandlerFrame

\* A v1 handler that withdraws its record, a v2 one that has none.
LEMMA WithdrawSafe ==
    ASSUME IInv, Handler, NEW r \in Jobs, hpc[r] = "check",
           NEW skips \in Nat, Withdraw(r, skips), NEW e \in Jobs, NEW kind \in AnswerKinds, Answer(r, kind, e),
           birth' = birth, index' = index, chan' = chan
    PROVE  IInv'
<1>1. TypeOK /\ HandlerAt(r)
  BY DEF IInv, HandlerInv
<1>2. Loose(r) /\ job[r].state \in {"absent", "receiving"} /\ hpc'[r] = "done"
  BY <1>1 DEF HandlerAt, Answer, TypeOK, TypeHandlers
<1>3. birth' \in [Jobs -> Nat] /\ index' \subseteq Jobs
  BY <1>1 DEF TypeOK, TypeRecords
<1>4. PICK o \in Outcomes : /\ SpendBoth(Faults(o), skips)
                            /\ \/ WriteJob(r, Absent, o)
                               \/ UNCHANGED job
  BY DEF Withdraw
<1>5. job[r] \in Records /\ (UNCHANGED job => WriteJob(r, job[r], o))
  BY <1>1 DEF WriteJob, TypeOK, TypeRecords
<1>6. CASE WriteJob(r, Absent, o)
  BY <1>2, <1>3, <1>4, <1>6, RecType, FaultsType, WriteAndMove DEF Absent, HandlerPCs
<1>7. CASE UNCHANGED job
  BY <1>2, <1>3, <1>4, <1>5, <1>7, FaultsType, WriteAndMove DEF HandlerPCs
<1> QED BY <1>4, <1>6, <1>7

\* The inductive invariant is kept by every handler step but Enqueue.
LEMMA HandlerSafe ==
    ASSUME IInv, NEW r \in Jobs, HandlerStep(r), ~Enqueue(r)
    PROVE  IInv'
<1>1. TypeOK /\ HandlerAt(r)
  BY DEF IInv, HandlerInv
<1>2. Handler => Loose(r)' = Loose(r) \/ chan' # chan
  BY LooseStable
<1> USE DEF HandlerPCs, AnswerKinds
<1>3. CASE V1Create(r)
  <2>1. PICK o \in Outcomes : /\ Spend("fault", Faults(o)) /\ WriteJob(r, Rec("receiving", FALSE), o)
                              /\ IF o = "ok" THEN Goto(r, "upload") ELSE Answer(r, "error", r)
    BY <1>3 DEF V1Create
  <2>2a. Faults(o) \in Nat
    BY FaultsType
  <2>2. Rec("receiving", FALSE) \in Records /\ Faults(o) \in Nat
    BY <2>2a, RecType, FaultsType, <1>1, PrinterType DEF States, Active, Terminal
  <2>3. birth' \in [Jobs -> Nat] /\ index' \subseteq Jobs /\ chan' = chan
    BY <1>1, <1>3, CreatedType DEF V1Create, TypeOK, TypeRecords
  <2>4. Handler /\ Loose(r) /\ Loose(r)' /\ hpc[r] # "done"
    BY <1>1, <1>2, <1>3, <2>3 DEF V1Create, HandlerAt
  <2>5. job[r].state \in {"absent", "receiving", "held", "queued"}
    BY <1>1, <1>3 DEF V1Create, HandlerAt
  <2>6. Rec("receiving", FALSE).state \in {"absent", "receiving", "held", "queued", "failed"}
    BY DEF Rec, Absent
  <2>7. hpc'[r] = "upload" /\ job'[r] = Rec("receiving", FALSE) => HandlerAt(r)'
    BY <1>1, <1>3, <2>4 DEF V1Create, Handler, HandlerAt, Hold, Rec
  <2> QED BY <2>1, <2>2, <2>3, <2>4, <2>5, <2>6, <2>7, WriteAndMove
<1>4. CASE V1Uploaded(r)
  <2>1. TypeOK'
    BY <1>1, <1>4 DEF V1Uploaded, Handler, Goto, Answer, Spend, recordVars, loopVars, workVars,
       paperVars, TypeOK, TypeRecords, TypeHandlers, TypeQueues, TypeChannels, TypeWorkers,
       TypePaper
  <2>2. OwnRecordOnly(r)
    BY <1>1, <1>2, <1>4 DEF OwnRecordOnly, V1Uploaded, Handler, Goto, Answer, recordVars,
       HandlerAt, Hold, TypeOK, TypeHandlers
  <2> QED BY <1>4, <2>1, <2>2, HandlerFrame DEF V1Uploaded
<1>5. CASE V1TooLarge(r)
  <2>1. PICK o \in Outcomes : /\ Spend("fault", Faults(o)) /\ WriteJob(r, Absent, o)
                              /\ Answer(r, "refused", r)
    BY <1>5 DEF V1TooLarge
  <2>2a. Faults(o) \in Nat
    BY FaultsType
  <2>2. Absent \in Records /\ Faults(o) \in Nat
    BY <2>2a, RecType, FaultsType, <1>1, PrinterType DEF States, Active, Terminal
  <2>3. birth' \in [Jobs -> Nat] /\ index' \subseteq Jobs /\ chan' = chan
    BY <1>1, <1>5, CreatedType DEF V1TooLarge, TypeOK, TypeRecords
  <2>4. Handler /\ Loose(r) /\ Loose(r)' /\ hpc[r] # "done"
    BY <1>1, <1>2, <1>5, <2>3 DEF V1TooLarge, HandlerAt
  <2>5. job[r].state \in {"absent", "receiving", "held", "queued"}
    BY <1>1, <1>5 DEF V1TooLarge, HandlerAt
  <2>6. Absent.state \in {"absent", "receiving", "held", "queued", "failed"}
    BY DEF Rec, Absent
  <2>7. hpc'[r] = "done"
    BY <1>1, <2>1 DEF Answer, TypeOK, TypeHandlers
  <2> QED BY <2>1, <2>2, <2>3, <2>4, <2>5, <2>6, <2>7, WriteAndMove
<1>6. CASE V1UploadFailed(r)
  <2>1. PICK o \in Outcomes : /\ Spend("fault", Faults(o)) /\ WriteJob(r, Rec("failed", FALSE), o)
                              /\ Answer(r, "error", r)
    BY <1>6 DEF V1UploadFailed
  <2>2a. Faults(o) \in Nat
    BY FaultsType
  <2>2. Rec("failed", FALSE) \in Records /\ Faults(o) \in Nat
    BY <2>2a, RecType, FaultsType, <1>1, PrinterType DEF States, Active, Terminal
  <2>3. birth' \in [Jobs -> Nat] /\ index' \subseteq Jobs /\ chan' = chan
    BY <1>1, <1>6, CreatedType DEF V1UploadFailed, TypeOK, TypeRecords
  <2>4. Handler /\ Loose(r) /\ Loose(r)' /\ hpc[r] # "done"
    BY <1>1, <1>2, <1>6, <2>3 DEF V1UploadFailed, HandlerAt
  <2>5. job[r].state \in {"absent", "receiving", "held", "queued"}
    BY <1>1, <1>6 DEF V1UploadFailed, HandlerAt
  <2>6. Rec("failed", FALSE).state \in {"absent", "receiving", "held", "queued", "failed"}
    BY DEF Rec, Absent
  <2>7. hpc'[r] = "done"
    BY <1>1, <2>1 DEF Answer, TypeOK, TypeHandlers
  <2> QED BY <2>1, <2>2, <2>3, <2>4, <2>5, <2>6, <2>7, WriteAndMove
<1>7. CASE V2Prepare(r)
  <2>1. TypeOK'
    BY <1>1, <1>7 DEF V2Prepare, Handler, Goto, Answer, Spend, recordVars, loopVars, workVars,
       paperVars, TypeOK, TypeRecords, TypeHandlers, TypeQueues, TypeChannels, TypeWorkers,
       TypePaper
  <2>2. OwnRecordOnly(r)
    BY <1>1, <1>2, <1>7 DEF OwnRecordOnly, V2Prepare, Handler, Goto, Answer, recordVars,
       HandlerAt, Hold, TypeOK, TypeHandlers
  <2> QED BY <1>7, <2>1, <2>2, HandlerFrame DEF V2Prepare
<1>8. CASE AcquireLock(r)
  <2>1. TypeOK'
    BY <1>1, <1>8 DEF AcquireLock, Handler, Goto, Answer, Spend, recordVars, loopVars, workVars,
       paperVars, TypeOK, TypeRecords, TypeHandlers, TypeQueues, TypeChannels, TypeWorkers,
       TypePaper
  <2>2. OwnRecordOnly(r)
    BY <1>1, <1>2, <1>8 DEF OwnRecordOnly, AcquireLock, Handler, Goto, Answer, recordVars,
       HandlerAt, Hold, TypeOK, TypeHandlers
  <2> QED BY <1>8, <2>1, <2>2, HandlerFrame DEF AcquireLock
<1>9. CASE CheckFound(r)
  <2>1. PICK e \in Jobs, kind \in AnswerKinds : Answer(r, kind, e)
    BY <1>9 DEF CheckFound, SameKey
  <2>2. Handler /\ hpc[r] = "check" /\ birth' = birth /\ index' = index /\ chan' = chan /\ Withdraw(r, 0)
    BY <1>9 DEF CheckFound
  <2> QED BY <1>1, <1>2, <2>1, <2>2, WithdrawSafe
<1>10. CASE CheckFull(r)
  <2>1. PICK e \in Jobs, kind \in AnswerKinds : Answer(r, kind, e)
    BY <1>10 DEF CheckFull
  <2>2. Handler /\ hpc[r] = "check" /\ birth' = birth /\ index' = index /\ chan' = chan
      /\ Withdraw(r, Cardinality(SameKey(r)))
    BY <1>10 DEF CheckFull
  <2>3. Cardinality(SameKey(r)) \in Nat
    BY SkipsType DEF SameKey
  <2> QED BY <1>1, <1>2, <2>1, <2>2, <2>3, WithdrawSafe
<1>11. CASE CheckPassed(r)
  <2>0. budget' \in [{"crash", "fault", "drop", "control", "read"} -> Nat]
    <3>1. PICK uncounted \in SUBSET ActiveJobs(Printer(r)) :
            SpendBoth(0, Cardinality(SameKey(r)) + Cardinality(uncounted))
      BY <1>11 DEF CheckPassed
    <3>2. SameKey(r) \in SUBSET Jobs /\ uncounted \in SUBSET Jobs
      BY DEF SameKey, ActiveJobs
    <3>3. Cardinality(SameKey(r)) \in Nat /\ Cardinality(uncounted) \in Nat
      BY <3>2, SkipsType
    <3> QED BY <1>1, <3>1, <3>3, SpendBothType DEF TypeOK
  <2>1. TypeOK'
    BY <1>1, <1>11, <2>0 DEF CheckPassed, Handler, Goto, Answer, recordVars, loopVars, workVars,
       paperVars, TypeOK, TypeRecords, TypeHandlers, TypeQueues, TypeChannels, TypeWorkers,
       TypePaper
  <2>2. OwnRecordOnly(r)
    BY <1>1, <1>2, <1>11, PrinterType DEF OwnRecordOnly, CheckPassed, Handler, Goto, Answer, recordVars,
       HandlerAt, Hold, TypeOK, TypeHandlers
  <2> QED BY <1>11, <2>1, <2>2, HandlerFrame DEF CheckPassed
<1>12. CASE CheckFailed(r)
  <2>1. TypeOK'
    BY <1>1, <1>12 DEF CheckFailed, Handler, Goto, Answer, Spend, recordVars, loopVars, workVars,
       paperVars, TypeOK, TypeRecords, TypeHandlers, TypeQueues, TypeChannels, TypeWorkers,
       TypePaper
  <2>2. OwnRecordOnly(r)
    BY <1>1, <1>2, <1>12 DEF OwnRecordOnly, CheckFailed, Handler, Goto, Answer, recordVars,
       HandlerAt, Hold, TypeOK, TypeHandlers
  <2> QED BY <1>12, <2>1, <2>2, HandlerFrame DEF CheckFailed
<1>13. CASE V2Create(r)
  <2>1. PICK o \in Outcomes : /\ Spend("fault", Faults(o)) /\ WriteJob(r, Rec("receiving", TRUE), o)
                              /\ IF o = "ok" THEN Goto(r, "payload") ELSE Answer(r, "error", r)
    BY <1>13 DEF V2Create
  <2>2a. Faults(o) \in Nat
    BY FaultsType
  <2>2. Rec("receiving", TRUE) \in Records /\ Faults(o) \in Nat
    BY <2>2a, RecType, FaultsType, <1>1, PrinterType DEF States, Active, Terminal
  <2>3. birth' \in [Jobs -> Nat] /\ index' \subseteq Jobs /\ chan' = chan
    BY <1>1, <1>13, CreatedType DEF V2Create, TypeOK, TypeRecords
  <2>4. Handler /\ Loose(r) /\ Loose(r)' /\ hpc[r] # "done"
    BY <1>1, <1>2, <1>13, <2>3 DEF V2Create, HandlerAt
  <2>5. job[r].state \in {"absent", "receiving", "held", "queued"}
    BY <1>1, <1>13 DEF V2Create, HandlerAt
  <2>6. Rec("receiving", TRUE).state \in {"absent", "receiving", "held", "queued", "failed"}
    BY DEF Rec, Absent
  <2>7. hpc'[r] = "payload" /\ job'[r] = Rec("receiving", TRUE) => HandlerAt(r)'
    BY <1>1, <1>13, <2>4 DEF V2Create, Handler, HandlerAt, Hold, Rec
  <2> QED BY <2>1, <2>2, <2>3, <2>4, <2>5, <2>6, <2>7, WriteAndMove
<1>14. CASE V2PayloadStored(r)
  <2>1. TypeOK'
    BY <1>1, <1>14 DEF V2PayloadStored, Handler, Goto, Answer, Spend, recordVars, loopVars, workVars,
       paperVars, TypeOK, TypeRecords, TypeHandlers, TypeQueues, TypeChannels, TypeWorkers,
       TypePaper
  <2>2. OwnRecordOnly(r)
    BY <1>1, <1>2, <1>14 DEF OwnRecordOnly, V2PayloadStored, Handler, Goto, Answer, recordVars,
       HandlerAt, Hold, TypeOK, TypeHandlers
  <2> QED BY <1>14, <2>1, <2>2, HandlerFrame DEF V2PayloadStored
<1>15. CASE V2PayloadFailed(r)
  <2>1. PICK o \in Outcomes : /\ Spend("fault", 1 + Faults(o)) /\ WriteJob(r, Rec("failed", TRUE), o)
                              /\ Answer(r, "error", r)
    BY <1>15 DEF V2PayloadFailed
  <2>2a. 1 + Faults(o) \in Nat
    BY FaultsType
  <2>2. Rec("failed", TRUE) \in Records /\ 1 + Faults(o) \in Nat
    BY <2>2a, RecType, FaultsType, <1>1, PrinterType DEF States, Active, Terminal
  <2>3. birth' \in [Jobs -> Nat] /\ index' \subseteq Jobs /\ chan' = chan
    BY <1>1, <1>15, CreatedType DEF V2PayloadFailed, TypeOK, TypeRecords
  <2>4. Handler /\ Loose(r) /\ Loose(r)' /\ hpc[r] # "done"
    BY <1>1, <1>2, <1>15, <2>3 DEF V2PayloadFailed, HandlerAt
  <2>5. job[r].state \in {"absent", "receiving", "held", "queued"}
    BY <1>1, <1>15 DEF V2PayloadFailed, HandlerAt
  <2>6. Rec("failed", TRUE).state \in {"absent", "receiving", "held", "queued", "failed"}
    BY DEF Rec, Absent
  <2>7. hpc'[r] = "done"
    BY <1>1, <2>1 DEF Answer, TypeOK, TypeHandlers
  <2> QED BY <2>1, <2>2, <2>3, <2>4, <2>5, <2>6, <2>7, WriteAndMove
<1>16. CASE Submit(r)
  <2>1. PICK o \in Outcomes : /\ Spend("fault", Faults(o)) /\ WriteJob(r, Rec(IF Hold(r) THEN "held" ELSE "queued", TRUE), o)
                              /\ IF o = "ok" THEN Goto(r, "register") ELSE Answer(r, "error", r)
    BY <1>16 DEF Submit
  <2>2a. Faults(o) \in Nat
    BY FaultsType
  <2>2. Rec(IF Hold(r) THEN "held" ELSE "queued", TRUE) \in Records /\ Faults(o) \in Nat
    BY <2>2a, RecType, FaultsType, <1>1, PrinterType DEF States, Active, Terminal
  <2>3. birth' \in [Jobs -> Nat] /\ index' \subseteq Jobs /\ chan' = chan
    BY <1>1, <1>16, CreatedType DEF Submit, TypeOK, TypeRecords
  <2>4. Handler /\ Loose(r) /\ Loose(r)' /\ hpc[r] # "done"
    BY <1>1, <1>2, <1>16, <2>3 DEF Submit, HandlerAt
  <2>5. job[r].state \in {"absent", "receiving", "held", "queued"}
    BY <1>1, <1>16 DEF Submit, HandlerAt
  <2>6. Rec(IF Hold(r) THEN "held" ELSE "queued", TRUE).state \in {"absent", "receiving", "held", "queued", "failed"}
    BY DEF Rec, Absent
  <2>7. hpc'[r] = "register" /\ job'[r] = Rec(IF Hold(r) THEN "held" ELSE "queued", TRUE) => HandlerAt(r)'
    BY <1>1, <1>16, <2>4 DEF Submit, Handler, HandlerAt, Hold, Rec
  <2> QED BY <2>1, <2>2, <2>3, <2>4, <2>5, <2>6, <2>7, WriteAndMove
<1>17. CASE Register(r)
  <2>0. budget' \in [{"crash", "fault", "drop", "control", "read"} -> Nat]
    <3>1. budget' = budget \/ \E k \in Nat : Spend("fault", k)
      BY <1>17, FaultsType DEF Register
    <3> QED BY <1>1, <3>1, SpendType DEF TypeOK, TypePaper
  <2>1. TypeHandlers'
    <3>1. \E pc \in HandlerPCs, kind \in AnswerKinds : Goto(r, pc) \/ Answer(r, kind, r)
      BY <1>17 DEF Register
    <3> QED BY <1>1, <1>17, <3>1, GotoType, AnswerType DEF Register, Handler, TypeOK, TypeHandlers
  <2>1a. TypeOK'
    BY <1>1, <1>17, <2>0, <2>1 DEF Register, Handler, Landed, recordVars, loopVars, workVars,
       paperVars, TypeOK, TypeRecords, TypeQueues, TypeChannels, TypeWorkers,
       TypePaper
  <2>2. OwnRecordOnly(r)
    BY <1>1, <1>2, <1>17 DEF OwnRecordOnly, Register, Handler, Goto, Answer, recordVars,
       HandlerAt, Hold, TypeOK, TypeHandlers
  <2> QED BY <1>17, <2>1a, <2>2, HandlerFrame DEF Register
<1>18. CASE AppendEvent(r)
  <2>0. budget' \in [{"crash", "fault", "drop", "control", "read"} -> Nat]
    <3>1. budget' = budget \/ \E k \in Nat : Spend("fault", k)
      BY <1>18, FaultsType DEF AppendEvent
    <3> QED BY <1>1, <3>1, SpendType DEF TypeOK, TypePaper
  <2>1. TypeHandlers'
    <3>1. \E pc \in HandlerPCs, kind \in AnswerKinds : Goto(r, pc) \/ Answer(r, kind, r)
      BY <1>18 DEF AppendEvent
    <3> QED BY <1>1, <1>18, <3>1, GotoType, AnswerType DEF AppendEvent, Handler, TypeOK, TypeHandlers
  <2>1a. TypeOK'
    BY <1>1, <1>18, <2>0, <2>1 DEF AppendEvent, Handler, Landed, recordVars, loopVars, workVars,
       paperVars, TypeOK, TypeRecords, TypeQueues, TypeChannels, TypeWorkers,
       TypePaper
  <2>2. OwnRecordOnly(r)
    BY <1>1, <1>2, <1>18 DEF OwnRecordOnly, AppendEvent, Handler, Goto, Answer, recordVars,
       HandlerAt, Hold, TypeOK, TypeHandlers
  <2> QED BY <1>18, <2>1a, <2>2, HandlerFrame DEF AppendEvent
<1>19. CASE HoldJob(r)
  <2>1. PICK o \in Outcomes : /\ Spend("fault", Faults(o)) /\ WriteJob(r, Rec("held", TRUE), o)
                              /\ Answer(r, IF o = "ok" THEN "accepted" ELSE "error", r)
    BY <1>19 DEF HoldJob
  <2>2a. Faults(o) \in Nat
    BY FaultsType
  <2>2. Rec("held", TRUE) \in Records /\ Faults(o) \in Nat
    BY <2>2a, RecType, FaultsType, <1>1, PrinterType DEF States, Active, Terminal
  <2>3. birth' \in [Jobs -> Nat] /\ index' \subseteq Jobs /\ chan' = chan
    BY <1>1, <1>19, CreatedType DEF HoldJob, TypeOK, TypeRecords
  <2>4. Handler /\ Loose(r) /\ Loose(r)' /\ hpc[r] # "done"
    BY <1>1, <1>2, <1>19, <2>3 DEF HoldJob, HandlerAt
  <2>5. job[r].state \in {"absent", "receiving", "held", "queued"}
    BY <1>1, <1>19 DEF HoldJob, HandlerAt
  <2>6. Rec("held", TRUE).state \in {"absent", "receiving", "held", "queued", "failed"}
    BY DEF Rec, Absent
  <2>7. hpc'[r] = "done"
    BY <1>1, <2>1 DEF Answer, TypeOK, TypeHandlers
  <2> QED BY <2>1, <2>2, <2>3, <2>4, <2>5, <2>6, <2>7, WriteAndMove
<1>20. CASE Enqueued(r)
  <2>1. TypeOK'
    BY <1>1, <1>20 DEF Enqueued, Handler, Goto, Answer, Spend, recordVars, loopVars, workVars,
       paperVars, TypeOK, TypeRecords, TypeHandlers, TypeQueues, TypeChannels, TypeWorkers,
       TypePaper
  <2>2. OwnRecordOnly(r)
    BY <1>1, <1>2, <1>20 DEF OwnRecordOnly, Enqueued, Handler, Goto, Answer, recordVars,
       HandlerAt, Hold, TypeOK, TypeHandlers
  <2> QED BY <1>20, <2>1, <2>2, HandlerFrame DEF Enqueued
<1>21. CASE NotEnqueued(r)
  <2>1. TypeOK'
    BY <1>1, <1>21 DEF NotEnqueued, Handler, Goto, Answer, Spend, recordVars, loopVars, workVars,
       paperVars, TypeOK, TypeRecords, TypeHandlers, TypeQueues, TypeChannels, TypeWorkers,
       TypePaper
  <2>2. OwnRecordOnly(r)
    BY <1>1, <1>2, <1>21 DEF OwnRecordOnly, NotEnqueued, Handler, Goto, Answer, recordVars,
       HandlerAt, Hold, TypeOK, TypeHandlers
  <2> QED BY <1>21, <2>1, <2>2, HandlerFrame DEF NotEnqueued
<1>22. CASE RejectJob(r)
  <2>1. PICK o \in Outcomes : /\ Spend("fault", Faults(o)) /\ WriteJob(r, Rec("failed", TRUE), o)
                              /\ Answer(r, "error", r)
    BY <1>22 DEF RejectJob
  <2>2a. Faults(o) \in Nat
    BY FaultsType
  <2>2. Rec("failed", TRUE) \in Records /\ Faults(o) \in Nat
    BY <2>2a, RecType, FaultsType, <1>1, PrinterType DEF States, Active, Terminal
  <2>3. birth' \in [Jobs -> Nat] /\ index' \subseteq Jobs /\ chan' = chan
    BY <1>1, <1>22, CreatedType DEF RejectJob, TypeOK, TypeRecords
  <2>4. Handler /\ Loose(r) /\ Loose(r)' /\ hpc[r] # "done"
    BY <1>1, <1>2, <1>22, <2>3 DEF RejectJob, HandlerAt
  <2>5. job[r].state \in {"absent", "receiving", "held", "queued"}
    BY <1>1, <1>22 DEF RejectJob, HandlerAt
  <2>6. Rec("failed", TRUE).state \in {"absent", "receiving", "held", "queued", "failed"}
    BY DEF Rec, Absent
  <2>7. hpc'[r] = "done"
    BY <1>1, <2>1 DEF Answer, TypeOK, TypeHandlers
  <2> QED BY <2>1, <2>2, <2>3, <2>4, <2>5, <2>6, <2>7, WriteAndMove
<1> QED BY <1>3, <1>4, <1>5, <1>6, <1>7, <1>8, <1>9, <1>10, <1>11, <1>12, <1>13, <1>14, <1>15, <1>16, <1>17, <1>18, <1>19, <1>20, <1>21, <1>22 DEF HandlerStep

-----------------------------------------------------------------------------
(* Messages to a worker. *)

\* A posted command is the last of its channel; the others stay where they are.
LEMMA Posted ==
    ASSUME TypeChannels, NEW p \in Printers, NEW c \in Commands, Post(p, c)
    PROVE  /\ TypeChannels'
           /\ \A q \in Printers : q # p => chan'[q] = chan[q]
           /\ DOMAIN chan'[p] = DOMAIN chan[p] \cup {Len(chan[p]) + 1}
           /\ Len(chan[p]) + 1 \notin DOMAIN chan[p]
           /\ chan'[p][Len(chan[p]) + 1] = c
           /\ \A i \in DOMAIN chan[p] : chan'[p][i] = chan[p][i]
  BY DEF TypeChannels, Post

\* Posting a command that is no Enqueue disturbs nothing.
LEMMA PostOther ==
    ASSUME IInv, TypeOK', NEW p \in Printers, NEW c \in Commands, Post(p, c),
           \A r \in Jobs : c # Enq(r), up,
           UNCHANGED <<req, job, up, hpc, reply, queue, cur, wpc, verdict, sent, whole>>
    PROVE  IInv'
<1>1. \A q \in Printers : \A i \in DOMAIN chan'[q] : \A r \in Jobs :
        chan'[q][i] = Enq(r) => i \in DOMAIN chan[q] /\ chan[q][i] = Enq(r)
  BY Posted DEF IInv, TypeOK
<1>2. \A r \in Jobs : /\ InQueue(r)' = InQueue(r) /\ InHand(r)' = InHand(r)
                      /\ InChannel(r)' => InChannel(r)
  BY <1>1 DEF InQueue, InHand, InChannel, Waiting, Enq
<1>3. HandlerInv'
  <2> SUFFICES ASSUME NEW r \in Jobs PROVE HandlerAt(r)'
    BY DEF HandlerInv
  <2> QED BY <1>2 DEF IInv, HandlerInv, HandlerAt, Loose, Hold
<1>4. ChannelInv'
  <2> SUFFICES ASSUME NEW q \in Printers, NEW r \in Jobs, NEW i \in DOMAIN chan'[q],
                      chan'[q][i] = Enq(r)
               PROVE  /\ q = Printer(r) /\ job[r].state = "queued" /\ reply[r] = "none"
                      /\ hpc[r] \in {"await", "done"}
                      /\ ~InQueue(r) /\ ~InHand(r)
                      /\ \A k \in DOMAIN chan'[q] : chan'[q][k] = Enq(r) => k = i
    BY <1>2 DEF ChannelInv, Printer
  <2> QED BY <1>1 DEF IInv, ChannelInv
<1>5. QueueInv'
  BY DEF IInv, QueueInv, Printer
<1>6. WorkerInv'
  <2> SUFFICES ASSUME NEW q \in Printers PROVE WorkerAt(q)'
    BY DEF WorkerInv
  <2>1. cur[q] # None => cur[q] \in Jobs
    BY DEF IInv, TypeOK, TypeWorkers
  <2> QED BY <1>2, <2>1 DEF IInv, WorkerInv, WorkerAt, Printer
<1>7. SentOnce' /\ RecordHonest' /\ DownInv'
  BY DEF IInv, SentOnce, RecordHonest, DownInv
<1> QED BY <1>3, <1>4, <1>5, <1>6, <1>7 DEF IInv

\* Enqueue: the job's one message to its worker.
LEMMA EnqueueSafe ==
    ASSUME IInv, NEW r \in Jobs, Enqueue(r)
    PROVE  IInv'
<1>1. TypeOK /\ HandlerAt(r) /\ Printer(r) \in Printers
  BY PrinterType DEF IInv, HandlerInv
<1>2. /\ Handler /\ hpc[r] = "enqueue" /\ Loose(r) /\ job[r].state = "queued"
      /\ UNCHANGED <<job, birth, index, budget>>
  BY <1>1 DEF Enqueue, HandlerAt, recordVars
<1>3. CASE chan' = chan
  <2>1. Goto(r, "reject")
    <3>1. Len(Append(chan[Printer(r)], Enq(r))) = Len(chan[Printer(r)]) + 1
      BY <1>1 DEF TypeOK, TypeChannels, Commands
    <3>2. ~Post(Printer(r), Enq(r))
      BY <1>1, <1>3, <3>1 DEF Post, TypeOK, TypeChannels
    <3> QED BY <3>2 DEF Enqueue
  <2>2. TypeOK'
    BY <1>1, <1>2, <1>3, <2>1, GotoType DEF Handler, loopVars, workVars, paperVars, TypeOK,
       TypeRecords, TypeHandlers, TypeQueues, TypeChannels, TypeWorkers, TypePaper, HandlerPCs
  <2>3. OwnRecordOnly(r)
    BY <1>1, <1>2, <1>3, <2>1, LooseStable DEF OwnRecordOnly, Goto, HandlerAt, TypeOK,
       TypeHandlers
  <2> QED BY <1>2, <2>2, <2>3, HandlerFrame
<1>4. CASE Post(Printer(r), Enq(r)) /\ Goto(r, "await")
  <2> DEFINE p == Printer(r)
             n == Len(chan[p]) + 1
  <2>1. Enq(r) \in Commands
    BY DEF Commands
  <2>2. /\ TypeChannels'
        /\ \A q \in Printers : q # p => chan'[q] = chan[q]
        /\ DOMAIN chan'[p] = DOMAIN chan[p] \cup {n}
        /\ chan'[p][n] = Enq(r)
        /\ \A i \in DOMAIN chan[p] : chan'[p][i] = chan[p][i]
    BY <1>1, <1>4, <2>1, Posted DEF TypeOK
  <2>3. /\ hpc' \in [Jobs -> HandlerPCs] /\ hpc' = [hpc EXCEPT ![r] = "await"]
        /\ UNCHANGED <<lock, answer>>
    BY <1>1, <1>4, GotoType DEF Goto, HandlerPCs, TypeOK
  <2>4. TypeOK'
    BY <1>1, <1>2, <2>2, <2>3 DEF Handler, loopVars, workVars, paperVars, TypeOK,
       TypeRecords, TypeHandlers, TypeQueues, TypeWorkers, TypePaper
  <2>5. \A s \in Jobs : InQueue(s)' = InQueue(s) /\ InHand(s)' = InHand(s)
    BY <1>2 DEF Handler, loopVars, workVars, InQueue, InHand, Waiting
  <2>6. \A q \in Printers, s \in Jobs : \A i \in DOMAIN chan'[q] :
          chan'[q][i] = Enq(s) => \/ i \in DOMAIN chan[q] /\ chan[q][i] = Enq(s) /\ s # r
                                  \/ s = r /\ q = p /\ i = n
    <3>1. \A q \in Printers : \A i \in DOMAIN chan[q] : chan[q][i] # Enq(r)
      BY <1>2 DEF Loose, InChannel
    <3>2. \A s \in Jobs : Enq(s) = Enq(r) => s = r
      BY DEF Enq
    <3> QED BY <2>2, <3>1, <3>2
  <2>7. HandlerInv'
    <3> SUFFICES ASSUME NEW s \in Jobs PROVE HandlerAt(s)'
      BY DEF HandlerInv
    <3>1. CASE s = r
      <4>1. reply'[r] = "none"
        BY <1>1, <1>2, <3>1 DEF HandlerAt, Handler
      <4> QED BY <3>1, <4>1, <2>3, <1>1 DEF HandlerAt, TypeOK, TypeHandlers
    <3>2. CASE s # r
      <4>1. HandlerAt(s) /\ hpc'[s] = hpc[s] /\ reply' = reply /\ req' = req
        BY <1>1, <1>2, <2>3, <3>2 DEF IInv, HandlerInv, Handler, TypeOK, TypeHandlers
      <4>2. InChannel(s)' => InChannel(s)
        BY <2>6, <3>2 DEF InChannel, Enq
      <4> QED BY <1>2, <2>5, <4>1, <4>2 DEF HandlerAt, Loose, Hold
    <3> QED BY <3>1, <3>2
  <2>8. ChannelInv'
    <3> SUFFICES ASSUME NEW q \in Printers, NEW s \in Jobs, NEW i \in DOMAIN chan'[q],
                        chan'[q][i] = Enq(s)
                 PROVE  /\ q = Printer(s)' /\ job'[s].state = "queued" /\ reply'[s] = "none"
                        /\ hpc'[s] \in {"await", "done"}
                        /\ ~InQueue(s)' /\ ~InHand(s)'
                        /\ \A k \in DOMAIN chan'[q] : chan'[q][k] = Enq(s) => k = i
      BY DEF ChannelInv
    <3>1. UNCHANGED <<req, job, reply>> /\ Printer(s)' = Printer(s)
      BY <1>2 DEF Handler, Printer
    <3>2. CASE s = r
      <4>1. q = p /\ \A k \in DOMAIN chan'[q] : chan'[q][k] = Enq(s) => k = i
        BY <2>6, <3>2
      <4>2. reply[r] = "none" /\ hpc'[r] = "await"
        BY <1>1, <1>2, <2>3 DEF HandlerAt, TypeOK, TypeHandlers
      <4> QED BY <1>2, <2>5, <3>1, <3>2, <4>1, <4>2 DEF Loose
    <3>3. CASE s # r
      <4>1. i \in DOMAIN chan[q] /\ chan[q][i] = Enq(s)
        BY <2>6, <3>3
      <4>2. /\ q = Printer(s) /\ job[s].state = "queued" /\ reply[s] = "none"
            /\ hpc[s] \in {"await", "done"} /\ ~InQueue(s) /\ ~InHand(s)
            /\ \A k \in DOMAIN chan[q] : chan[q][k] = Enq(s) => k = i
        BY <4>1 DEF IInv, ChannelInv
      <4>3. hpc'[s] = hpc[s]
        BY <1>1, <2>3, <3>3 DEF TypeOK, TypeHandlers
      <4>4. \A k \in DOMAIN chan'[q] : chan'[q][k] = Enq(s) => k = i
        BY <2>6, <3>3, <4>2
      <4> QED BY <2>5, <3>1, <4>2, <4>3, <4>4
    <3> QED BY <3>2, <3>3
  <2>9. QueueInv' /\ WorkerInv' /\ SentOnce' /\ RecordHonest' /\ DownInv'
    <3>1. UNCHANGED <<req, job, up, queue, cur, wpc, verdict, sent, whole>> /\ up
      BY <1>2 DEF Handler, loopVars, workVars, paperVars
    <3>2. QueueInv' /\ SentOnce' /\ RecordHonest' /\ DownInv'
      BY <3>1 DEF IInv, QueueInv, SentOnce, RecordHonest, DownInv, Printer
    <3>3. WorkerInv'
      <4> SUFFICES ASSUME NEW q \in Printers PROVE WorkerAt(q)'
        BY DEF WorkerInv
      <4>1. cur[q] # None => cur[q] \in Jobs
        BY <1>1 DEF TypeOK, TypeWorkers
      <4> QED BY <2>5, <3>1, <4>1 DEF IInv, WorkerInv, WorkerAt, Printer
    <3> QED BY <3>2, <3>3
  <2> QED BY <2>4, <2>7, <2>8, <2>9 DEF IInv
<1> QED BY <1>2, <1>3, <1>4 DEF Enqueue

\* A disconnect drops the handler and nothing else; the job, and a message
\* already sent, go their way.
LEMMA DisconnectSafe ==
    ASSUME IInv, NEW r \in Jobs, Disconnect(r)
    PROVE  IInv'
<1>1. TypeOK
  BY DEF IInv
<1>2. /\ hpc' \in [Jobs -> HandlerPCs] /\ hpc' = [hpc EXCEPT ![r] = "done"]
      /\ lock' \in Jobs \cup {None}
      /\ answer' \in [Jobs -> [kind : AnswerKinds, job : Jobs]]
  BY <1>1, AnswerType DEF Disconnect, AnswerKinds, TypeOK
<1>3. budget' \in [{"crash", "fault", "drop", "control", "read"} -> Nat]
  BY <1>1, SpendType DEF Disconnect, TypeOK
<1>4. TypeOK'
  BY <1>1, <1>2, <1>3 DEF Disconnect, Handler, recordVars, loopVars, workVars, paperVars,
     TypeOK, TypeRecords, TypeHandlers, TypeQueues, TypeChannels, TypeWorkers, TypePaper
<1>5. OwnRecordOnly(r)
  BY <1>1, <1>2 DEF Disconnect, OwnRecordOnly, HandlerAt, recordVars, TypeOK, TypeHandlers
<1> QED BY <1>4, <1>5, HandlerFrame DEF Disconnect

\* Cancel and pause requests only put a command into a channel.
LEMMA OperatorSafe ==
    ASSUME IInv,
           \/ \E r \in Jobs : RequestCancel(r)
           \/ \E p \in Printers : RequestPause(p)
    PROVE  IInv'
<1>1. TypeOK /\ up /\ Operator
  BY DEF IInv, RequestCancel, RequestPause, Operator
<1>2. PICK p \in Printers, c \in Commands : Post(p, c) /\ \A s \in Jobs : c # Enq(s)
  <2>1. CASE \E r \in Jobs : RequestCancel(r)
    <3>1. PICK r \in Jobs : RequestCancel(r)
      BY <2>1
    <3>2. Cancel(r) \in Commands /\ \A s \in Jobs : Cancel(r) # Enq(s)
      BY DEF Commands, Cancel, Enq
    <3> QED BY <1>1, <3>1, <3>2, PrinterType DEF RequestCancel
  <2>2. CASE \E q \in Printers : RequestPause(q)
    <3>1. PICK q \in Printers, b \in BOOLEAN : Post(q, Pause(b))
      BY <2>2 DEF RequestPause
    <3>2. Pause(b) \in Commands /\ \A s \in Jobs : Pause(b) # Enq(s)
      BY DEF Commands, Pause, Enq
    <3> QED BY <3>1, <3>2
  <2> QED BY <2>1, <2>2
<1>3. cancelled' \in [Jobs -> {"none", "asked", "ok", "err"}]
  BY <1>1 DEF RequestCancel, RequestPause, TypeOK, TypeHandlers
<1>4. budget' \in [{"crash", "fault", "drop", "control", "read"} -> Nat]
  BY <1>1, SpendType DEF Operator, TypeOK
<1>5. TypeChannels'
  BY <1>1, <1>2, Posted DEF TypeOK
<1>6. TypeOK'
  BY <1>1, <1>3, <1>4, <1>5 DEF Operator, recordVars, handlerVars, loopVars, workVars, paperVars,
     TypeOK, TypeRecords, TypeHandlers, TypeQueues, TypeWorkers, TypePaper
<1> QED BY <1>1, <1>2, <1>6, PostOther DEF Operator, recordVars, handlerVars, loopVars,
           workVars, paperVars

-----------------------------------------------------------------------------
(* Sequences that only lose elements. *)

\* t holds no more than s, and no element twice that s holds once.
Fewer(t, s) == \A k, l \in DOMAIN t : \E i, j \in DOMAIN s :
    t[k] = s[i] /\ t[l] = s[j] /\ (k # l => i # j)

LEMMA FewerTail ==
    ASSUME NEW S, NEW s \in Seq(S), s # <<>>
    PROVE  /\ Tail(s) \in Seq(S) /\ Head(s) \in S
           /\ Fewer(Tail(s), s)
           /\ \A k \in DOMAIN Tail(s) : k + 1 \in DOMAIN s /\ Tail(s)[k] = s[k + 1]
           /\ 1 \in DOMAIN s /\ Head(s) = s[1]
<1>1. Tail(s) \in Seq(S) /\ Len(Tail(s)) = Len(s) - 1 /\ Len(s) \in Nat \ {0}
  OBVIOUS
<1>2. \A k \in 1..Len(Tail(s)) : k + 1 \in 1..Len(s) /\ Tail(s)[k] = s[k + 1]
  BY <1>1
<1>3. DOMAIN s = 1..Len(s) /\ DOMAIN Tail(s) = 1..Len(Tail(s))
  BY <1>1
<1>4. Fewer(Tail(s), s)
  <2> SUFFICES ASSUME NEW k \in DOMAIN Tail(s), NEW l \in DOMAIN Tail(s)
               PROVE  /\ k + 1 \in DOMAIN s /\ l + 1 \in DOMAIN s
                      /\ Tail(s)[k] = s[k + 1] /\ Tail(s)[l] = s[l + 1]
                      /\ k # l => k + 1 # l + 1
    BY DEF Fewer
  <2> QED BY <1>1, <1>2, <1>3
<1> QED BY <1>1, <1>2, <1>3, <1>4

\* The second half of a concatenation.
LEMMA ConcatRight ==
    ASSUME NEW S, NEW a \in Seq(S), NEW b \in Seq(S), NEW k \in Nat,
           Len(a) < k, k <= Len(a) + Len(b)
    PROVE  k - Len(a) \in 1..Len(b) /\ (a \o b)[k] = b[k - Len(a)]
<1>1. Len(a) \in Nat /\ Len(b) \in Nat
  OBVIOUS
<1>2. k \in 1..(Len(a) + Len(b)) /\ ~(k <= Len(a)) /\ k - Len(a) \in 1..Len(b)
  BY <1>1
<1> QED BY <1>2, ConcatProperties

LEMMA FewerRemoveAt ==
    ASSUME NEW S, NEW s \in Seq(S), NEW i \in DOMAIN s
    PROVE  /\ RemoveAt(s, i) \in Seq(S)
           /\ Fewer(RemoveAt(s, i), s)
           /\ (\A k \in DOMAIN s : s[k] = s[i] => k = i)
                => \A k \in DOMAIN RemoveAt(s, i) : RemoveAt(s, i)[k] # s[i]
<1> DEFINE t == RemoveAt(s, i)
           a == SubSeq(s, 1, i - 1)
           b == SubSeq(s, i + 1, Len(s))
           f(k) == IF k < i THEN k ELSE k + 1
<1>1. /\ DOMAIN s = 1..Len(s) /\ Len(s) \in Nat /\ i \in 1..Len(s)
      /\ a \in Seq(S) /\ Len(a) = i - 1
      /\ b \in Seq(S) /\ Len(b) = Len(s) - i
  OBVIOUS
<1>2. /\ \A k \in 1..Len(a) : a[k] = s[k]
      /\ \A k \in 1..Len(b) : b[k] = s[i + k]
  <2>1. ASSUME NEW k \in 1..Len(a) PROVE a[k] = s[k]
    <3>1. a[k] = s[1 + k - 1] /\ 1 + k - 1 = k
      BY <1>1
    <3> QED BY <3>1
  <2>2. ASSUME NEW k \in 1..Len(b) PROVE b[k] = s[i + k]
    <3>1. i + 1 \in Int /\ Len(s) \in Int /\ k \in 1..(Len(s) - (i + 1) + 1)
      BY <1>1, <2>2
    <3>2. b[k] = s[(i + 1) + k - 1]
      BY <3>1
    <3>3. (i + 1) + k - 1 = i + k
      BY <1>1
    <3> QED BY <3>2, <3>3
  <2> QED BY <2>1, <2>2
<1>3. /\ t \in Seq(S) /\ Len(t) = Len(s) - 1 /\ DOMAIN t = 1..(Len(s) - 1)
  BY <1>1 DEF RemoveAt
<1>4. \A k \in DOMAIN t : f(k) \in DOMAIN s /\ t[k] = s[f(k)] /\ f(k) # i
  <2> SUFFICES ASSUME NEW k \in 1..(Len(s) - 1)
               PROVE  f(k) \in 1..Len(s) /\ t[k] = s[f(k)] /\ f(k) # i
    BY <1>1, <1>3
  <2>1. CASE k < i
    BY <1>1, <1>2, <2>1 DEF RemoveAt
  <2>2. CASE k >= i
    <3>1. k - (i - 1) \in 1..Len(b) /\ t[k] = b[k - (i - 1)]
      <4>1. Len(a) < k /\ k <= Len(a) + Len(b) /\ k \in Nat
        BY <1>1, <2>2
      <4> QED BY <1>1, <4>1, ConcatRight DEF RemoveAt
    <3>2. i + (k - (i - 1)) = k + 1
      BY <1>1
    <3>3. t[k] = s[k + 1]
      BY <1>2, <3>1, <3>2
    <3> QED BY <1>1, <2>2, <3>3
  <2> QED BY <1>1, <2>1, <2>2
<1>5. Fewer(t, s)
  <2> SUFFICES ASSUME NEW k \in DOMAIN t, NEW l \in DOMAIN t
               PROVE  /\ f(k) \in DOMAIN s /\ f(l) \in DOMAIN s
                      /\ t[k] = s[f(k)] /\ t[l] = s[f(l)]
                      /\ k # l => f(k) # f(l)
    BY DEF Fewer
  <2> QED BY <1>1, <1>3, <1>4
<1>6. ASSUME \A k \in DOMAIN s : s[k] = s[i] => k = i
      PROVE  \A k \in DOMAIN t : t[k] # s[i]
  BY <1>4, <1>6
<1> QED BY <1>3, <1>5, <1>6

LEMMA FewerSame == \A s : Fewer(s, s)
  BY DEF Fewer

-----------------------------------------------------------------------------
(* A step of the worker of printer p that brings no new job to the queue.    *)

WorkersOwnJobs(p) ==
    /\ \A s \in Jobs : ~InQueue(s) /\ ~InHand(s) =>
        job'[s] = job[s] /\ ~InQueue(s)' /\ ~InHand(s)'
    /\ \A s \in Jobs : Printer(s) # p =>
        job'[s] = job[s] /\ sent'[s] = sent[s] /\ whole'[s] = whole[s]
    /\ \A q \in Printers : q # p =>
        cur'[q] = cur[q] /\ wpc'[q] = wpc[q] /\ verdict'[q] = verdict[q]
    /\ \A s \in Jobs : InQueue(s)' =>
        InQueue(s) /\ job'[s].state \in {"queued", "cancelled"}
    /\ \A q \in Printers : Fewer(queue'[q], queue[q]) /\ Fewer(chan'[q], chan[q])
    /\ reply' = reply
    /\ WorkerAt(p)' /\ SentOnce' /\ RecordHonest'

\* Such a step keeps every part of the inductive invariant.
LEMMA WorkerFrame ==
    ASSUME IInv, TypeOK', Worker, NEW p \in Printers, WorkersOwnJobs(p)
    PROVE  IInv'
<1>1. TypeOK /\ UNCHANGED <<req, up, hpc>> /\ up
  BY DEF IInv, Worker, handlerVars
<1>2. \A s \in Jobs : Printer(s)' = Printer(s)
  BY <1>1 DEF Printer
<1>3. \A s \in Jobs : InChannel(s)' => InChannel(s)
  BY DEF WorkersOwnJobs, InChannel, Fewer, Enq
<1>4. HandlerInv'
  <2> SUFFICES ASSUME NEW s \in Jobs PROVE HandlerAt(s)'
    BY DEF HandlerInv
  <2>1. HandlerAt(s)
    BY DEF IInv, HandlerInv
  <2>2. Loose(s) => Loose(s)' /\ job'[s] = job[s]
    BY <1>3 DEF Loose, WorkersOwnJobs
  <2> QED BY <1>1, <2>1, <2>2 DEF HandlerAt, Hold, WorkersOwnJobs
<1>5. ChannelInv'
  <2> SUFFICES ASSUME NEW q \in Printers, NEW s \in Jobs, NEW i \in DOMAIN chan'[q],
                      chan'[q][i] = Enq(s)
               PROVE  /\ q = Printer(s) /\ job'[s].state = "queued" /\ reply[s] = "none"
                      /\ hpc[s] \in {"await", "done"}
                      /\ ~InQueue(s)' /\ ~InHand(s)'
                      /\ \A k \in DOMAIN chan'[q] : chan'[q][k] = Enq(s) => k = i
    BY <1>1, <1>2 DEF ChannelInv, WorkersOwnJobs
  <2>1. PICK m \in DOMAIN chan[q] : chan[q][m] = Enq(s)
    BY DEF WorkersOwnJobs, Fewer
  <2>2. /\ q = Printer(s) /\ job[s].state = "queued" /\ reply[s] = "none"
        /\ hpc[s] \in {"await", "done"} /\ ~InQueue(s) /\ ~InHand(s)
        /\ \A k, l \in DOMAIN chan[q] : chan[q][k] = Enq(s) /\ chan[q][l] = Enq(s) => k = l
    BY <2>1 DEF IInv, ChannelInv
  <2>3. \A k \in DOMAIN chan'[q] : chan'[q][k] = Enq(s) => k = i
    BY <2>2 DEF WorkersOwnJobs, Fewer
  <2> QED BY <2>2, <2>3 DEF WorkersOwnJobs
<1>6. QueueInv'
  <2> SUFFICES ASSUME NEW q \in Printers, NEW i \in DOMAIN queue'[q]
               PROVE  /\ q = Printer(queue'[q][i])
                      /\ job'[queue'[q][i]].state \in {"queued", "cancelled"}
                      /\ \A k \in DOMAIN queue'[q] : queue'[q][k] = queue'[q][i] => k = i
    BY <1>1 DEF QueueInv, Printer
  <2>1. PICK s \in Jobs : s = queue'[q][i]
    <3>1. TypeQueues'
      BY DEF TypeOK
    <3>2. queue'[q] \in Seq(Jobs)
      BY <3>1 DEF TypeQueues
    <3> QED BY <3>2
  <2>2. InQueue(s)' /\ job'[s].state \in {"queued", "cancelled"}
    <3>1. InQueue(s)'
      BY <2>1 DEF InQueue, Waiting
    <3> QED BY <3>1 DEF WorkersOwnJobs
  <2>3. PICK m \in DOMAIN queue[q] : queue'[q][i] = queue[q][m]
    BY DEF WorkersOwnJobs, Fewer
  <2>4. q = Printer(queue[q][m])
    BY DEF IInv, QueueInv
  <2>5. \A k \in DOMAIN queue'[q] : queue'[q][k] = queue'[q][i] => k = i
    <3>1. Fewer(queue'[q], queue[q])
      BY DEF WorkersOwnJobs
    <3>2. \A k, l \in DOMAIN queue[q] : queue[q][k] = queue[q][l] => k = l
      BY DEF IInv, QueueInv
    <3> SUFFICES ASSUME NEW k \in DOMAIN queue'[q], queue'[q][k] = queue'[q][i], k # i
                 PROVE  FALSE
      OBVIOUS
    <3>3. PICK m1 \in DOMAIN queue[q], m2 \in DOMAIN queue[q] :
            queue'[q][k] = queue[q][m1] /\ queue'[q][i] = queue[q][m2] /\ m1 # m2
      BY <3>1 DEF Fewer
    <3> QED BY <3>2, <3>3
  <2> QED BY <2>1, <2>2, <2>3, <2>4, <2>5
<1>7. WorkerInv'
  <2> SUFFICES ASSUME NEW q \in Printers, q # p PROVE WorkerAt(q)'
    BY DEF WorkerInv, WorkersOwnJobs
  <2>1. WorkerAt(q) /\ (cur[q] # None => cur[q] \in Jobs)
    BY <1>1 DEF IInv, WorkerInv, TypeOK, TypeWorkers
  <2>2. cur[q] # None => Printer(cur[q]) # p
    BY <2>1 DEF WorkerAt
  <2> QED BY <1>1, <1>2, <2>1, <2>2 DEF WorkerAt, WorkersOwnJobs
<1>8. DownInv'
  BY <1>1 DEF DownInv
<1> QED BY <1>4, <1>5, <1>6, <1>7, <1>8 DEF IInv, WorkersOwnJobs

\* A delivery step: it concerns the job in hand, queue and channel stand still.
LEMMA InHandStep ==
    ASSUME IInv, TypeOK', Worker, NEW p \in Printers, NEW r \in Jobs,
           cur[p] = r, wpc[p] # "dequeue",
           UNCHANGED <<queue, chan, reply>>,
           \A s \in Jobs : s # r => job'[s] = job[s] /\ sent'[s] = sent[s] /\ whole'[s] = whole[s],
           \A q \in Printers : q # p =>
             cur'[q] = cur[q] /\ wpc'[q] = wpc[q] /\ verdict'[q] = verdict[q],
           cur'[p] \in {r, None}, WorkerAt(p)', sent'[r] <= 1,
           sent'[r] > 0 => job'[r].state \in {"writing", "transport_accepted", "outcome_unknown"},
           job'[r].state = "transport_accepted" => whole'[r]
    PROVE  IInv'
<1>1. TypeOK /\ WorkerAt(p) /\ r # None
  BY JobsAssumption DEF IInv, WorkerInv
<1>2. p = Printer(r) /\ ~InQueue(r)
  BY <1>1 DEF WorkerAt
<1>3. \A s \in Jobs : InQueue(s)' = InQueue(s)
  BY DEF InQueue, Waiting
<1>4. \A s \in Jobs : ~InHand(s) => s # r /\ ~InHand(s)'
  <2> SUFFICES ASSUME NEW s \in Jobs, ~InHand(s) PROVE s # r /\ ~InHand(s)'
    OBVIOUS
  <2>1. s # r /\ s # None
    BY JobsAssumption DEF InHand
  <2> QED BY <2>1 DEF InHand
<1>5. \A s \in Jobs : InQueue(s) => job[s].state \in {"queued", "cancelled"}
  BY DEF IInv, QueueInv, InQueue, Waiting
<1>6. SentOnce'
  <2> SUFFICES ASSUME NEW s \in Jobs, s # r PROVE sent'[s] <= 1
    BY DEF SentOnce
  <2> QED BY DEF IInv, SentOnce
<1>7. RecordHonest'
  <2> SUFFICES ASSUME NEW s \in Jobs, s # r
               PROVE  /\ sent'[s] > 0 => job'[s].state \in {"writing", "transport_accepted",
                                                            "outcome_unknown"}
                      /\ job'[s].state = "transport_accepted" => whole'[s]
    BY DEF RecordHonest
  <2> QED BY DEF IInv, RecordHonest
<1>8. \A q \in Printers : Fewer(queue'[q], queue[q]) /\ Fewer(chan'[q], chan[q])
  BY FewerSame
<1>9. WorkersOwnJobs(p)
  BY <1>2, <1>3, <1>4, <1>5, <1>6, <1>7, <1>8 DEF WorkersOwnJobs
<1> QED BY <1>9, WorkerFrame

\* What the invariant says of the job in hand.
LEMMA JobInHand ==
    ASSUME IInv, Worker, NEW p \in Printers, wpc[p] \notin {"loop", "dequeue"}
    PROVE  \E r \in Jobs :
            /\ r = cur[p] /\ r # None /\ p = Printer(r) /\ Printer(r)' = Printer(r)
            /\ sent[r] \in {0, 1} /\ whole[r] \in BOOLEAN
            /\ sent[r] > 0 =>
                job[r].state \in {"writing", "transport_accepted", "outcome_unknown"}
            /\ job[r].state = "transport_accepted" => whole[r]
            /\ ~InQueue(r) /\ (queue' = queue => ~InQueue(r)')
<1>1. TypeOK /\ WorkerAt(p)
  BY DEF IInv, WorkerInv
<1>2. PICK r \in Jobs : r = cur[p] /\ r # None
  BY <1>1, JobsAssumption DEF TypeOK, TypeWorkers
<1>3. sent[r] \in {0, 1} /\ whole[r] \in BOOLEAN
  BY <1>1 DEF TypeOK, TypePaper, IInv, SentOnce
<1>4. /\ sent[r] > 0 => job[r].state \in {"writing", "transport_accepted", "outcome_unknown"}
      /\ job[r].state = "transport_accepted" => whole[r]
  BY DEF IInv, RecordHonest
<1>5. p = Printer(r) /\ Printer(r)' = Printer(r) /\ ~InQueue(r)
  BY <1>1, <1>2 DEF WorkerAt, Worker, Printer
<1>6. queue' = queue => ~InQueue(r)'
  BY <1>5 DEF InQueue, Waiting
<1> QED BY <1>2, <1>3, <1>4, <1>5, <1>6

\* The types after a worker's step.
LEMMA WorkerType ==
    ASSUME TypeOK, Worker, job' \in [Jobs -> Records],
           reply' \in [Jobs -> {"none", "ok", "err"}],
           cancelled' \in [Jobs -> {"none", "asked", "ok", "err"}],
           TypeQueues', TypeChannels', TypeWorkers', TypePaper',
           \A q \in Printers : wpc'[q] = "loop" <=> cur'[q] = None
    PROVE  TypeOK'
  BY DEF Worker, handlerVars, TypeOK, TypeRecords, TypeHandlers

\* Where a worker goes.
LEMMA StepType ==
    ASSUME TypeOK, NEW p \in Printers, NEW pc \in WorkerPCs, Step(p, pc)
    PROVE  /\ wpc' \in [Printers -> WorkerPCs] /\ wpc'[p] = pc
           /\ \A q \in Printers : q # p => wpc'[q] = wpc[q]
  BY DEF Step, TypeOK, TypeWorkers

LEMMA ReturnType ==
    ASSUME TypeOK, NEW p \in Printers, Return(p)
    PROVE  /\ TypeWorkers' /\ cur'[p] = None /\ wpc'[p] = "loop"
           /\ \A q \in Printers : wpc'[q] = "loop" <=> cur'[q] = None
           /\ \A q \in Printers : q # p =>
                cur'[q] = cur[q] /\ wpc'[q] = wpc[q] /\ verdict'[q] = verdict[q]
<1>1. "loop" \in WorkerPCs /\ "failed" \in Terminal /\ 0 \in 0..Attempts
  BY DEF WorkerPCs, Terminal, Attempts
<1>2. /\ wpc' \in [Printers -> WorkerPCs] /\ wpc'[p] = "loop"
      /\ \A q \in Printers : q # p => wpc'[q] = wpc[q]
  BY <1>1, StepType DEF Return
<1>3. /\ cur' \in [Printers -> Jobs \cup {None}] /\ cur'[p] = None
      /\ verdict' \in [Printers -> Terminal] /\ attempt' \in [Printers -> 0..Attempts]
      /\ \A q \in Printers : q # p => cur'[q] = cur[q] /\ verdict'[q] = verdict[q]
  BY <1>1 DEF Return, TypeOK, TypeWorkers
<1>4. \A q \in Printers : wpc[q] = "loop" <=> cur[q] = None
  BY DEF TypeOK
<1> QED BY <1>2, <1>3, <1>4 DEF TypeWorkers

\* No byte leaves before Writing is on disk.
LEMMA BeginSafe ==
    ASSUME IInv, NEW p \in Printers, Begin(p)
    PROVE  IInv'
<1>1. TypeOK /\ WorkerAt(p) /\ Worker /\ wpc[p] \notin {"loop", "dequeue"}
  BY DEF IInv, WorkerInv, Begin
<1>2. PICK r \in Jobs :
        /\ r = cur[p] /\ r # None /\ p = Printer(r) /\ Printer(r)' = Printer(r)
        /\ sent[r] \in {0, 1} /\ whole[r] \in BOOLEAN
        /\ sent[r] > 0 => job[r].state \in {"writing", "transport_accepted", "outcome_unknown"}
        /\ job[r].state = "transport_accepted" => whole[r]
        /\ ~InQueue(r) /\ (queue' = queue => ~InQueue(r)')
  BY <1>1, JobInHand
<1>3. PICK o \in Outcomes :
        /\ Spend("fault", Faults(o))
        /\ WriteJob(r, Rec("writing", TRUE), o)
        /\ IF o = "ok"
           THEN /\ Step(p, "send") /\ attempt' = [attempt EXCEPT ![p] = 1]
                /\ UNCHANGED <<cur, verdict>>
           ELSE Return(p)
  BY <1>2 DEF Begin
<1>4. /\ job' \in [Jobs -> Records]
      /\ \A s \in Jobs : s # r => job'[s] = job[s]
      /\ job'[r] = IF Landed(o) THEN Rec("writing", TRUE) ELSE job[r]
  BY <1>1, <1>3, WriteJobType, RecType DEF TypeOK, TypeRecords, States, Active
<1>5. /\ sent[r] = 0 /\ UNCHANGED <<queue, chan, reply, sent, whole>>
      /\ job[r].state = "queued"
  BY <1>2 DEF Begin, Ready, loopVars, paperVars
<1>6. job'[r].state \in {"queued", "writing"}
  BY <1>4, <1>5 DEF Rec
<1> DEFINE Moved ==
        /\ TypeWorkers' /\ WorkerAt(p)' /\ cur'[p] \in {r, None}
        /\ \A q \in Printers : wpc'[q] = "loop" <=> cur'[q] = None
        /\ \A q \in Printers : q # p =>
             cur'[q] = cur[q] /\ wpc'[q] = wpc[q] /\ verdict'[q] = verdict[q]
<1>7. ASSUME o = "ok" PROVE Moved
  <2>1. /\ wpc' \in [Printers -> WorkerPCs] /\ wpc'[p] = "send"
        /\ \A q \in Printers : q # p => wpc'[q] = wpc[q]
        /\ UNCHANGED <<cur, verdict>>
    BY <1>1, <1>3, <1>7, StepType DEF WorkerPCs
  <2>2. attempt' \in [Printers -> 0..Attempts]
    BY <1>1, <1>3, <1>7 DEF TypeOK, TypeWorkers, Attempts
  <2>3. TypeWorkers' /\ \A q \in Printers : wpc'[q] = "loop" <=> cur'[q] = None
    BY <1>1, <1>2, <2>1, <2>2 DEF TypeOK, TypeWorkers
  <2>4. job'[r] = Rec("writing", TRUE)
    BY <1>4, <1>7 DEF Landed
  <2>5. WorkerAt(p)'
    BY <1>2, <1>5, <2>1, <2>4 DEF WorkerAt, Rec
  <2> QED BY <1>2, <2>1, <2>3, <2>5
<1>8. ASSUME o # "ok" PROVE Moved
  <2>1. Return(p)
    BY <1>3, <1>8
  <2> QED BY <1>1, <2>1, ReturnType DEF WorkerAt
<1>9. TypePaper'
  BY <1>1, <1>3, <1>5, SpendType, FaultsType DEF TypeOK, TypePaper
<1>10. TypeOK'
  BY <1>1, <1>4, <1>5, <1>7, <1>8, <1>9, WorkerType DEF Begin, loopVars, TypeOK, TypeHandlers,
     TypeQueues, TypeChannels
<1> QED BY <1>1, <1>2, <1>4, <1>5, <1>6, <1>7, <1>8, <1>10, InHandStep

\* A job that is skipped leaves the worker as it was.
LEMMA SkipSafe ==
    ASSUME IInv, NEW p \in Printers, Skip(p)
    PROVE  IInv'
<1>1. TypeOK /\ WorkerAt(p) /\ Worker /\ wpc[p] \notin {"loop", "dequeue"}
  BY DEF IInv, WorkerInv, Skip
<1>2. PICK r \in Jobs :
        /\ r = cur[p] /\ r # None /\ p = Printer(r) /\ Printer(r)' = Printer(r)
        /\ sent[r] \in {0, 1} /\ whole[r] \in BOOLEAN
        /\ sent[r] > 0 => job[r].state \in {"writing", "transport_accepted", "outcome_unknown"}
        /\ job[r].state = "transport_accepted" => whole[r]
        /\ ~InQueue(r) /\ (queue' = queue => ~InQueue(r)')
  BY <1>1, JobInHand
<1>3. UNCHANGED <<job, reply, cancelled, queue, paused, qfile, pfile, chan, sent, whole>>
  BY DEF Skip, loopVars, paperVars
<1>4. /\ TypeWorkers' /\ cur'[p] = None
      /\ \A q \in Printers : wpc'[q] = "loop" <=> cur'[q] = None
      /\ \A q \in Printers : q # p =>
           cur'[q] = cur[q] /\ wpc'[q] = wpc[q] /\ verdict'[q] = verdict[q]
  BY <1>1, ReturnType DEF Skip
<1>5. TypePaper'
  BY <1>1, <1>3, SpendType DEF Skip, TypeOK, TypePaper
<1>6. TypeOK'
  BY <1>1, <1>3, <1>4, <1>5, WorkerType DEF TypeOK, TypeRecords, TypeHandlers, TypeQueues,
     TypeChannels
<1>7. WorkerAt(p)'
  BY <1>4 DEF WorkerAt
<1> QED BY <1>1, <1>2, <1>3, <1>4, <1>6, <1>7, InHandStep

\* An attempt puts something of the job on the wire, or nothing.
LEMMA SendSafe ==
    ASSUME IInv, NEW p \in Printers, SendAll(p) \/ SendSome(p) \/ SendNone(p)
    PROVE  IInv'
<1>1. TypeOK /\ WorkerAt(p) /\ Worker /\ wpc[p] \notin {"loop", "dequeue"}
  BY DEF IInv, WorkerInv, SendAll, SendSome, SendNone, Delivery
<1>2. PICK r \in Jobs :
        /\ r = cur[p] /\ r # None /\ p = Printer(r) /\ Printer(r)' = Printer(r)
        /\ sent[r] \in {0, 1} /\ whole[r] \in BOOLEAN
        /\ sent[r] > 0 => job[r].state \in {"writing", "transport_accepted", "outcome_unknown"}
        /\ job[r].state = "transport_accepted" => whole[r]
        /\ ~InQueue(r) /\ (queue' = queue => ~InQueue(r)')
  BY <1>1, JobInHand
<1>3. /\ wpc[p] = "send" /\ job[r].state = "writing" /\ sent[r] = 0
      /\ UNCHANGED <<job, reply, cancelled, queue, paused, qfile, pfile, chan, cur, budget>>
  BY <1>1, <1>2 DEF SendAll, SendSome, SendNone, Delivery, WorkerAt, loopVars
<1>4. attempt' \in [Printers -> 0..Attempts]
  BY <1>1 DEF SendAll, SendSome, SendNone, TypeOK, TypeWorkers, Attempts
<1>5. /\ sent' \in [Jobs -> Nat] /\ whole' \in [Jobs -> BOOLEAN]
      /\ \A s \in Jobs : s # r => sent'[s] = sent[s] /\ whole'[s] = whole[s]
  <2>1. sent \in [Jobs -> Nat] /\ whole \in [Jobs -> BOOLEAN]
    BY <1>1 DEF TypeOK, TypePaper
  <2>2. \/ sent' = sent
        \/ sent' = [sent EXCEPT ![r] = @ + 1]
    BY <1>2 DEF SendAll, SendSome, SendNone, paperVars
  <2>3. \/ whole' = whole
        \/ whole' = [whole EXCEPT ![r] = TRUE]
    BY <1>2 DEF SendAll, SendSome, SendNone, paperVars
  <2>4. sent' \in [Jobs -> Nat] /\ \A s \in Jobs : s # r => sent'[s] = sent[s]
    BY <2>1, <2>2
  <2>5. whole' \in [Jobs -> BOOLEAN] /\ \A s \in Jobs : s # r => whole'[s] = whole[s]
    BY <2>1, <2>3
  <2> QED BY <2>4, <2>5
<1>6. wpc'[p] \in {"accept", "finish", "send"} /\ wpc' \in [Printers -> WorkerPCs]
  BY <1>1, <1>3 DEF SendAll, SendSome, SendNone, Step, TypeOK, TypeWorkers, WorkerPCs
<1>7. /\ verdict' \in [Printers -> Terminal]
      /\ \A q \in Printers : q # p => wpc'[q] = wpc[q] /\ verdict'[q] = verdict[q]
  BY <1>1 DEF SendAll, SendSome, SendNone, Step, TypeOK, TypeWorkers, Terminal
<1>8. TypeWorkers' /\ \A q \in Printers : wpc'[q] = "loop" <=> cur'[q] = None
  <2>1. \A q \in Printers : wpc[q] = "loop" <=> cur[q] = None
    BY <1>1 DEF TypeOK
  <2>2. TypeWorkers'
    BY <1>1, <1>3, <1>4, <1>6, <1>7 DEF TypeOK, TypeWorkers
  <2> QED BY <1>2, <1>3, <1>6, <1>7, <2>1, <2>2
<1>9. TypeOK'
  BY <1>1, <1>3, <1>5, <1>8, WorkerType DEF TypeOK, TypeRecords, TypeHandlers, TypeQueues,
     TypeChannels, TypePaper
<1>10. \/ wpc'[p] = "accept" /\ sent'[r] = 1 /\ whole'[r]
       \/ wpc'[p] = "finish" /\ verdict'[p] = "outcome_unknown" /\ sent'[r] = 1
       \/ wpc'[p] = "finish" /\ verdict'[p] = "failed" /\ sent'[r] = 0
       \/ wpc'[p] = "send" /\ sent'[r] = 0
  BY <1>1, <1>2, <1>3 DEF SendAll, SendSome, SendNone, Step, TypeOK, TypePaper,
     TypeWorkers, paperVars
<1>11. WorkerAt(p)'
  BY <1>2, <1>3, <1>10 DEF WorkerAt
<1> QED BY <1>1, <1>2, <1>3, <1>5, <1>7, <1>9, <1>10, <1>11, InHandStep

\* Transport accepted is recorded of a job that was handed over.
LEMMA AcceptSafe ==
    ASSUME IInv, NEW p \in Printers, Accept(p)
    PROVE  IInv'
<1>1. TypeOK /\ WorkerAt(p) /\ Worker /\ wpc[p] \notin {"loop", "dequeue"}
  BY DEF IInv, WorkerInv, Accept
<1>2. PICK r \in Jobs :
        /\ r = cur[p] /\ r # None /\ p = Printer(r) /\ Printer(r)' = Printer(r)
        /\ sent[r] \in {0, 1} /\ whole[r] \in BOOLEAN
        /\ sent[r] > 0 => job[r].state \in {"writing", "transport_accepted", "outcome_unknown"}
        /\ job[r].state = "transport_accepted" => whole[r]
        /\ ~InQueue(r) /\ (queue' = queue => ~InQueue(r)')
  BY <1>1, JobInHand
<1>3. PICK o \in Outcomes : /\ Spend("fault", Faults(o))
                            /\ WriteJob(r, Rec("transport_accepted", TRUE), o)
  BY <1>2 DEF Accept
<1>4. /\ job' \in [Jobs -> Records]
      /\ \A s \in Jobs : s # r => job'[s] = job[s]
      /\ job'[r] = IF Landed(o) THEN Rec("transport_accepted", TRUE) ELSE job[r]
  BY <1>1, <1>3, WriteJobType, RecType DEF TypeOK, TypeRecords, States, Terminal
<1>5. /\ job[r].state = "writing" /\ sent[r] = 1 /\ whole[r]
      /\ UNCHANGED <<reply, cancelled, queue, paused, qfile, pfile, chan, sent, whole, cur,
                     attempt>>
  BY <1>1, <1>2 DEF Accept, WorkerAt, loopVars, paperVars
<1>6. job'[r].state \in {"writing", "transport_accepted"}
  BY <1>4, <1>5 DEF Rec
<1>7. /\ wpc' \in [Printers -> WorkerPCs] /\ wpc'[p] = "finish"
      /\ \A q \in Printers : q # p => wpc'[q] = wpc[q]
  BY <1>1, StepType DEF Accept, WorkerPCs
<1>8. /\ verdict' \in [Printers -> Terminal] /\ verdict'[p] = "transport_accepted"
      /\ \A q \in Printers : q # p => verdict'[q] = verdict[q]
  BY <1>1 DEF Accept, TypeOK, TypeWorkers, Terminal
<1>9. TypeWorkers' /\ \A q \in Printers : wpc'[q] = "loop" <=> cur'[q] = None
  BY <1>1, <1>2, <1>5, <1>7, <1>8 DEF TypeOK, TypeWorkers
<1>10. TypePaper'
  BY <1>1, <1>3, <1>5, SpendType, FaultsType DEF TypeOK, TypePaper
<1>11. TypeOK'
  BY <1>1, <1>4, <1>5, <1>9, <1>10, WorkerType DEF TypeOK, TypeHandlers, TypeQueues, TypeChannels
<1>12. WorkerAt(p)'
  BY <1>2, <1>5, <1>6, <1>7, <1>8 DEF WorkerAt
<1> QED BY <1>1, <1>2, <1>4, <1>5, <1>6, <1>7, <1>8, <1>11, <1>12, InHandStep

\* The last record says what became of the delivery.
LEMMA FinishSafe ==
    ASSUME IInv, NEW p \in Printers, Finish(p)
    PROVE  IInv'
<1>1. TypeOK /\ WorkerAt(p) /\ Worker /\ wpc[p] \notin {"loop", "dequeue"}
  BY DEF IInv, WorkerInv, Finish
<1>2. PICK r \in Jobs :
        /\ r = cur[p] /\ r # None /\ p = Printer(r) /\ Printer(r)' = Printer(r)
        /\ sent[r] \in {0, 1} /\ whole[r] \in BOOLEAN
        /\ sent[r] > 0 => job[r].state \in {"writing", "transport_accepted", "outcome_unknown"}
        /\ job[r].state = "transport_accepted" => whole[r]
        /\ ~InQueue(r) /\ (queue' = queue => ~InQueue(r)')
  BY <1>1, JobInHand
<1>3. PICK o \in Outcomes : Spend("fault", Faults(o)) /\ WriteJob(r, Rec(verdict[p], TRUE), o)
  BY <1>2 DEF Finish
<1>4. Rec(verdict[p], TRUE) \in Records
  BY <1>1, RecType DEF TypeOK, TypeWorkers, States
<1>5. /\ job' \in [Jobs -> Records]
      /\ \A s \in Jobs : s # r => job'[s] = job[s]
      /\ job'[r] = IF Landed(o) THEN Rec(verdict[p], TRUE) ELSE job[r]
  BY <1>1, <1>3, <1>4, WriteJobType DEF TypeOK, TypeRecords
<1>6. \/ verdict[p] = "failed" /\ job[r].state = "writing" /\ sent[r] = 0
      \/ verdict[p] = "outcome_unknown" /\ job[r].state = "writing" /\ sent[r] = 1
      \/ /\ verdict[p] = "transport_accepted" /\ sent[r] = 1 /\ whole[r]
         /\ job[r].state \in {"writing", "transport_accepted"}
  BY <1>1, <1>2 DEF Finish, WorkerAt
<1>7. UNCHANGED <<reply, cancelled, queue, paused, qfile, pfile, chan, sent, whole>>
  BY DEF Finish, loopVars, paperVars
<1>8. /\ TypeWorkers' /\ cur'[p] = None
      /\ \A q \in Printers : wpc'[q] = "loop" <=> cur'[q] = None
      /\ \A q \in Printers : q # p =>
           cur'[q] = cur[q] /\ wpc'[q] = wpc[q] /\ verdict'[q] = verdict[q]
  BY <1>1, ReturnType DEF Finish
<1>9. TypePaper'
  BY <1>1, <1>3, <1>7, SpendType, FaultsType DEF TypeOK, TypePaper
<1>10. TypeOK'
  BY <1>1, <1>5, <1>7, <1>8, <1>9, WorkerType DEF TypeOK, TypeHandlers, TypeQueues, TypeChannels
<1>11. WorkerAt(p)'
  BY <1>8 DEF WorkerAt
<1>12. /\ sent[r] > 0 => job'[r].state \in {"writing", "transport_accepted", "outcome_unknown"}
       /\ job'[r].state = "transport_accepted" => whole[r]
  BY <1>2, <1>5, <1>6 DEF Rec
<1> QED BY <1>1, <1>2, <1>5, <1>7, <1>8, <1>10, <1>11, <1>12, InHandStep

-----------------------------------------------------------------------------
(* The worker at its queue and its channel.                                  *)

\* A job in a queue has sent nothing; it belongs to the queue's printer.
LEMMA JobInQueue ==
    ASSUME IInv, NEW p \in Printers, NEW i \in DOMAIN queue[p]
    PROVE  /\ queue[p][i] \in Jobs /\ InQueue(queue[p][i]) /\ Printer(queue[p][i]) = p
           /\ job[queue[p][i]].state \in {"queued", "cancelled"}
           /\ sent[queue[p][i]] = 0
           /\ \A k \in DOMAIN queue[p] : queue[p][k] = queue[p][i] => k = i
<1>1. queue[p] \in Seq(Jobs)
  BY DEF IInv, TypeOK, TypeQueues
<1>2. PICK s \in Jobs : s = queue[p][i]
  BY <1>1
<1>3. /\ InQueue(s) /\ Printer(s) = p /\ job[s].state \in {"queued", "cancelled"}
      /\ \A k \in DOMAIN queue[p] : queue[p][k] = s => k = i
  BY <1>2 DEF IInv, QueueInv, InQueue, Waiting
<1>4. sent[s] \in Nat /\ ~(sent[s] > 0)
  BY <1>3 DEF IInv, RecordHonest, TypeOK, TypePaper
<1> QED BY <1>2, <1>3, <1>4

\* A step that takes jobs out of the queue, or cancels one that is in it.
LEMMA QueueStep ==
    ASSUME IInv, TypeOK', Worker, NEW p \in Printers,
           UNCHANGED <<reply, sent, whole>>,
           \A q \in Printers : q # p =>
             /\ queue'[q] = queue[q] /\ chan'[q] = chan[q]
             /\ cur'[q] = cur[q] /\ wpc'[q] = wpc[q] /\ verdict'[q] = verdict[q],
           Fewer(queue'[p], queue[p]), Fewer(chan'[p], chan[p]),
           \A s \in Jobs : job'[s] # job[s] =>
             Waiting(p, s) /\ job'[s].state \in {"queued", "cancelled"},
           \A s \in Jobs : cur'[p] = s => Waiting(p, s),
           WorkerAt(p)'
    PROVE  IInv'
<1>1. \A q \in Printers : Fewer(queue'[q], queue[q]) /\ Fewer(chan'[q], chan[q])
  BY FewerSame
<1>2. \A s \in Jobs : InQueue(s)' => InQueue(s)
  BY <1>1 DEF InQueue, Waiting, Fewer
<1>3. \A s \in Jobs : InQueue(s) => job[s].state \in {"queued", "cancelled"} /\ sent[s] = 0
  BY JobInQueue DEF InQueue, Waiting
<1>4. \A s \in Jobs : Waiting(p, s) => InQueue(s) /\ Printer(s) = p
  BY JobInQueue DEF InQueue, Waiting
<1>5. \A s \in Jobs : InQueue(s)' => job'[s].state \in {"queued", "cancelled"}
  BY <1>2, <1>3
<1>6. \A s \in Jobs : ~InHand(s) /\ ~InQueue(s) => ~InHand(s)'
  BY <1>4 DEF InHand
<1>7. SentOnce' /\ RecordHonest'
  <2>1. SentOnce'
    BY DEF IInv, SentOnce
  <2>2. ASSUME NEW s \in Jobs
        PROVE  /\ sent[s] > 0 => job'[s].state \in {"writing", "transport_accepted",
                                                    "outcome_unknown"}
               /\ job'[s].state = "transport_accepted" => whole[s]
    BY <1>3, <1>4 DEF IInv, RecordHonest
  <2> QED BY <2>1, <2>2 DEF RecordHonest
<1>8. WorkersOwnJobs(p)
  BY <1>1, <1>2, <1>4, <1>5, <1>6, <1>7 DEF WorkersOwnJobs
<1> QED BY <1>8, WorkerFrame

\* The head of the queue is taken in hand, and is in no queue any more.
LEMMA PopSafe ==
    ASSUME IInv, NEW p \in Printers, Pop(p)
    PROVE  IInv'
<1>1. /\ TypeOK /\ Worker /\ wpc[p] = "loop" /\ cur[p] = None /\ queue[p] # <<>>
      /\ UNCHANGED <<job, reply, cancelled, paused, pfile, chan, attempt, verdict, sent, whole>>
  BY DEF IInv, Pop, TypeOK, paperVars
<1>2. /\ queue[p] \in Seq(Jobs) /\ Tail(queue[p]) \in Seq(Jobs) /\ Head(queue[p]) \in Jobs
      /\ Fewer(Tail(queue[p]), queue[p])
      /\ \A k \in DOMAIN Tail(queue[p]) : k + 1 \in DOMAIN queue[p]
                                         /\ Tail(queue[p])[k] = queue[p][k + 1]
      /\ 1 \in DOMAIN queue[p] /\ Head(queue[p]) = queue[p][1]
  <2>1. queue[p] \in Seq(Jobs)
    BY <1>1 DEF TypeOK, TypeQueues
  <2> QED BY <1>1, <2>1, FewerTail
<1>3. PICK o \in Outcomes :
        /\ Spend("fault", Faults(o))
        /\ WriteQueue(p, Tail(queue[p]), o)
        /\ IF o = "ok" THEN /\ queue' = [queue EXCEPT ![p] = Tail(@)]
                            /\ cur' = [cur EXCEPT ![p] = Head(queue[p])]
                            /\ Step(p, "load")
                       ELSE UNCHANGED <<queue, cur, wpc>>
  BY DEF Pop
<1>4. TypePaper'
  BY <1>1, <1>3, SpendType, FaultsType DEF TypeOK, TypePaper
<1>5. qfile' \in [Printers -> Seq(Jobs)]
  BY <1>1, <1>2, <1>3 DEF WriteQueue, TypeOK, TypeQueues
<1>6. CASE o = "ok"
  <2>1. PICK r \in Jobs : r = Head(queue[p])
    BY <1>2
  <2>2. /\ wpc' \in [Printers -> WorkerPCs] /\ wpc'[p] = "load"
        /\ \A q \in Printers : q # p => wpc'[q] = wpc[q]
    BY <1>1, <1>3, <1>6, StepType DEF WorkerPCs
  <2>3. /\ cur' \in [Printers -> Jobs \cup {None}] /\ cur'[p] = r
        /\ \A q \in Printers : q # p => cur'[q] = cur[q]
    BY <1>1, <1>3, <1>6, <2>1 DEF TypeOK, TypeWorkers
  <2>4. /\ queue' \in [Printers -> Seq(Jobs)] /\ queue'[p] = Tail(queue[p])
        /\ \A q \in Printers : q # p => queue'[q] = queue[q]
    BY <1>1, <1>2, <1>3, <1>6 DEF TypeOK, TypeQueues
  <2>5. r # None
    BY JobsAssumption
  <2>6. TypeWorkers' /\ \A q \in Printers : wpc'[q] = "loop" <=> cur'[q] = None
    BY <1>1, <2>2, <2>3, <2>5 DEF TypeOK, TypeWorkers
  <2>7. TypeQueues'
    BY <1>1, <1>5, <2>4 DEF TypeOK, TypeQueues
  <2>8. TypeOK'
    BY <1>1, <1>4, <2>6, <2>7, WorkerType DEF TypeOK, TypeRecords, TypeHandlers, TypeChannels
  <2>9. /\ Waiting(p, r) /\ Printer(r) = p /\ job[r].state \in {"queued", "cancelled"}
        /\ \A q \in Printers : \A k \in DOMAIN queue[q] : queue[q][k] = r => q = p /\ k = 1
    BY <1>2, <2>1, JobInQueue DEF Waiting
  <2>10. \A k \in DOMAIN queue'[p] : queue'[p][k] # r
    <3> SUFFICES ASSUME NEW k \in DOMAIN Tail(queue[p]), Tail(queue[p])[k] = r PROVE FALSE
      BY <2>4
    <3>1. k + 1 = 1
      BY <1>2, <2>9
    <3>2. k \in 1..Len(Tail(queue[p]))
      BY <1>2
    <3> QED BY <3>1, <3>2
  <2>11. ~InQueue(r)'
    BY <2>4, <2>9, <2>10 DEF InQueue, Waiting
  <2>12. Printer(r)' = Printer(r)
    BY <1>1 DEF Worker, Printer
  <2>13. WorkerAt(p)'
    BY <1>1, <2>2, <2>3, <2>9, <2>11, <2>12 DEF WorkerAt
  <2>14. Fewer(queue'[p], queue[p]) /\ Fewer(chan'[p], chan[p])
    BY <1>1, <1>2, <2>4, FewerSame
  <2> QED BY <1>1, <2>2, <2>3, <2>4, <2>8, <2>9, <2>13, <2>14, QueueStep
<1>7. CASE o # "ok"
  <2>1. UNCHANGED <<queue, cur, wpc>>
    BY <1>3, <1>7
  <2>2. TypeOK'
    BY <1>1, <1>4, <1>5, <2>1, WorkerType DEF TypeOK, TypeRecords, TypeHandlers, TypeQueues,
       TypeChannels, TypeWorkers
  <2>3. WorkerAt(p)' /\ \A s \in Jobs : cur'[p] # s
    BY <1>1, <2>1, JobsAssumption DEF WorkerAt
  <2>4. Fewer(queue'[p], queue[p]) /\ Fewer(chan'[p], chan[p])
    BY <1>1, <2>1, FewerSame
  <2> QED BY <1>1, <2>1, <2>2, <2>3, <2>4, QueueStep
<1> QED BY <1>6, <1>7

\* A command says what it is.
LEMMA CommandForm ==
    ASSUME NEW c \in Commands
    PROVE  /\ c.flag \in BOOLEAN
           /\ c.op = "enqueue" => \E r \in Jobs : c = Enq(r) /\ c.job = r
<1>1. ASSUME NEW r \in Jobs, c = Enq(r) PROVE c.flag \in BOOLEAN /\ c.job = r
  BY <1>1 DEF Enq
<1>2. ASSUME NEW r \in Jobs, c = Cancel(r) PROVE c.flag \in BOOLEAN /\ c.op = "cancel"
  BY <1>2 DEF Cancel
<1>3. ASSUME NEW b \in BOOLEAN, c = Pause(b) PROVE c.flag \in BOOLEAN /\ c.op = "pause"
  BY <1>3 DEF Pause
<1>4. \/ \E r \in Jobs : c = Enq(r) \/ c = Cancel(r)
      \/ \E b \in BOOLEAN : c = Pause(b)
  BY DEF Commands
<1> QED BY <1>1, <1>2, <1>3, <1>4

\* The command at the head of a channel is received once.
LEMMA ReceiveType ==
    ASSUME IInv, NEW p \in Printers, NEW op, Receive(p, op)
    PROVE  /\ TypeOK /\ Worker /\ wpc[p] = "loop" /\ cur[p] = None
           /\ UNCHANGED <<attempt, verdict, sent, whole>>
           /\ TypeChannels' /\ chan'[p] = Tail(chan[p])
           /\ chan[p] \in Seq(Commands) /\ chan[p] # <<>>
           /\ Fewer(chan'[p], chan[p])
           /\ \A q \in Printers : q # p => chan'[q] = chan[q]
           /\ Head(chan[p]) \in Commands /\ Head(chan[p]).op = op
<1>1. /\ TypeOK /\ Worker /\ wpc[p] = "loop" /\ cur[p] = None
      /\ UNCHANGED <<attempt, verdict, sent, whole>>
      /\ chan[p] # <<>> /\ Head(chan[p]).op = op
      /\ chan' = [chan EXCEPT ![p] = Tail(@)]
  BY DEF IInv, Receive, TypeOK, paperVars
<1>2. chan \in [Printers -> Seq(Commands)]
  BY <1>1 DEF TypeOK, TypeChannels
<1>3. chan[p] \in Seq(Commands)
  BY <1>2
<1>4. Tail(chan[p]) \in Seq(Commands) /\ Head(chan[p]) \in Commands /\ Fewer(Tail(chan[p]), chan[p])
  BY <1>1, <1>3, FewerTail
<1>5. chan'[p] = Tail(chan[p]) /\ \A q \in Printers : q # p => chan'[q] = chan[q]
  BY <1>1, <1>2
<1>6. TypeChannels'
  BY <1>1, <1>2, <1>4 DEF TypeChannels
<1> QED BY <1>1, <1>3, <1>4, <1>5, <1>6

\* Pausing, and a cancellation that is refused, touch no job.
LEMMA OtherCommandSafe ==
    ASSUME IInv, NEW p \in Printers, ReceivePause(p) \/ RefuseCancel(p)
    PROVE  IInv'
<1>1. /\ TypeOK /\ Worker /\ wpc[p] = "loop" /\ cur[p] = None
      /\ UNCHANGED <<attempt, verdict, sent, whole>>
      /\ TypeChannels' /\ chan[p] \in Seq(Commands) /\ Fewer(chan'[p], chan[p])
      /\ \A q \in Printers : q # p => chan'[q] = chan[q]
      /\ Head(chan[p]) \in Commands
  BY ReceiveType DEF ReceivePause, RefuseCancel
<1>2. UNCHANGED <<job, reply, queue, qfile, wpc, cur>>
  BY DEF ReceivePause, RefuseCancel, loopVars
<1>3. paused' \in [Printers -> BOOLEAN] /\ pfile' \in [Printers -> BOOLEAN]
  <2>1. Head(chan[p]).flag \in BOOLEAN
    BY <1>1, CommandForm
  <2>2. paused \in [Printers -> BOOLEAN] /\ pfile \in [Printers -> BOOLEAN]
    BY <1>1 DEF TypeOK, TypeQueues
  <2>3. CASE ReceivePause(p)
    BY <2>1, <2>2, <2>3 DEF ReceivePause
  <2>4. CASE RefuseCancel(p)
    BY <2>2, <2>4 DEF RefuseCancel, loopVars
  <2> QED BY <2>3, <2>4
<1>4. cancelled' \in [Jobs -> {"none", "asked", "ok", "err"}]
  BY <1>1 DEF ReceivePause, RefuseCancel, TypeOK, TypeHandlers
<1>5. TypePaper'
  BY <1>1, SpendType, FaultsType DEF ReceivePause, RefuseCancel, TypeOK, TypePaper
<1>6. TypeOK'
  BY <1>1, <1>2, <1>3, <1>4, <1>5, WorkerType DEF TypeOK, TypeRecords, TypeHandlers, TypeQueues,
     TypeWorkers
<1>7. WorkerAt(p)' /\ \A s \in Jobs : cur'[p] # s
  BY <1>1, <1>2, JobsAssumption DEF WorkerAt
<1>8. Fewer(queue'[p], queue[p])
  BY <1>2, FewerSame
<1> QED BY <1>1, <1>2, <1>6, <1>7, <1>8, QueueStep

\* A cancellation reaches jobs that wait in the queue only.
LEMMA CancelRecordSafe ==
    ASSUME IInv, NEW p \in Printers, CancelRecord(p)
    PROVE  IInv'
<1>1. /\ TypeOK /\ Worker /\ wpc[p] = "loop" /\ cur[p] = None
      /\ UNCHANGED <<attempt, verdict, sent, whole>>
      /\ TypeChannels' /\ Fewer(chan'[p], chan[p])
      /\ \A q \in Printers : q # p => chan'[q] = chan[q]
  BY ReceiveType DEF CancelRecord
<1>2. Waiting(p, Subject(p)) /\ UNCHANGED <<reply, queue, paused, qfile, pfile>>
  BY DEF CancelRecord, loopVars
<1>3. PICK r \in Jobs : r = Subject(p) /\ Waiting(p, r) /\ Printer(r) = p
  BY <1>2, JobInQueue DEF Waiting
<1>4. PICK o \in Outcomes :
        /\ Spend("fault", Faults(o))
        /\ WriteJob(r, Rec("cancelled", TRUE), o)
        /\ IF o = "ok" THEN /\ Step(p, "dequeue") /\ cur' = [cur EXCEPT ![p] = r]
                            /\ UNCHANGED cancelled
                       ELSE /\ cancelled' = [cancelled EXCEPT ![r] = "err"]
                            /\ UNCHANGED <<wpc, cur>>
  BY <1>3 DEF CancelRecord
<1>5. /\ job' \in [Jobs -> Records]
      /\ \A s \in Jobs : s # r => job'[s] = job[s]
      /\ job'[r] = IF Landed(o) THEN Rec("cancelled", TRUE) ELSE job[r]
  BY <1>1, <1>4, WriteJobType, RecType DEF TypeOK, TypeRecords, States, Terminal
<1>6. job'[r] # job[r] => job'[r].state = "cancelled"
  BY <1>5 DEF Rec
<1>7. TypePaper'
  BY <1>1, <1>4, SpendType, FaultsType DEF TypeOK, TypePaper
<1>8. cancelled' \in [Jobs -> {"none", "asked", "ok", "err"}]
  BY <1>1, <1>4 DEF TypeOK, TypeHandlers
<1> DEFINE Moved ==
        /\ TypeWorkers' /\ WorkerAt(p)' /\ cur'[p] \in {r, None}
        /\ \A q \in Printers : wpc'[q] = "loop" <=> cur'[q] = None
        /\ \A q \in Printers : q # p =>
             cur'[q] = cur[q] /\ wpc'[q] = wpc[q] /\ verdict'[q] = verdict[q]
<1>9. ASSUME o = "ok" PROVE Moved
  <2>1. /\ wpc' \in [Printers -> WorkerPCs] /\ wpc'[p] = "dequeue"
        /\ \A q \in Printers : q # p => wpc'[q] = wpc[q]
    BY <1>1, <1>4, <1>9, StepType DEF WorkerPCs
  <2>2. /\ cur' \in [Printers -> Jobs \cup {None}] /\ cur'[p] = r
        /\ \A q \in Printers : q # p => cur'[q] = cur[q]
    BY <1>1, <1>4, <1>9 DEF TypeOK, TypeWorkers
  <2>3. r # None /\ Printer(r)' = Printer(r)
    BY <1>1, JobsAssumption DEF Worker, Printer
  <2>4. job'[r].state = "cancelled"
    BY <1>5, <1>9 DEF Landed, Rec
  <2>5. TypeWorkers' /\ \A q \in Printers : wpc'[q] = "loop" <=> cur'[q] = None
    BY <1>1, <2>1, <2>2, <2>3 DEF TypeOK, TypeWorkers
  <2>6. WorkerAt(p)'
    BY <1>3, <2>1, <2>2, <2>3, <2>4 DEF WorkerAt
  <2> QED BY <1>1, <2>1, <2>2, <2>5, <2>6
<1>10. ASSUME o # "ok" PROVE Moved
  <2>1. UNCHANGED <<wpc, cur, attempt, verdict>>
    BY <1>1, <1>4, <1>10
  <2>2. TypeWorkers' /\ \A q \in Printers : wpc'[q] = "loop" <=> cur'[q] = None
    BY <1>1, <2>1 DEF TypeOK, TypeWorkers
  <2> QED BY <1>1, <2>1, <2>2 DEF WorkerAt
<1>11. TypeOK'
  BY <1>1, <1>2, <1>5, <1>7, <1>8, <1>9, <1>10, WorkerType DEF TypeOK, TypeHandlers, TypeQueues
<1>12. \A s \in Jobs : cur'[p] = s => s = r
  BY <1>9, <1>10, JobsAssumption
<1>13. Fewer(queue'[p], queue[p])
  BY <1>2, FewerSame
<1> QED BY <1>1, <1>2, <1>3, <1>5, <1>6, <1>9, <1>10, <1>11, <1>12, <1>13, QueueStep

\* The cancelled job leaves the queue.
LEMMA CancelDequeueSafe ==
    ASSUME IInv, NEW p \in Printers, CancelDequeue(p)
    PROVE  IInv'
<1>1. /\ TypeOK /\ Worker /\ Return(p)
      /\ UNCHANGED <<job, reply, paused, pfile, chan, sent, whole>>
  BY DEF IInv, CancelDequeue, paperVars
<1>2. PICK o \in Outcomes, i \in DOMAIN queue[p] :
        /\ queue[p][i] = cur[p]
        /\ Spend("fault", Faults(o))
        /\ WriteQueue(p, RemoveAt(queue[p], i), o)
        /\ queue' = IF o = "ok" THEN [queue EXCEPT ![p] = RemoveAt(@, i)] ELSE queue
        /\ cancelled' = [cancelled EXCEPT ![cur[p]] = IF o = "ok" THEN "ok" ELSE "err"]
  BY DEF CancelDequeue
<1>3. RemoveAt(queue[p], i) \in Seq(Jobs) /\ Fewer(RemoveAt(queue[p], i), queue[p])
  <2>1. queue[p] \in Seq(Jobs)
    BY <1>1 DEF TypeOK, TypeQueues
  <2> QED BY <2>1, FewerRemoveAt
<1>4. TypeQueues'
  BY <1>1, <1>2, <1>3 DEF WriteQueue, TypeOK, TypeQueues
<1>5. /\ \A q \in Printers : q # p => queue'[q] = queue[q]
      /\ queue'[p] \in {queue[p], RemoveAt(queue[p], i)}
  BY <1>1, <1>2 DEF TypeOK, TypeQueues
<1>6. Fewer(queue'[p], queue[p]) /\ Fewer(chan'[p], chan[p])
  BY <1>1, <1>3, <1>5, FewerSame
<1>7. cancelled' \in [Jobs -> {"none", "asked", "ok", "err"}]
  BY <1>1, <1>2 DEF TypeOK, TypeHandlers
<1>8. TypePaper'
  BY <1>1, <1>2, SpendType, FaultsType DEF TypeOK, TypePaper
<1>9. /\ TypeWorkers' /\ cur'[p] = None
      /\ \A q \in Printers : wpc'[q] = "loop" <=> cur'[q] = None
      /\ \A q \in Printers : q # p =>
           cur'[q] = cur[q] /\ wpc'[q] = wpc[q] /\ verdict'[q] = verdict[q]
  BY <1>1, ReturnType
<1>10. TypeOK'
  BY <1>1, <1>4, <1>7, <1>8, <1>9, WorkerType DEF TypeOK, TypeRecords, TypeHandlers, TypeChannels
<1>11. WorkerAt(p)' /\ \A s \in Jobs : cur'[p] # s
  BY <1>9, JobsAssumption DEF WorkerAt
<1> QED BY <1>1, <1>5, <1>6, <1>9, <1>10, <1>11, QueueStep

\* An Enqueue is received: the job joins the queue, or its handler hears why not.
LEMMA ReceiveEnqueueSafe ==
    ASSUME IInv, NEW p \in Printers, ReceiveEnqueue(p)
    PROVE  IInv'
<1>1. /\ TypeOK /\ Worker /\ wpc[p] = "loop" /\ cur[p] = None
      /\ UNCHANGED <<attempt, verdict, sent, whole>>
      /\ TypeChannels' /\ chan'[p] = Tail(chan[p])
      /\ chan[p] \in Seq(Commands) /\ chan[p] # <<>> /\ Fewer(chan'[p], chan[p])
      /\ \A q \in Printers : q # p => chan'[q] = chan[q]
      /\ Head(chan[p]) \in Commands /\ Head(chan[p]).op = "enqueue"
  BY ReceiveType DEF ReceiveEnqueue
<1>2. PICK r \in Jobs : Head(chan[p]) = Enq(r) /\ Subject(p) = r
  BY <1>1, CommandForm DEF Subject
<1>3. /\ 1 \in DOMAIN chan[p] /\ Head(chan[p]) = chan[p][1]
      /\ \A k \in DOMAIN chan'[p] : k + 1 \in DOMAIN chan[p] /\ chan'[p][k] = chan[p][k + 1]
      /\ DOMAIN chan'[p] \subseteq Nat \ {0}
  <2>1. DOMAIN chan'[p] = 1..Len(chan'[p]) /\ Len(chan'[p]) \in Nat
    BY <1>1 DEF TypeChannels
  <2> QED BY <1>1, <2>1, FewerTail
<1>4. /\ p = Printer(r) /\ job[r].state = "queued" /\ reply[r] = "none"
      /\ hpc[r] \in {"await", "done"} /\ ~InQueue(r) /\ ~InHand(r)
      /\ \A k \in DOMAIN chan[p] : chan[p][k] = Enq(r) => k = 1
  BY <1>2, <1>3 DEF IInv, ChannelInv
<1>5. \A q \in Printers, s \in Jobs : \A i \in DOMAIN chan'[q] :
        chan'[q][i] = Enq(s) =>
          /\ s # r
          /\ \E m \in DOMAIN chan[q] : chan[q][m] = Enq(s)
          /\ \A k \in DOMAIN chan'[q] : chan'[q][k] = Enq(s) => k = i
  <2> SUFFICES ASSUME NEW q \in Printers, NEW s \in Jobs, NEW i \in DOMAIN chan'[q],
                      chan'[q][i] = Enq(s)
               PROVE  /\ s # r
                      /\ \E m \in DOMAIN chan[q] : chan[q][m] = Enq(s)
                      /\ \A k \in DOMAIN chan'[q] : chan'[q][k] = Enq(s) => k = i
    OBVIOUS
  <2>1. CASE q = p
    <3>1. i + 1 \in DOMAIN chan[p] /\ chan[p][i + 1] = Enq(s) /\ i \in Nat \ {0}
      BY <1>3, <2>1
    <3>2. i + 1 # 1
      BY <3>1
    <3>3. s # r
      BY <1>4, <3>1, <3>2
    <3>4. \A k, l \in DOMAIN chan[p] : chan[p][k] = Enq(s) /\ chan[p][l] = Enq(s) => k = l
      BY DEF IInv, ChannelInv
    <3>5. ASSUME NEW k \in DOMAIN chan'[p], chan'[p][k] = Enq(s) PROVE k = i
      <4>1. k + 1 = i + 1 /\ k \in Nat
        BY <1>3, <3>1, <3>4, <3>5
      <4> QED BY <3>1, <4>1
    <3> QED BY <2>1, <3>1, <3>3, <3>5
  <2>2. CASE q # p
    <3>1. chan'[q] = chan[q]
      BY <1>1, <2>2
    <3>2. q = Printer(s) /\ \A k \in DOMAIN chan[q] : chan[q][k] = Enq(s) => k = i
      BY <3>1 DEF IInv, ChannelInv
    <3> QED BY <1>4, <2>2, <3>1, <3>2
  <2> QED BY <2>1, <2>2
<1>6. PICK o \in Outcomes :
        /\ Spend("fault", Faults(o))
        /\ WriteQueue(p, Append(queue[p], r), o)
        /\ queue' = IF o = "ok" THEN [queue EXCEPT ![p] = Append(@, r)] ELSE queue
        /\ reply' = [reply EXCEPT ![r] = IF o = "ok" THEN "ok" ELSE "err"]
  BY <1>2 DEF ReceiveEnqueue
<1>7. UNCHANGED <<req, hpc, job, cancelled, paused, pfile, wpc, cur, up>> /\ up
  BY <1>1 DEF ReceiveEnqueue, Worker, handlerVars
<1>8. queue[p] \in Seq(Jobs) /\ Append(queue[p], r) \in Seq(Jobs)
  BY <1>1 DEF TypeOK, TypeQueues
<1>9. TypeOK'
  <2>1. TypeQueues'
    BY <1>1, <1>6, <1>7, <1>8 DEF WriteQueue, TypeOK, TypeQueues
  <2>2. TypePaper'
    BY <1>1, <1>6, SpendType, FaultsType DEF TypeOK, TypePaper
  <2>3. reply' \in [Jobs -> {"none", "ok", "err"}]
    BY <1>1, <1>6 DEF TypeOK, TypeHandlers
  <2>4. TypeWorkers' /\ \A q \in Printers : wpc'[q] = "loop" <=> cur'[q] = None
    BY <1>1, <1>7 DEF TypeOK, TypeWorkers
  <2> QED BY <1>1, <1>7, <2>1, <2>2, <2>3, <2>4, WorkerType DEF TypeOK, TypeRecords, TypeHandlers
<1>10. /\ \A q \in Printers : q # p => queue'[q] = queue[q]
       /\ o # "ok" => queue'[p] = queue[p]
       /\ o = "ok" => queue'[p] = Append(queue[p], r)
  BY <1>1, <1>6 DEF TypeOK, TypeQueues
<1>11. \A q \in Printers : \A i \in DOMAIN queue'[q] :
         \/ i \in DOMAIN queue[q] /\ queue'[q][i] = queue[q][i]
         \/ o = "ok" /\ q = p /\ queue'[q][i] = r /\ i = Len(queue[p]) + 1
  BY <1>8, <1>10
<1>12. \A q \in Printers : \A i \in DOMAIN queue[q] :
         i \in DOMAIN queue'[q] /\ queue'[q][i] = queue[q][i]
  BY <1>8, <1>10
<1>13. \A s \in Jobs : s # r => InQueue(s)' = InQueue(s)
  <2> SUFFICES ASSUME NEW s \in Jobs, s # r PROVE InQueue(s)' = InQueue(s)
    OBVIOUS
  <2>1. InQueue(s)' => InQueue(s)
    BY <1>11 DEF InQueue, Waiting
  <2>2. InQueue(s) => InQueue(s)'
    BY <1>12 DEF InQueue, Waiting
  <2>3. InQueue(s) \in BOOLEAN /\ InQueue(s)' \in BOOLEAN
    BY DEF InQueue
  <2> QED BY <2>1, <2>2, <2>3
<1>14. o # "ok" => ~InQueue(r)'
  <2>1. ASSUME o # "ok", InQueue(r)' PROVE InQueue(r)
    BY <1>11, <2>1 DEF InQueue, Waiting
  <2> QED BY <1>4, <2>1
<1>15. \A s \in Jobs : InHand(s)' = InHand(s)
  BY <1>7 DEF InHand
<1>16. \A s \in Jobs : InChannel(s)' => s # r /\ InChannel(s)
  BY <1>5 DEF InChannel, Enq
<1>17. HandlerInv'
  <2> SUFFICES ASSUME NEW s \in Jobs PROVE HandlerAt(s)'
    BY DEF HandlerInv
  <2>1. HandlerAt(s)
    BY DEF IInv, HandlerInv
  <2>2. CASE s # r
    <3>1. reply'[s] = reply[s]
      BY <1>1, <1>6, <2>2 DEF TypeOK, TypeHandlers
    <3>2. Loose(s) => Loose(s)'
      BY <1>13, <1>15, <1>16, <2>2 DEF Loose
    <3> QED BY <1>7, <2>1, <3>1, <3>2 DEF HandlerAt, Hold
  <2>3. CASE s = r
    <3>1. reply'[r] = IF o = "ok" THEN "ok" ELSE "err"
      BY <1>1, <1>6 DEF TypeOK, TypeHandlers
    <3>2. reply'[r] = "err" => Loose(r)'
      BY <1>4, <1>14, <1>15, <1>16, <3>1 DEF Loose
    <3> QED BY <1>4, <1>7, <2>3, <3>1, <3>2 DEF HandlerAt
  <2> QED BY <2>2, <2>3
<1>18. ChannelInv'
  <2> SUFFICES ASSUME NEW q \in Printers, NEW s \in Jobs, NEW i \in DOMAIN chan'[q],
                      chan'[q][i] = Enq(s)
               PROVE  /\ q = Printer(s) /\ job[s].state = "queued" /\ reply'[s] = "none"
                      /\ hpc[s] \in {"await", "done"}
                      /\ ~InQueue(s)' /\ ~InHand(s)'
                      /\ \A k \in DOMAIN chan'[q] : chan'[q][k] = Enq(s) => k = i
    BY <1>7 DEF ChannelInv, Printer
  <2>1. /\ s # r
        /\ \E m \in DOMAIN chan[q] : chan[q][m] = Enq(s)
        /\ \A k \in DOMAIN chan'[q] : chan'[q][k] = Enq(s) => k = i
    BY <1>5
  <2>2. /\ q = Printer(s) /\ job[s].state = "queued" /\ reply[s] = "none"
        /\ hpc[s] \in {"await", "done"} /\ ~InQueue(s) /\ ~InHand(s)
    BY <2>1 DEF IInv, ChannelInv
  <2>3. reply'[s] = reply[s]
    BY <1>1, <1>6, <2>1 DEF TypeOK, TypeHandlers
  <2> QED BY <1>13, <1>15, <2>1, <2>2, <2>3
<1>19. QueueInv'
  <2> SUFFICES ASSUME NEW q \in Printers, NEW i \in DOMAIN queue'[q]
               PROVE  /\ q = Printer(queue'[q][i])
                      /\ job[queue'[q][i]].state \in {"queued", "cancelled"}
                      /\ \A k \in DOMAIN queue'[q] : queue'[q][k] = queue'[q][i] => k = i
    BY <1>7 DEF QueueInv, Printer
  <2>1. \A k \in DOMAIN queue[q] : queue[q][k] # r
    BY <1>4 DEF InQueue, Waiting
  <2>2. CASE i \in DOMAIN queue[q] /\ queue'[q][i] = queue[q][i]
    <3>1. /\ q = Printer(queue[q][i]) /\ job[queue[q][i]].state \in {"queued", "cancelled"}
          /\ \A k \in DOMAIN queue[q] : queue[q][k] = queue[q][i] => k = i
      BY <2>2 DEF IInv, QueueInv
    <3>2. ASSUME NEW k \in DOMAIN queue'[q], queue'[q][k] = queue'[q][i] PROVE k = i
      BY <1>11, <2>1, <2>2, <3>1, <3>2
    <3> QED BY <2>2, <3>1, <3>2
  <2>3. CASE o = "ok" /\ q = p /\ queue'[q][i] = r /\ i = Len(queue[p]) + 1
    <3>1. ASSUME NEW k \in DOMAIN queue'[q], queue'[q][k] = queue'[q][i] PROVE k = i
      BY <1>11, <2>1, <2>3, <3>1
    <3> QED BY <1>4, <2>3, <3>1
  <2> QED BY <1>11, <2>2, <2>3
<1>20. WorkerInv'
  <2> SUFFICES ASSUME NEW q \in Printers PROVE WorkerAt(q)'
    BY DEF WorkerInv
  <2>1. WorkerAt(q) /\ (cur[q] # None => cur[q] \in Jobs /\ cur[q] # r)
    BY <1>1, <1>4 DEF IInv, WorkerInv, InHand, TypeOK, TypeWorkers
  <2>2. cur[q] # None => InQueue(cur[q]) = (\E x \in Printers : \E i \in DOMAIN queue'[x] :
                                              queue'[x][i] = cur[q])
    BY <1>13, <2>1 DEF InQueue, Waiting
  <2> QED BY <1>1, <1>7, <2>1, <2>2 DEF WorkerAt, Printer, InQueue, Waiting
<1>21. DownInv' /\ SentOnce' /\ RecordHonest'
  BY <1>1, <1>7 DEF IInv, DownInv, SentOnce, RecordHonest
<1> QED BY <1>9, <1>17, <1>18, <1>19, <1>20, <1>21 DEF IInv

\* The inductive invariant is kept by every step of a worker.
LEMMA WorkerSafe ==
    ASSUME IInv, NEW p \in Printers, WorkerStep(p)
    PROVE  IInv'
  BY PopSafe, BeginSafe, SkipSafe, SendSafe, AcceptSafe, FinishSafe, ReceiveEnqueueSafe,
     OtherCommandSafe, CancelRecordSafe, CancelDequeueSafe DEF WorkerStep

-----------------------------------------------------------------------------
(* Crash, recovery and start.                                                *)

\* The stopped agent remembers nothing; every file is as it was.
LEMMA CrashSafe ==
    ASSUME IInv, Crash
    PROVE  IInv'
<1>1. /\ TypeOK /\ UNCHANGED <<req, job, birth, index, qfile, pfile, sent, whole>>
      /\ up' = FALSE /\ lock' = None /\ reply' = [r \in Jobs |-> "none"]
  BY DEF IInv, Crash, recordVars, paperVars
<1>2. /\ queue' = [p \in Printers |-> <<>>] /\ chan' = [p \in Printers |-> <<>>]
      /\ cur' = [p \in Printers |-> None] /\ wpc' = [p \in Printers |-> "loop"]
      /\ paused' = [p \in Printers |-> FALSE] /\ attempt' = [p \in Printers |-> 0]
      /\ verdict' = [p \in Printers |-> "failed"]
  BY DEF Crash
<1>3. hpc' \in [Jobs -> {"new", "done"}]
      /\ \A r \in Jobs : hpc'[r] = IF hpc[r] = "new" THEN "new" ELSE "done"
  BY DEF Crash
<1>4. answer' \in [Jobs -> [kind : AnswerKinds, job : Jobs]]
  BY <1>1 DEF Crash, TypeOK, TypeHandlers, AnswerKinds
<1>5. cancelled' \in [Jobs -> {"none", "asked", "ok", "err"}]
  BY <1>1 DEF Crash, TypeOK, TypeHandlers
<1>6. TypeOK'
  <2>1. TypeHandlers'
    BY <1>1, <1>3, <1>4, <1>5 DEF TypeHandlers, HandlerPCs
  <2>2. TypeQueues' /\ TypeChannels'
    BY <1>1, <1>2 DEF TypeOK, TypeQueues, TypeChannels
  <2>3. TypeWorkers' /\ \A p \in Printers : wpc'[p] = "loop" <=> cur'[p] = None
    BY <1>2 DEF TypeWorkers, WorkerPCs, Terminal, Attempts
  <2>4. TypePaper'
    BY <1>1, SpendType DEF Crash, TypeOK, TypePaper
  <2> QED BY <1>1, <2>1, <2>2, <2>3, <2>4 DEF TypeOK, TypeRecords
<1>7. \A r \in Jobs : Loose(r)'
  BY <1>2, JobsAssumption DEF Loose, InQueue, InHand, InChannel, Waiting
<1>8. HandlerInv'
  <2> SUFFICES ASSUME NEW r \in Jobs PROVE HandlerAt(r)'
    BY DEF HandlerInv
  <2>1. HandlerAt(r)
    BY DEF IInv, HandlerInv
  <2>2. hpc'[r] \in {"new", "done"} /\ (hpc'[r] = "new" => hpc[r] = "new") /\ reply'[r] = "none"
    BY <1>1, <1>3
  <2> QED BY <1>1, <1>7, <2>1, <2>2 DEF HandlerAt
<1>9. ChannelInv' /\ QueueInv' /\ WorkerInv'
  BY <1>2 DEF ChannelInv, QueueInv, WorkerInv, WorkerAt
<1>10. DownInv'
  BY <1>1, <1>2, <1>3, <1>7 DEF DownInv
<1>11. SentOnce' /\ RecordHonest'
  BY <1>1 DEF IInv, SentOnce, RecordHonest
<1> QED BY <1>6, <1>8, <1>9, <1>10, <1>11 DEF IInv

\* Recovery settles records nobody works on.
LEMMA RecoverSafe ==
    ASSUME IInv, NEW r \in Jobs, RecoverJob(r)
    PROVE  IInv'
<1>1. /\ TypeOK /\ ~up /\ job[r].state \in {"receiving", "writing"}
      /\ UNCHANGED <<req, birth, index, queue, paused, qfile, pfile, up, lock, hpc, answer, reply,
                     cancelled, chan, wpc, cur, attempt, verdict, sent, whole>>
  BY DEF IInv, RecoverJob, Unsettled, loopVars, handlerVars, workVars, paperVars
<1> DEFINE rec == Rec(IF job[r].state = "receiving" THEN "failed" ELSE "outcome_unknown",
                      job[r].sha)
<1>2. PICK o \in Outcomes : Spend("fault", Faults(o)) /\ WriteJob(r, rec, o)
  BY DEF RecoverJob
<1>3. rec \in Records
  BY <1>1, RecType DEF TypeOK, TypeRecords, Records, States, Active, Terminal
<1>4. /\ job' \in [Jobs -> Records]
      /\ \A s \in Jobs : s # r => job'[s] = job[s]
      /\ job'[r] = IF Landed(o) THEN rec ELSE job[r]
  BY <1>1, <1>2, <1>3, WriteJobType DEF TypeOK, TypeRecords
<1>5. TypePaper'
  BY <1>1, <1>2, SpendType, FaultsType DEF TypeOK, TypePaper
<1>6. TypeOK'
  BY <1>1, <1>4, <1>5 DEF TypeOK, TypeRecords, TypeHandlers, TypeQueues, TypeChannels,
     TypeWorkers
<1>7. /\ \A s \in Jobs : hpc[s] \in {"new", "done"} /\ Loose(s) /\ reply[s] = "none"
      /\ \A p \in Printers : queue[p] = <<>> /\ chan[p] = <<>> /\ cur[p] = None
  BY <1>1 DEF IInv, DownInv
<1>8. \A s \in Jobs : Loose(s)'
  BY <1>1, <1>7 DEF Loose, InQueue, InHand, InChannel, Waiting
<1>9. HandlerInv'
  <2> SUFFICES ASSUME NEW s \in Jobs PROVE HandlerAt(s)'
    BY DEF HandlerInv
  <2>1. HandlerAt(s) /\ hpc[s] \in {"new", "done"}
    BY <1>7 DEF IInv, HandlerInv
  <2>2. hpc[s] = "new" => job'[s].state = "absent"
    <3>1. hpc[s] = "new" => job[s].state = "absent"
      BY <2>1 DEF HandlerAt
    <3> QED BY <1>1, <1>4, <3>1
  <2> QED BY <1>1, <1>8, <2>1, <2>2 DEF HandlerAt
<1>10. ChannelInv' /\ QueueInv' /\ WorkerInv' /\ DownInv'
  BY <1>1, <1>7, <1>8 DEF ChannelInv, QueueInv, WorkerInv, WorkerAt, DownInv
<1>11. SentOnce' /\ RecordHonest'
  <2>1. SentOnce'
    BY <1>1 DEF IInv, SentOnce
  <2>2. ASSUME NEW s \in Jobs
        PROVE  /\ sent[s] > 0 => job'[s].state \in {"writing", "transport_accepted",
                                                    "outcome_unknown"}
               /\ job'[s].state = "transport_accepted" => whole[s]
    <3>1. /\ sent[s] > 0 => job[s].state \in {"writing", "transport_accepted", "outcome_unknown"}
          /\ job[s].state = "transport_accepted" => whole[s]
      BY DEF IInv, RecordHonest
    <3>2. CASE s # r
      BY <1>4, <3>1, <3>2
    <3>3. CASE s = r
      <4>1. rec.state = IF job[r].state = "receiving" THEN "failed" ELSE "outcome_unknown"
        BY DEF Rec
      <4> QED BY <1>1, <1>4, <3>1, <3>3, <4>1
    <3> QED BY <3>2, <3>3
  <2> QED BY <1>1, <2>1, <2>2 DEF RecordHonest
<1> QED BY <1>6, <1>9, <1>10, <1>11 DEF IInv

\* A recovered queue holds the Queued jobs of its printer, each once.
LEMMA RecoveredQueue ==
    ASSUME NEW p \in Printers, NEW unread \in SUBSET Jobs, NEW q \in RecoveredQueues(p, unread)
    PROVE  /\ q \in Seq(Jobs)
           /\ \A i \in DOMAIN q : q[i] \in QueuedJobs(p)
           /\ \A i, k \in DOMAIN q : q[i] = q[k] => i = k
<1> DEFINE n == Cardinality(QueuedJobs(p) \ unread)
<1>1. n \in Nat
  BY SkipsType DEF QueuedJobs
<1>2. /\ q \in [1..n -> QueuedJobs(p) \ unread]
      /\ \A i, k \in 1..n : i # k => q[i] # q[k]
  BY DEF RecoveredQueues, SetToSeqs
<1>3. q \in [1..n -> Jobs]
  BY <1>2 DEF QueuedJobs
<1>4. q \in Seq(Jobs)
  <2> HIDE DEF n
  <2> QED BY <1>1, <1>3, SeqDef
<1> QED BY <1>2, <1>4

\* The started agent finds in its queues the Queued jobs, each once.
LEMMA StartSafe ==
    ASSUME IInv, Start
    PROVE  IInv'
<1>1. /\ TypeOK /\ ~up /\ up'
      /\ UNCHANGED <<req, job, birth, index, pfile, lock, hpc, answer, reply, cancelled, chan,
                     wpc, cur, attempt, verdict, sent, whole>>
  BY DEF IInv, Start, recordVars, handlerVars, workVars, paperVars
<1>2. PICK noQueue \in SUBSET Printers, noFlag \in SUBSET Printers, unread \in SUBSET Jobs :
        /\ SpendBoth(Cardinality(noQueue) + Cardinality(noFlag), Cardinality(unread))
        /\ qfile' \in [Printers -> UNION {RecoveredQueues(p, unread) : p \in Printers}]
        /\ \A p \in Printers : qfile'[p] \in RecoveredQueues(p, unread)
        /\ queue' = [p \in Printers |-> IF p \in noQueue THEN <<>> ELSE qfile'[p]]
        /\ paused' = [p \in Printers |-> p \notin noFlag /\ pfile[p]]
  BY DEF Start, Pending
<1>3. \A p \in Printers : /\ qfile'[p] \in Seq(Jobs)
                          /\ \A i \in DOMAIN qfile'[p] : qfile'[p][i] \in QueuedJobs(p)
                          /\ \A i, k \in DOMAIN qfile'[p] : qfile'[p][i] = qfile'[p][k] => i = k
  BY <1>2, RecoveredQueue
<1>4. qfile' \in [Printers -> Seq(Jobs)]
  BY <1>2, <1>3
<1>5. \A p \in Printers :
        /\ queue'[p] \in Seq(Jobs)
        /\ \A i \in DOMAIN queue'[p] :
             /\ queue'[p][i] \in QueuedJobs(p)
             /\ \A k \in DOMAIN queue'[p] : queue'[p][k] = queue'[p][i] => k = i
  BY <1>2, <1>3
<1>6. /\ \A s \in Jobs : hpc[s] \in {"new", "done"} /\ reply[s] = "none"
                         /\ ~InHand(s) /\ ~InChannel(s)
      /\ \A p \in Printers : chan[p] = <<>> /\ cur[p] = None
  BY <1>1 DEF IInv, DownInv, Loose
<1>7. TypeOK'
  <2>1. queue' \in [Printers -> Seq(Jobs)] /\ paused' \in [Printers -> BOOLEAN]
    BY <1>1, <1>2, <1>5 DEF TypeOK, TypeQueues
  <2>2. budget' \in [{"crash", "fault", "drop", "control", "read"} -> Nat]
    <3>1. Cardinality(noQueue) \in Nat /\ Cardinality(noFlag) \in Nat
      BY PrintersAssumption, FS_Subset, FS_CardinalityType
    <3>2. Cardinality(noQueue) + Cardinality(noFlag) \in Nat /\ Cardinality(unread) \in Nat
      BY <3>1, SkipsType
    <3> QED BY <1>1, <1>2, <3>2, SpendBothType DEF TypeOK
  <2> QED BY <1>1, <1>4, <2>1, <2>2 DEF TypeOK, TypeRecords, TypeHandlers, TypeQueues,
          TypeChannels, TypeWorkers, TypePaper
<1>8. \A s \in Jobs : InQueue(s)' => job[s].state = "queued"
  BY <1>5 DEF InQueue, Waiting, QueuedJobs
<1>9. HandlerInv'
  <2> SUFFICES ASSUME NEW s \in Jobs PROVE HandlerAt(s)'
    BY DEF HandlerInv
  <2>1. HandlerAt(s) /\ hpc[s] \in {"new", "done"} /\ reply[s] = "none"
    BY <1>6 DEF IInv, HandlerInv
  <2>2. hpc[s] = "new" => ~InQueue(s)'
    BY <1>8, <2>1 DEF HandlerAt
  <2>3. ~InHand(s)' /\ ~InChannel(s)'
    BY <1>1, <1>6 DEF InHand, InChannel
  <2> QED BY <1>1, <2>1, <2>2, <2>3 DEF HandlerAt, Loose
<1>10. QueueInv'
  BY <1>1, <1>5 DEF QueueInv, QueuedJobs, Printer
<1>11. ChannelInv' /\ WorkerInv' /\ DownInv'
  BY <1>1, <1>6 DEF ChannelInv, WorkerInv, WorkerAt, DownInv
<1>12. SentOnce' /\ RecordHonest'
  BY <1>1 DEF IInv, SentOnce, RecordHonest
<1> QED BY <1>7, <1>9, <1>10, <1>11, <1>12 DEF IInv

-----------------------------------------------------------------------------
(* The theorems.                                                             *)

\* An empty data directory satisfies the inductive invariant.
LEMMA InitSafe == Init => IInv
<1> SUFFICES ASSUME Init PROVE IInv
  OBVIOUS
<1> USE DEF Init
<1>1. TypeRecords
  BY DEF TypeRecords, Absent, Records
<1>2. TypeHandlers
  BY DEF TypeHandlers, HandlerPCs, AnswerKinds
<1>3. TypeQueues /\ TypeChannels
  BY DEF TypeQueues, TypeChannels
<1>4. TypeWorkers /\ \A p \in Printers : wpc[p] = "loop" <=> cur[p] = None
  BY DEF TypeWorkers, WorkerPCs, Terminal, Attempts
<1>5. TypePaper
  BY BudgetAssumption DEF TypePaper
<1>6. \A r \in Jobs : Loose(r)
  BY JobsAssumption DEF Loose, InQueue, InHand, InChannel, Waiting
<1>7. HandlerInv
  BY <1>6 DEF HandlerInv, HandlerAt, Absent
<1>8. ChannelInv /\ QueueInv /\ WorkerInv /\ DownInv
  BY <1>6 DEF ChannelInv, QueueInv, WorkerInv, WorkerAt, DownInv
<1>9. SentOnce /\ RecordHonest
  BY DEF SentOnce, RecordHonest, Absent
<1> QED BY <1>1, <1>2, <1>3, <1>4, <1>5, <1>7, <1>8, <1>9 DEF IInv, TypeOK

\* Every step of the system keeps the inductive invariant.
LEMMA NextSafe == IInv /\ [Next]_vars => IInv'
<1> SUFFICES ASSUME IInv, [Next]_vars PROVE IInv'
  OBVIOUS
<1>1. ASSUME NEW r \in Jobs, HandlerStep(r) PROVE IInv'
  BY <1>1, HandlerSafe, EnqueueSafe
<1>2. ASSUME NEW p \in Printers, WorkerStep(p) PROVE IInv'
  BY <1>2, WorkerSafe
<1>3. CASE Recovery
  BY <1>3, StartSafe, RecoverSafe DEF Recovery
<1>4. CASE Environment
  BY <1>4, CrashSafe, DisconnectSafe, OperatorSafe DEF Environment
<1>5. CASE UNCHANGED vars
  <2>1. TypeOK'
    BY <1>5 DEF vars, recordVars, loopVars, handlerVars, workVars, paperVars, IInv, TypeOK,
       TypeRecords, TypeHandlers, TypeQueues, TypeChannels, TypeWorkers, TypePaper
  <2>2. \A r \in Jobs : Loose(r)' = Loose(r) /\ InQueue(r)' = InQueue(r) /\ InHand(r)' = InHand(r)
    BY <1>5 DEF vars, recordVars, loopVars, handlerVars, workVars, paperVars, Loose, InQueue,
       InHand, InChannel, Waiting
  <2>3. HandlerInv'
    BY <1>5, <2>2 DEF vars, recordVars, loopVars, handlerVars, workVars, paperVars, IInv,
       HandlerInv, HandlerAt, Hold
  <2>4. ChannelInv' /\ QueueInv'
    BY <1>5, <2>2 DEF vars, recordVars, loopVars, handlerVars, workVars, paperVars, IInv,
       ChannelInv, QueueInv, Printer
  <2>6. DownInv' /\ SentOnce' /\ RecordHonest'
    BY <1>5, <2>2 DEF vars, recordVars, loopVars, handlerVars, workVars, paperVars, IInv,
       DownInv, SentOnce, RecordHonest
  <2>5. WorkerInv'
    <3> SUFFICES ASSUME NEW p \in Printers PROVE WorkerAt(p)'
      BY DEF WorkerInv
    <3>1. WorkerAt(p) /\ (cur[p] # None => cur[p] \in Jobs)
      BY DEF IInv, WorkerInv, TypeOK, TypeWorkers
    <3> QED BY <1>5, <3>1 DEF vars, recordVars, loopVars, handlerVars, workVars, paperVars,
            WorkerAt, Printer, InQueue, Waiting
  <2> QED BY <2>1, <2>3, <2>4, <2>5, <2>6 DEF IInv
<1> QED BY <1>1, <1>2, <1>3, <1>4, <1>5 DEF Next

\* The inductive invariant holds in every reachable state.
THEOREM PaperInvariant == Spec => []IInv
  BY InitSafe, NextSafe, PTL DEF Spec

\* Every variable keeps its type, whatever crashes, faults and disconnects do.
THEOREM TypeCorrect == Spec => []TypeOK
<1>1. IInv => TypeOK
  BY DEF IInv
<1> QED BY <1>1, PaperInvariant, PTL

\* No job is put on the wire by two delivery attempts: not by the retries of
\* process_job, not by the recovery after a crash at any point, not after a
\* disk error, for any number of jobs, printers and crashes.
THEOREM NeverSentTwice == Spec => []SentOnce
<1>1. IInv => SentOnce
  BY DEF IInv
<1> QED BY <1>1, PaperInvariant, PTL

\* The job record on disk never says less than what may be on the paper.
THEOREM RecordsAreHonest == Spec => []RecordHonest
<1>1. IInv => RecordHonest
  BY DEF IInv
<1> QED BY <1>1, PaperInvariant, PTL

-----------------------------------------------------------------------------
(* What a step does to the records and the paper: the promise.               *)

\* A request is what it was, whatever becomes of it.
LEMMA RequestsStay ==
    ASSUME [Next]_vars
    PROVE  req' = req
  BY DEF Next, HandlerStep, V1Create, V1Uploaded, V1TooLarge, V1UploadFailed, V2Prepare,
     AcquireLock, CheckFound, CheckFull, CheckPassed, CheckFailed, V2Create, V2PayloadStored,
     V2PayloadFailed, Submit, Register, AppendEvent, HoldJob, Enqueue, Enqueued, NotEnqueued,
     RejectJob, Handler, WorkerStep, Pop, Begin, Skip, SendAll, SendSome, SendNone, Delivery,
     Accept, Finish, ReceiveEnqueue, ReceivePause, RefuseCancel, CancelRecord, Receive,
     CancelDequeue, Worker, Recovery, Start, RecoverJob, Environment, Crash, Disconnect,
     RequestCancel, RequestPause, Operator, vars

\* How the state of a record may change.
Transition(x, y) ==
    \/ y = x
    \/ x \in {"absent", "receiving", "held", "queued"}
       /\ y \in {"absent", "receiving", "held", "queued", "failed", "cancelled"}
    \/ x = "queued" /\ y = "writing"
    \/ x = "writing" /\ y \in {"transport_accepted", "outcome_unknown", "failed"}

\* A step on the record of one job, the paper untouched ...
RecordStep(r) ==
    /\ sent' = sent
    /\ \A s \in Jobs : s # r => job'[s] = job[s]
    /\ Transition(job[r].state, job'[r].state)

\* ... or the first bytes of a job that is being written.
PaperStep(r) ==
    /\ job' = job /\ job[r].state = "writing" /\ sent[r] = 0
    /\ sent' = [sent EXCEPT ![r] = 1]

\* A write whose record follows the order is such a step, whatever the disk does.
LEMMA WriteIsStep ==
    ASSUME TypeOK, NEW r \in Jobs, NEW rec \in Records, NEW o \in Outcomes,
           WriteJob(r, rec, o), sent' = sent, Transition(job[r].state, rec.state)
    PROVE  RecordStep(r)
<1>1. /\ \A s \in Jobs : s # r => job'[s] = job[s]
      /\ job'[r] = IF Landed(o) THEN rec ELSE job[r]
  BY WriteJobType DEF TypeOK, TypeRecords
<1>2. Transition(job[r].state, job'[r].state)
  <2>1. CASE Landed(o)
    BY <1>1, <2>1
  <2>2. CASE ~Landed(o)
    BY <1>1, <2>2 DEF Transition
  <2> QED BY <2>1, <2>2
<1> QED BY <1>1, <1>2 DEF RecordStep

\* No write is such a step.
LEMMA NoWriteIsStep ==
    ASSUME NEW r \in Jobs, job' = job, sent' = sent
    PROVE  RecordStep(r)
  BY DEF RecordStep, Transition

\* A handler moves its record before the delivery only.
LEMMA HandlerRecords ==
    ASSUME IInv, NEW r \in Jobs, HandlerStep(r)
    PROVE  RecordStep(r)
<1> DEFINE early == {"absent", "receiving", "held", "queued"}
           Early(rec) == rec \in Records /\ rec.state \in early \cup {"failed"}
<1>1. TypeOK /\ HandlerAt(r)
  BY DEF IInv, HandlerInv
<1>2. Handler /\ sent' = sent
  BY DEF HandlerStep, V1Create, V1Uploaded, V1TooLarge, V1UploadFailed, V2Prepare, AcquireLock,
     CheckFound, CheckFull, CheckPassed, CheckFailed, V2Create, V2PayloadStored, V2PayloadFailed,
     Submit, Register, AppendEvent, HoldJob, Enqueue, Enqueued, NotEnqueued, RejectJob, Handler,
     paperVars
<1>3. ASSUME NEW rec, Early(rec), NEW o \in Outcomes, WriteJob(r, rec, o), job[r].state \in early
      PROVE  RecordStep(r)
  <2>1. Transition(job[r].state, rec.state)
    BY <1>3 DEF Transition
  <2> QED BY <1>1, <1>2, <1>3, <2>1, WriteIsStep
<1>4. /\ Early(Absent)
      /\ \A state \in early \cup {"failed"}, sha \in BOOLEAN :
            state # "absent" => Early(Rec(state, sha))
  <2>1. Absent \in Records /\ Absent.state = "absent"
    BY RecType DEF Absent
  <2>2. ASSUME NEW state \in early \cup {"failed"}, NEW sha \in BOOLEAN, state # "absent"
        PROVE  Rec(state, sha) \in Records /\ Rec(state, sha).state = state
    <3>1. state \in States
      BY <2>2 DEF States, Active, Terminal
    <3> QED BY <3>1, RecType DEF Rec
  <2> QED BY <2>1, <2>2
<1>5. job[r].state \in early \/ UNCHANGED job
  <2>1. hpc[r] \notin {"await", "done"} => job[r].state \in early
    BY <1>1 DEF HandlerAt, TypeOK, TypeHandlers, HandlerPCs
  <2>2. hpc[r] # "done" /\ (hpc[r] = "await" => UNCHANGED job)
    BY DEF HandlerStep, V1Create, V1Uploaded, V1TooLarge, V1UploadFailed, V2Prepare, AcquireLock,
       CheckFound, CheckFull, CheckPassed, CheckFailed, V2Create, V2PayloadStored,
       V2PayloadFailed, Submit, Register, AppendEvent, HoldJob, Enqueue, Enqueued, NotEnqueued,
       RejectJob, recordVars
  <2> QED BY <2>1, <2>2
<1>6. \/ UNCHANGED job
      \/ \E o \in Outcomes : \/ WriteJob(r, Absent, o)
                             \/ \E state \in (early \cup {"failed"}) \ {"absent"}, sha \in BOOLEAN :
                                  WriteJob(r, Rec(state, sha), o)
  <2>1. CASE V1Create(r) \/ V1TooLarge(r) \/ V1UploadFailed(r)
    BY <2>1 DEF V1Create, V1TooLarge, V1UploadFailed
  <2>2. CASE CheckFound(r) \/ CheckFull(r)
    <3>1. Withdraw(r, 0) \/ Withdraw(r, Cardinality(SameKey(r)))
      BY <2>2 DEF CheckFound, CheckFull
    <3> QED BY <3>1 DEF Withdraw
  <2>3. CASE V2Create(r) \/ V2PayloadFailed(r)
    BY <2>3 DEF V2Create, V2PayloadFailed
  <2>4. CASE Submit(r)
    BY <2>4 DEF Submit
  <2>5. CASE HoldJob(r) \/ RejectJob(r)
    BY <2>5 DEF HoldJob, RejectJob
  <2>6. CASE \/ V1Uploaded(r) \/ V2Prepare(r) \/ AcquireLock(r) \/ CheckPassed(r) \/ CheckFailed(r)
             \/ V2PayloadStored(r) \/ Register(r) \/ AppendEvent(r) \/ Enqueue(r) \/ Enqueued(r)
             \/ NotEnqueued(r)
    BY <2>6 DEF V1Uploaded, V2Prepare, AcquireLock, CheckPassed, CheckFailed, V2PayloadStored,
       Register, AppendEvent, Enqueue, Enqueued, NotEnqueued, recordVars
  <2> QED BY <2>1, <2>2, <2>3, <2>4, <2>5, <2>6 DEF HandlerStep
<1>7. CASE UNCHANGED job
  BY <1>2, <1>7, NoWriteIsStep
<1>8. CASE ~UNCHANGED job
  BY <1>3, <1>4, <1>5, <1>6, <1>8
<1> QED BY <1>7, <1>8

\* A worker moves the record of the job in hand, or cancels one in its queue;
\* the paper of the job in hand receives its first bytes.
LEMMA WorkerRecords ==
    ASSUME IInv, NEW p \in Printers, WorkerStep(p)
    PROVE  \/ UNCHANGED <<job, sent>>
           \/ \E r \in Jobs : RecordStep(r) \/ PaperStep(r)
<1>1. TypeOK /\ WorkerAt(p)
  BY DEF IInv, WorkerInv
<1>2. ASSUME wpc[p] \notin {"loop", "dequeue"}
      PROVE  cur[p] \in Jobs /\ cur[p] # None
  BY <1>1, <1>2, JobsAssumption DEF TypeOK, TypeWorkers
<1>3. CASE Begin(p)
  <2>1. PICK r \in Jobs : r = cur[p]
    BY <1>2, <1>3 DEF Begin
  <2>2. PICK o \in Outcomes : WriteJob(r, Rec("writing", TRUE), o)
    BY <1>3, <2>1 DEF Begin
  <2>3. Rec("writing", TRUE) \in Records /\ sent' = sent
    BY <1>3, RecType DEF Begin, paperVars, States, Active
  <2>4. Transition(job[r].state, Rec("writing", TRUE).state)
    BY <1>3, <2>1 DEF Begin, Ready, Rec, Transition
  <2> QED BY <1>1, <2>2, <2>3, <2>4, WriteIsStep
<1>4. CASE SendAll(p) \/ SendSome(p)
  <2>1. PICK r \in Jobs : r = cur[p] /\ r # None
    BY <1>2, <1>4 DEF SendAll, SendSome, Delivery
  <2>2. job[r].state = "writing" /\ sent[r] = 0 /\ job' = job
    BY <1>1, <1>4, <2>1 DEF SendAll, SendSome, Delivery, WorkerAt
  <2>3. sent' = [sent EXCEPT ![r] = @ + 1]
    BY <1>4, <2>1 DEF SendAll, SendSome
  <2>4. sent' = [sent EXCEPT ![r] = 1]
    BY <1>1, <2>2, <2>3 DEF TypeOK, TypePaper
  <2> QED BY <2>2, <2>4 DEF PaperStep
<1>5. CASE Accept(p)
  <2>1. PICK r \in Jobs : r = cur[p] /\ r # None
    BY <1>2, <1>5 DEF Accept
  <2>2. PICK o \in Outcomes : WriteJob(r, Rec("transport_accepted", TRUE), o)
    BY <1>5, <2>1 DEF Accept
  <2>3. Rec("transport_accepted", TRUE) \in Records /\ sent' = sent
    BY <1>5, RecType DEF Accept, paperVars, States, Terminal
  <2>4. job[r].state = "writing"
    BY <1>1, <1>5, <2>1 DEF Accept, WorkerAt
  <2>5. Transition(job[r].state, Rec("transport_accepted", TRUE).state)
    BY <2>4 DEF Rec, Transition
  <2> QED BY <1>1, <2>2, <2>3, <2>5, WriteIsStep
<1>6. CASE Finish(p)
  <2>1. PICK r \in Jobs : r = cur[p] /\ r # None
    BY <1>2, <1>6 DEF Finish
  <2>2. PICK o \in Outcomes : WriteJob(r, Rec(verdict[p], TRUE), o)
    BY <1>6, <2>1 DEF Finish
  <2>3. Rec(verdict[p], TRUE) \in Records /\ sent' = sent
    BY <1>1, <1>6, RecType DEF Finish, paperVars, TypeOK, TypeWorkers, States
  <2>4. \/ verdict[p] \in {"failed", "outcome_unknown", "transport_accepted"}
           /\ job[r].state = "writing"
        \/ verdict[p] = job[r].state
    BY <1>1, <1>6, <2>1 DEF Finish, WorkerAt
  <2>5. Transition(job[r].state, Rec(verdict[p], TRUE).state)
    BY <2>4 DEF Rec, Transition
  <2> QED BY <1>1, <2>2, <2>3, <2>5, WriteIsStep
<1>7. CASE CancelRecord(p)
  <2>1. PICK r \in Jobs : r = Subject(p) /\ job[r].state \in {"queued", "cancelled"}
    BY <1>7, JobInQueue DEF CancelRecord, Waiting
  <2>2. PICK o \in Outcomes : WriteJob(r, Rec("cancelled", TRUE), o)
    BY <1>7, <2>1 DEF CancelRecord
  <2>3. Rec("cancelled", TRUE) \in Records /\ sent' = sent
    BY <1>7, RecType DEF CancelRecord, Receive, paperVars, States, Terminal
  <2>4. Transition(job[r].state, Rec("cancelled", TRUE).state)
    BY <2>1 DEF Rec, Transition
  <2> QED BY <1>1, <2>2, <2>3, <2>4, WriteIsStep
<1>8. CASE \/ Pop(p) \/ Skip(p) \/ SendNone(p) \/ ReceiveEnqueue(p) \/ ReceivePause(p)
           \/ RefuseCancel(p) \/ CancelDequeue(p)
  BY <1>8 DEF Pop, Skip, SendNone, Delivery, ReceiveEnqueue, ReceivePause, RefuseCancel, Receive,
     CancelDequeue, paperVars
<1> QED BY <1>3, <1>4, <1>5, <1>6, <1>7, <1>8 DEF WorkerStep

\* So does recovery; nothing else touches records or paper.
LEMMA NextRecords ==
    ASSUME IInv, [Next]_vars
    PROVE  \/ UNCHANGED <<job, sent>>
           \/ \E r \in Jobs : RecordStep(r) \/ PaperStep(r)
<1>1. ASSUME NEW r \in Jobs, RecoverJob(r) PROVE RecordStep(r)
  <2>1. TypeOK /\ job[r].state \in {"receiving", "writing"} /\ sent' = sent
    BY <1>1 DEF IInv, RecoverJob, Unsettled, paperVars
  <2> DEFINE rec == Rec(IF job[r].state = "receiving" THEN "failed" ELSE "outcome_unknown",
                        job[r].sha)
  <2>2. PICK o \in Outcomes : WriteJob(r, rec, o)
    BY <1>1 DEF RecoverJob
  <2>3. rec \in Records
    BY <2>1, RecType DEF TypeOK, TypeRecords, Records, States, Active, Terminal
  <2>4. rec.state = IF job[r].state = "receiving" THEN "failed" ELSE "outcome_unknown"
    BY DEF Rec
  <2>5. Transition(job[r].state, rec.state)
    BY <2>1, <2>4 DEF Transition
  <2> QED BY <2>1, <2>2, <2>3, <2>5, WriteIsStep
<1>2. CASE Start \/ Environment
  BY <1>2 DEF Start, Environment, Crash, Disconnect, Handler, RequestCancel, RequestPause, Operator,
     recordVars, paperVars
<1>3. CASE UNCHANGED vars
  BY <1>3 DEF vars, recordVars, paperVars
<1> QED BY <1>1, <1>2, <1>3, HandlerRecords, WorkerRecords DEF Next, Recovery

\* What a client was told at the end stays true: no late writer, recovery or
\* cancellation changes a record that is in a terminal state.
THEOREM SettledForGood == Spec => TerminalStable
<1>1. ASSUME IInv, [Next]_vars
      PROVE  \A r \in Jobs : job[r].state \in Terminal => job'[r].state = job[r].state
  <2> SUFFICES ASSUME NEW r \in Jobs, job[r].state \in Terminal
               PROVE  job'[r].state = job[r].state
    OBVIOUS
  <2>1. CASE \E s \in Jobs : RecordStep(s)
    BY <2>1 DEF RecordStep, Transition, Terminal
  <2> QED BY <1>1, <2>1, NextRecords DEF PaperStep
<1>2. IInv /\ [Next]_vars =>
        [\A r \in Jobs : job[r].state \in Terminal => job'[r].state = job[r].state]_vars
  BY <1>1
<1> QED BY <1>2, PaperInvariant, PTL DEF Spec, TerminalStable

\* Handlers, queues, workers, files, crashes and recovery together implement
\* the promise about the paper: each step is one of its steps or invisible.
THEOREM PromiseKept == Spec => KeepsPromise
<1>1. Init => Promise!Promised
  BY DEF Init, Promise!Promised, Phase, Absent
<1>2. ASSUME IInv, [Next]_vars
      PROVE  [\E j \in Jobs : Promise!Step(j)]_(Promise!promiseVars)
  <2> DEFINE phase == [r \in Jobs |-> Phase(r)]
             phaseNext == [r \in Jobs |-> Phase(r)']
  <2>1. TypeOK
    BY <1>2 DEF IInv
  <2>2. CASE UNCHANGED <<job, sent>>
    BY <2>2 DEF Promise!promiseVars, Phase
  <2>3. ASSUME NEW r \in Jobs, RecordStep(r)
        PROVE  [\E j \in Jobs : Promise!Step(j)]_(Promise!promiseVars)
    <3>1. /\ \A s \in Jobs : s # r => Phase(s)' = Phase(s)
          /\ sent' = sent
      BY <2>3 DEF RecordStep, Phase
    <3>2. phaseNext = [phase EXCEPT ![r] = Phase(r)']
      BY <3>1
    <3>3. \/ Phase(r)' = Phase(r)
          \/ Phase(r) = "none" /\ Phase(r)' = "waiting"
          \/ Phase(r) = "waiting" /\ Phase(r)' = "none"
          \/ Phase(r) \in {"waiting", "none"} /\ Phase(r)' = "settled"
          \/ Phase(r) = "waiting" /\ Phase(r)' = "claimed"
          \/ Phase(r) = "claimed" /\ Phase(r)' = "settled"
      BY <2>3 DEF RecordStep, Transition, Phase
    <3>4. CASE Phase(r)' = Phase(r)
      BY <3>1, <3>2, <3>4 DEF Promise!promiseVars
    <3>5. CASE Phase(r)' # Phase(r)
      <4>1. Promise!Step(r)
        BY <3>1, <3>2, <3>3, <3>5 DEF Promise!Step, Promise!Arrive, Promise!Withdraw, Promise!Drop,
           Promise!Claim, Promise!Settle, Promise!Move
      <4> QED BY <4>1
    <3> QED BY <3>4, <3>5
  <2>4. ASSUME NEW r \in Jobs, PaperStep(r)
        PROVE  [\E j \in Jobs : Promise!Step(j)]_(Promise!promiseVars)
    <3>1. Phase(r) = "claimed" /\ \A s \in Jobs : Phase(s)' = Phase(s)
      BY <2>4 DEF PaperStep, Phase
    <3>2. Promise!Transmit(r)
      BY <2>4, <3>1 DEF PaperStep, Promise!Transmit
    <3> QED BY <3>2 DEF Promise!Step
  <2> QED BY <1>2, <2>2, <2>3, <2>4, NextRecords
<1> QED BY <1>1, <1>2, PaperInvariant, PTL DEF Spec, KeepsPromise, Promise!PromiseSpec
=============================================================================
