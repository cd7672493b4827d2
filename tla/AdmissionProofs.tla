--------------------------- MODULE AdmissionProofs ---------------------------
(* Admission, for any number of jobs, printers and requests: idempotency keys,
   the limit on active jobs and the answers of the submission handlers.  Then
   what becomes of an admitted job, for any number of crashes and commands:
   what was cancelled stays cancelled, and while files can be written no
   queued job is forgotten and no pause is.                                  *)
EXTENDS PrintJobsProofs

-----------------------------------------------------------------------------
(* The strengthening.  A job is admitted between the check under the lock and
   the save: in that window the lock keeps every other admission out.        *)

Fresh     == {"new", "upload", "lock", "check"}     \* no hash recorded yet
Admitting == {"create", "payload", "save"}          \* checked, not yet saved
Listed    == {"event", "hold", "enqueue", "await", "reject"}
Saved     == {"register"} \cup Listed
Critical  == {"check"} \cup Admitting \cup Saved    \* inside the idempotency lock
Hashed    == {"queued", "held", "writing", "transport_accepted", "cancelled",
              "outcome_unknown"}

\* Only a job that is being received, or failed to be, has no hash.
Sound(record) == /\ record.sha => record.state # "absent"
                 /\ record.state \in Hashed => record.sha

Admitted(p) == {r \in ActiveJobs(p) : job[r].sha}

LockAt(r)   == hpc[r] \in Critical => lock = r
RecordAt(r) == /\ Sound(job[r])
               /\ hpc[r] \in Fresh => ~job[r].sha
               /\ hpc[r] \in Saved => job[r].sha
ListedAt(r) == hpc[r] \in Listed => r \in index
\* What the check found, but for the records it could not read.
SoleAt(r)   == hpc[r] \in Admitting => Cardinality(SameKey(r)) <= Skipped
RoomAt(r)   == hpc[r] \in Admitting =>
                   Cardinality(Admitted(Printer(r)) \ {r}) < MaxActive + Skipped

AdmissionInv ==
    /\ \A r \in Jobs : LockAt(r) /\ RecordAt(r) /\ ListedAt(r) /\ SoleAt(r) /\ RoomAt(r)
    /\ Skipped \in Nat
    /\ KeyUnique /\ AdmittedBound /\ AnswerHonest

-----------------------------------------------------------------------------
(* What a step costs.                                                        *)

\* Every step pays for its faults and for the records it skips, or leaves the
\* budget alone.
LEMMA Spends ==
    ASSUME TypeOK, [Next]_vars
    PROVE  \/ UNCHANGED budget
           \/ \E kind \in {"crash", "fault", "drop", "control", "read"}, n \in Nat : Spend(kind, n)
           \/ \E n, skips \in Nat : SpendBoth(n, skips)
<1>1. \A o \in Outcomes : Faults(o) \in Nat /\ 1 + Faults(o) \in Nat
  BY FaultsType
<1>2. ASSUME NEW r \in Jobs, HandlerStep(r)
      PROVE  \/ UNCHANGED budget \/ \E n \in Nat : Spend("fault", n)
             \/ \E n, skips \in Nat : SpendBoth(n, skips)
  <2>1. CASE \/ V1Create(r) \/ V1TooLarge(r) \/ V1UploadFailed(r) \/ V2Create(r)
             \/ V2PayloadFailed(r) \/ Submit(r) \/ Register(r) \/ HoldJob(r) \/ RejectJob(r)
    BY <1>1, <2>1 DEF V1Create, V1TooLarge, V1UploadFailed, V2Create, V2PayloadFailed, Submit,
       Register, HoldJob, RejectJob
  <2>2. CASE CheckFound(r) \/ CheckFull(r)
    <3>1. PICK skips \in {0, Cardinality(SameKey(r))} : Withdraw(r, skips)
      BY <2>2 DEF CheckFound, CheckFull
    <3>2. skips \in Nat
      BY SkipsType DEF SameKey
    <3> QED BY <1>1, <3>1, <3>2 DEF Withdraw
  <2>3. CASE CheckFailed(r) \/ AppendEvent(r)
    BY <2>3 DEF CheckFailed, AppendEvent
  <2>4. CASE \/ V1Uploaded(r) \/ V2Prepare(r) \/ AcquireLock(r) \/ V2PayloadStored(r)
             \/ Enqueue(r) \/ Enqueued(r) \/ NotEnqueued(r)
    BY <2>4 DEF V1Uploaded, V2Prepare, AcquireLock, V2PayloadStored, Enqueue, Enqueued,
       NotEnqueued
  <2>5. CASE CheckPassed(r)
    <3>1. PICK uncounted \in SUBSET ActiveJobs(Printer(r)) :
            SpendBoth(0, Cardinality(SameKey(r)) + Cardinality(uncounted))
      BY <2>5 DEF CheckPassed
    <3>2. SameKey(r) \in SUBSET Jobs /\ uncounted \in SUBSET Jobs
      BY DEF SameKey, ActiveJobs
    <3>3. Cardinality(SameKey(r)) + Cardinality(uncounted) \in Nat
      BY <3>2, SkipsType
    <3> QED BY <3>1, <3>3
  <2> QED BY <1>2, <2>1, <2>2, <2>3, <2>4, <2>5 DEF HandlerStep
<1>3. ASSUME NEW p \in Printers, WorkerStep(p)
      PROVE  UNCHANGED budget \/ \E n \in Nat : Spend("fault", n)
  <2>1. CASE \/ Pop(p) \/ Begin(p) \/ Accept(p) \/ Finish(p) \/ ReceiveEnqueue(p)
             \/ ReceivePause(p) \/ CancelRecord(p) \/ CancelDequeue(p)
    BY <1>1, <2>1 DEF Pop, Begin, Accept, Finish, ReceiveEnqueue, ReceivePause, CancelRecord,
       CancelDequeue
  <2>2. CASE Skip(p) \/ RefuseCancel(p) \/ SendAll(p) \/ SendSome(p) \/ SendNone(p)
    BY <2>2 DEF Skip, RefuseCancel, SendAll, SendSome, SendNone, Delivery
  <2> QED BY <1>3, <2>1, <2>2 DEF WorkerStep
<1>4. CASE Start
  <2>1. PICK noQueue \in SUBSET Printers, noFlag \in SUBSET Printers, unread \in SUBSET Jobs :
            SpendBoth(Cardinality(noQueue) + Cardinality(noFlag), Cardinality(unread))
    BY <1>4 DEF Start, Pending
  <2>2. Cardinality(noQueue) \in Nat /\ Cardinality(noFlag) \in Nat
    BY PrintersAssumption, FS_Subset, FS_CardinalityType
  <2>3. Cardinality(noQueue) + Cardinality(noFlag) \in Nat /\ Cardinality(unread) \in Nat
    BY <2>2, SkipsType
  <2> QED BY <2>1, <2>3
<1>5. ASSUME NEW r \in Jobs, RecoverJob(r) PROVE \E n \in Nat : Spend("fault", n)
  BY <1>1, <1>5 DEF RecoverJob
<1>6. CASE Environment
  BY <1>6 DEF Environment, Crash, Disconnect, RequestCancel, RequestPause, Operator
<1>7. CASE UNCHANGED vars
  BY <1>7 DEF vars
<1> QED BY <1>2, <1>3, <1>4, <1>5, <1>6, <1>7 DEF Next, Recovery

\* What is left of the budget only shrinks.
LEMMA BudgetShrinks ==
    ASSUME TypeOK, [Next]_vars
    PROVE  \A kind \in {"fault", "read"} :
              budget[kind] \in Nat /\ budget'[kind] \in Nat /\ budget'[kind] <= budget[kind]
<1>1. budget \in [{"crash", "fault", "drop", "control", "read"} -> Nat]
  BY DEF TypeOK, TypePaper
<1>2. CASE UNCHANGED budget
  BY <1>1, <1>2
<1>3. ASSUME NEW kind \in {"crash", "fault", "drop", "control", "read"}, NEW n \in Nat,
             Spend(kind, n)
      PROVE  \A k \in {"fault", "read"} : budget'[k] \in Nat /\ budget'[k] <= budget[k]
  BY <1>1, <1>3 DEF Spend
<1>4. ASSUME NEW n \in Nat, NEW skips \in Nat, SpendBoth(n, skips)
      PROVE  \A k \in {"fault", "read"} : budget'[k] \in Nat /\ budget'[k] <= budget[k]
  BY <1>1, <1>4 DEF SpendBoth
<1> QED BY <1>1, <1>2, <1>3, <1>4, Spends

\* What was skipped stays skipped.
LEMMA SkippedStep ==
    ASSUME TypeOK, Skipped \in Nat, [Next]_vars
    PROVE  Skipped' \in Nat /\ Skipped <= Skipped'
<1>1. Budget["read"] \in Nat
  BY BudgetAssumption
<1> QED BY <1>1, BudgetShrinks DEF Skipped

-----------------------------------------------------------------------------
(* What a step does to the record of a job.                                  *)

\* The record may become that one: a hash stays, and a hash or an active job
\* appears only while the job is being admitted.
Fits(r, record) ==
    /\ job[r].sha => record.sha
    /\ record.sha => job[r].sha \/ hpc[r] \in Admitting
    /\ record.sha /\ record.state \in Active =>
           \/ job[r].sha /\ job[r].state \in Active
           \/ hpc[r] \in Admitting
    /\ Sound(record)

\* A write of a record that fits, whatever the disk makes of it.
LEMMA WriteFits ==
    ASSUME TypeOK, NEW r \in Jobs, Sound(job[r]), NEW record \in Records, NEW o \in Outcomes,
           WriteJob(r, record, o), Fits(r, record)
    PROVE  \A s \in Jobs : Sound(job[s]) => Fits(s, job'[s])
<1>1. /\ \A s \in Jobs : s # r => job'[s] = job[s]
      /\ job'[r] = IF Landed(o) THEN record ELSE job[r]
  BY WriteJobType DEF TypeOK, TypeRecords
<1> QED BY <1>1 DEF Fits

LEMMA NoWriteFits ==
    ASSUME UNCHANGED job
    PROVE  \A s \in Jobs : Sound(job[s]) => Fits(s, job'[s])
  BY DEF Fits

\* The handlers: a record is removed, or fails, before it has a hash; it gets
\* one while it is admitted, and keeps it afterwards.
LEMMA HandlerFits ==
    ASSUME IInv, AdmissionInv, NEW r \in Jobs, HandlerStep(r)
    PROVE  \A s \in Jobs : Sound(job[s]) => Fits(s, job'[s])
<1>1. TypeOK /\ HandlerAt(r) /\ RecordAt(r) /\ Sound(job[r])
  BY DEF IInv, HandlerInv, AdmissionInv, RecordAt
<1>2. ASSUME NEW record \in Records, NEW o \in Outcomes, WriteJob(r, record, o),
             Fits(r, record)
      PROVE  \A s \in Jobs : Sound(job[s]) => Fits(s, job'[s])
  BY <1>1, <1>2, WriteFits
<1>3. Absent \in Records /\ Sound(Absent) /\ (hpc[r] \in Fresh => Fits(r, Absent))
  <2>1. Absent \in Records /\ ~Absent.sha /\ Absent.state \notin Hashed
    BY RecType DEF Absent, Hashed
  <2> QED BY <1>1, <2>1 DEF Sound, Fits, RecordAt
<1>4. ASSUME NEW state \in {"receiving", "failed"}, hpc[r] \in Fresh
      PROVE  Rec(state, FALSE) \in Records /\ Fits(r, Rec(state, FALSE))
  <2>1. Rec(state, FALSE) \in Records
    BY RecType DEF States, Active, Terminal
  <2>2. ~Rec(state, FALSE).sha /\ Rec(state, FALSE).state \notin Hashed
    BY DEF Rec, Hashed
  <2> QED BY <1>1, <1>4, <2>1, <2>2 DEF Sound, Fits, RecordAt
<1>5. ASSUME NEW state \in {"receiving", "failed", "held", "queued"},
             \/ hpc[r] \in Admitting
             \/ job[r].sha /\ job[r].state \in Active
      PROVE  Rec(state, TRUE) \in Records /\ Fits(r, Rec(state, TRUE))
  <2>1. Rec(state, TRUE) \in Records
    BY RecType DEF States, Active, Terminal
  <2>2. Rec(state, TRUE).sha /\ Rec(state, TRUE).state # "absent"
    BY DEF Rec
  <2> QED BY <1>5, <2>1, <2>2 DEF Sound, Fits
<1>6. CASE V1Create(r)
  <2>1. PICK o \in Outcomes : WriteJob(r, Rec("receiving", FALSE), o)
    BY <1>6 DEF V1Create
  <2>2. hpc[r] \in Fresh
    BY <1>6 DEF V1Create, Fresh
  <2> QED BY <1>2, <1>4, <2>1, <2>2
<1>7. CASE V1UploadFailed(r)
  <2>1. PICK o \in Outcomes : WriteJob(r, Rec("failed", FALSE), o)
    BY <1>7 DEF V1UploadFailed
  <2>2. hpc[r] \in Fresh
    BY <1>7 DEF V1UploadFailed, Fresh
  <2> QED BY <1>2, <1>4, <2>1, <2>2
<1>8. CASE V1TooLarge(r)
  <2>1. PICK o \in Outcomes : WriteJob(r, Absent, o)
    BY <1>8 DEF V1TooLarge
  <2>2. hpc[r] \in Fresh
    BY <1>8 DEF V1TooLarge, Fresh
  <2> QED BY <1>2, <1>3, <2>1, <2>2
<1>9. CASE CheckFound(r) \/ CheckFull(r)
  <2>1. hpc[r] \in Fresh /\ \E skips : Withdraw(r, skips)
    BY <1>9 DEF CheckFound, CheckFull, Fresh
  <2>2. \/ \E o \in Outcomes : WriteJob(r, Absent, o)
        \/ UNCHANGED job
    BY <2>1 DEF Withdraw
  <2> QED BY <1>2, <1>3, <2>1, <2>2, NoWriteFits
<1>10. CASE V2Create(r)
  <2>1. PICK o \in Outcomes : WriteJob(r, Rec("receiving", TRUE), o)
    BY <1>10 DEF V2Create
  <2>2. hpc[r] \in Admitting
    BY <1>10 DEF V2Create, Admitting
  <2> QED BY <1>2, <1>5, <2>1, <2>2
<1>11. CASE V2PayloadFailed(r)
  <2>1. PICK o \in Outcomes : WriteJob(r, Rec("failed", TRUE), o)
    BY <1>11 DEF V2PayloadFailed
  <2>2. hpc[r] \in Admitting
    BY <1>11 DEF V2PayloadFailed, Admitting
  <2> QED BY <1>2, <1>5, <2>1, <2>2
<1>12. CASE Submit(r)
  <2>1. PICK state \in {"held", "queued"}, o \in Outcomes : WriteJob(r, Rec(state, TRUE), o)
    BY <1>12 DEF Submit
  <2>2. hpc[r] \in Admitting
    BY <1>12 DEF Submit, Admitting
  <2> QED BY <1>2, <1>5, <2>1, <2>2
<1>13. CASE HoldJob(r) \/ RejectJob(r)
  <2>1. PICK state \in {"held", "failed"}, o \in Outcomes : WriteJob(r, Rec(state, TRUE), o)
    BY <1>13 DEF HoldJob, RejectJob
  <2>2. job[r].state \in {"held", "queued"} /\ hpc[r] \in Saved
    BY <1>1, <1>13 DEF HoldJob, RejectJob, HandlerAt, Saved, Listed
  <2>3. job[r].sha /\ job[r].state \in Active
    BY <1>1, <2>2 DEF RecordAt, Active
  <2> QED BY <1>2, <1>5, <2>1, <2>3
<1>14. CASE \/ V1Uploaded(r) \/ V2Prepare(r) \/ AcquireLock(r) \/ CheckPassed(r) \/ CheckFailed(r)
            \/ V2PayloadStored(r) \/ Register(r) \/ AppendEvent(r) \/ Enqueue(r) \/ Enqueued(r)
            \/ NotEnqueued(r)
  <2>1. UNCHANGED job
    BY <1>14 DEF V1Uploaded, V2Prepare, AcquireLock, CheckPassed, CheckFailed, V2PayloadStored,
       Register, AppendEvent, Enqueue, Enqueued, NotEnqueued, recordVars
  <2> QED BY <2>1, NoWriteFits
<1> QED BY <1>6, <1>7, <1>8, <1>9, <1>10, <1>11, <1>12, <1>13, <1>14 DEF HandlerStep

\* The workers write records that have their hash, and end the job or go on
\* with an active one.
LEMMA WorkerFits ==
    ASSUME IInv, AdmissionInv, NEW p \in Printers, WorkerStep(p)
    PROVE  \A s \in Jobs : Sound(job[s]) => Fits(s, job'[s])
<1>1. TypeOK /\ WorkerAt(p)
  BY DEF IInv, WorkerInv
<1>2. ASSUME NEW r \in Jobs, NEW state \in {"writing"} \cup Terminal, NEW o \in Outcomes,
             WriteJob(r, Rec(state, TRUE), o), job[r].state \in Hashed,
             state = "writing" => job[r].state = "queued"
      PROVE  \A s \in Jobs : Sound(job[s]) => Fits(s, job'[s])
  <2>1. Rec(state, TRUE) \in Records
    BY RecType DEF States, Active
  <2>2. Sound(job[r]) /\ job[r].sha
    BY <1>2 DEF AdmissionInv, RecordAt, Sound
  <2>3. Rec(state, TRUE).sha /\ Rec(state, TRUE).state = state /\ state # "absent"
    BY DEF Rec, Terminal
  <2>4. state \in Active => job[r].state \in Active
    BY <1>2 DEF Active, Terminal
  <2>5. Fits(r, Rec(state, TRUE))
    BY <2>2, <2>3, <2>4 DEF Fits, Sound
  <2> QED BY <1>1, <1>2, <2>1, <2>2, <2>5, WriteFits
<1>3. wpc[p] \notin {"loop", "dequeue"} => cur[p] \in Jobs /\ cur[p] # None
  BY <1>1, JobsAssumption DEF TypeOK, TypeWorkers
<1>4. CASE Begin(p)
  <2>1. PICK r \in Jobs : r = cur[p]
    BY <1>3, <1>4 DEF Begin
  <2>2. PICK o \in Outcomes : WriteJob(r, Rec("writing", TRUE), o)
    BY <1>4, <2>1 DEF Begin
  <2>3. job[r].state = "queued"
    BY <1>4, <2>1 DEF Begin, Ready
  <2> QED BY <1>2, <2>2, <2>3 DEF Hashed
<1>5. CASE Accept(p)
  <2>1. PICK r \in Jobs : r = cur[p] /\ r # None
    BY <1>3, <1>5 DEF Accept
  <2>2. PICK o \in Outcomes : WriteJob(r, Rec("transport_accepted", TRUE), o)
    BY <1>5, <2>1 DEF Accept
  <2>3. job[r].state = "writing"
    BY <1>1, <1>5, <2>1 DEF Accept, WorkerAt
  <2> QED BY <1>2, <2>2, <2>3 DEF Hashed, Terminal
<1>6. CASE Finish(p)
  <2>1. PICK r \in Jobs : r = cur[p] /\ r # None
    BY <1>3, <1>6 DEF Finish
  <2>2. PICK state \in Terminal, o \in Outcomes : WriteJob(r, Rec(state, TRUE), o)
    BY <1>1, <1>6, <2>1 DEF Finish, TypeOK, TypeWorkers
  <2>3. job[r].state \in {"writing", "transport_accepted"} /\ state # "writing"
    BY <1>1, <1>6, <2>1 DEF Finish, WorkerAt, Terminal
  <2> QED BY <1>2, <2>2, <2>3 DEF Hashed
<1>7. CASE CancelRecord(p)
  <2>1. PICK r \in Jobs : r = Subject(p) /\ job[r].state \in {"queued", "cancelled"}
    BY <1>7, JobInQueue DEF CancelRecord, Waiting
  <2>2. PICK o \in Outcomes : WriteJob(r, Rec("cancelled", TRUE), o)
    BY <1>7, <2>1 DEF CancelRecord
  <2> QED BY <1>2, <2>1, <2>2 DEF Hashed, Terminal
<1>8. CASE \/ Pop(p) \/ Skip(p) \/ SendAll(p) \/ SendSome(p) \/ SendNone(p) \/ ReceiveEnqueue(p)
           \/ ReceivePause(p) \/ RefuseCancel(p) \/ CancelDequeue(p)
  <2>1. UNCHANGED job
    BY <1>8 DEF Pop, Skip, SendAll, SendSome, SendNone, Delivery, ReceiveEnqueue, ReceivePause,
       RefuseCancel, CancelDequeue
  <2> QED BY <2>1, NoWriteFits
<1> QED BY <1>4, <1>5, <1>6, <1>7, <1>8 DEF WorkerStep

\* Recovery keeps the hash as it is, and ends the job; nothing else writes.
LEMMA NextFits ==
    ASSUME IInv, AdmissionInv, [Next]_vars, NEW s \in Jobs
    PROVE  Fits(s, job'[s])
<1>1. Sound(job[s])
  BY DEF AdmissionInv, RecordAt
<1>2. ASSUME NEW r \in Jobs, RecoverJob(r)
      PROVE  \A e \in Jobs : Sound(job[e]) => Fits(e, job'[e])
  <2>1. TypeOK /\ job[r].state \in {"receiving", "writing"} /\ Sound(job[r])
    BY <1>2 DEF IInv, RecoverJob, Unsettled, AdmissionInv, RecordAt
  <2>2. PICK o \in Outcomes, state \in {"failed", "outcome_unknown"} :
            /\ WriteJob(r, Rec(state, job[r].sha), o)
            /\ state = "outcome_unknown" => job[r].state = "writing"
    BY <1>2, <2>1 DEF RecoverJob
  <2>3. job[r].sha \in BOOLEAN /\ state \in States
    BY <2>1 DEF TypeOK, TypeRecords, Records, States, Terminal
  <2>4. Rec(state, job[r].sha) \in Records
    BY <2>3, RecType
  <2>5. /\ Rec(state, job[r].sha).sha = job[r].sha
        /\ Rec(state, job[r].sha).state = state /\ state \notin Active
    BY DEF Rec, Active
  <2>6. state \in Hashed => job[r].sha
    BY <2>1, <2>2 DEF Sound, Hashed
  <2>7. Fits(r, Rec(state, job[r].sha))
    BY <2>5, <2>6 DEF Fits, Sound
  <2> QED BY <2>1, <2>2, <2>4, <2>7, WriteFits
<1>3. CASE Start \/ Environment \/ UNCHANGED vars
  <2>1. UNCHANGED job
    BY <1>3 DEF Start, Environment, Crash, Disconnect, RequestCancel, RequestPause, Operator,
       recordVars, vars
  <2> QED BY <1>1, <2>1, NoWriteFits
<1> QED BY <1>1, <1>2, <1>3, HandlerFits, WorkerFits DEF Next, Recovery

-----------------------------------------------------------------------------
(* Where a step takes the handler of a job, and what the client is told.     *)

\* The position of job s and its answer, seen from its neighbours: a hash is
\* recorded and the job listed before the positions that rely on it are
\* reached, and only the check leads into the admission.
Moves(s) ==
    /\ hpc'[s] \in Fresh => hpc[s] \in Fresh
    /\ hpc'[s] \in Admitting => hpc[s] \in Admitting \/ CheckPassed(s)
    /\ hpc'[s] \in Saved => hpc[s] \in Saved \/ job'[s].sha
    /\ hpc'[s] \in Listed => hpc[s] \in Listed \/ s \in index'
    /\ answer'[s].kind = "accepted" =>
        answer'[s] = answer[s] \/ CheckFound(s) \/ HoldJob(s) \/ Enqueued(s)

\* Another handler, or none, moved.
Stays(s) == hpc'[s] = hpc[s] /\ answer'[s] = answer[s]

LEMMA StayMoves ==
    ASSUME NEW s \in Jobs, Stays(s)
    PROVE  Moves(s)
  BY DEF Stays, Moves

\* A handler that answers is done, and one that goes on has answered nothing.
LEMMA GotoMoves ==
    ASSUME TypeOK, NEW r \in Jobs, NEW pc, Goto(r, pc)
    PROVE  /\ hpc'[r] = pc /\ answer'[r] = answer[r] /\ lock' = lock
           /\ \A s \in Jobs : s # r => Stays(s)
<1>1. hpc \in [Jobs -> HandlerPCs] /\ hpc' = [hpc EXCEPT ![r] = pc]
      /\ lock' = lock /\ answer' = answer
  BY DEF TypeOK, TypeHandlers, Goto
<1> QED BY <1>1 DEF Stays

LEMMA AnswerMoves ==
    ASSUME TypeOK, NEW r \in Jobs, NEW kind, NEW j, Answer(r, kind, j)
    PROVE  /\ hpc'[r] = "done" /\ answer'[r] = [kind |-> kind, job |-> j]
           /\ lock' = IF lock = r THEN None ELSE lock
           /\ \A s \in Jobs : s # r => Stays(s)
<1>1. /\ hpc \in [Jobs -> HandlerPCs] /\ hpc' = [hpc EXCEPT ![r] = "done"]
      /\ answer \in [Jobs -> [kind : AnswerKinds, job : Jobs]]
      /\ answer' = [answer EXCEPT ![r] = [kind |-> kind, job |-> j]]
      /\ lock' = IF lock = r THEN None ELSE lock
  BY DEF TypeOK, TypeHandlers, Answer
<1> QED BY <1>1 DEF Stays

\* A step of the handler of job r: it enters the lock when that is free, or
\* leaves it, or keeps it; what the others do stands still.
HandlerMoves(r) ==
    /\ Moves(r) /\ index \subseteq index'
    /\ \A s \in Jobs : s # r => Stays(s)
    /\ \/ lock' = lock /\ (hpc'[r] \in Critical => hpc[r] \in Critical)
       \/ lock = r /\ lock' = None /\ hpc'[r] = "done"
       \/ lock = None /\ lock' = r

\* It answers, and not with a 202, ...
LEMMA Answers ==
    ASSUME TypeOK, NEW r \in Jobs, NEW kind, NEW j, Answer(r, kind, j),
           kind # "accepted" \/ CheckFound(r) \/ HoldJob(r) \/ Enqueued(r),
           index \subseteq index'
    PROVE  HandlerMoves(r)
<1>1. /\ hpc'[r] = "done" /\ answer'[r] = [kind |-> kind, job |-> j]
      /\ lock' = IF lock = r THEN None ELSE lock
      /\ \A s \in Jobs : s # r => Stays(s)
  BY AnswerMoves
<1>2. "done" \notin Fresh \cup Admitting \cup Saved \cup Listed \cup Critical
  BY DEF Fresh, Admitting, Saved, Listed, Critical
<1>3. Moves(r)
  BY <1>1, <1>2 DEF Moves
<1> QED BY <1>1, <1>2, <1>3 DEF HandlerMoves

\* ... or goes on.
LEMMA Proceeds ==
    ASSUME TypeOK, NEW r \in Jobs, NEW pc, Goto(r, pc), index \subseteq index',
           pc \in Fresh => hpc[r] \in Fresh,
           pc \in Admitting => hpc[r] \in Admitting \/ CheckPassed(r),
           pc \in Saved => hpc[r] \in Saved \/ job'[r].sha,
           pc \in Listed => hpc[r] \in Listed \/ r \in index',
           pc \in Critical => hpc[r] \in Critical
    PROVE  HandlerMoves(r)
  BY GotoMoves DEF HandlerMoves, Moves

LEMMA HandlerSteps ==
    ASSUME IInv, NEW r \in Jobs, HandlerStep(r) \/ Disconnect(r)
    PROVE  HandlerMoves(r)
<1>1. TypeOK
  BY DEF IInv
<1> USE DEF Fresh, Admitting, Listed, Saved, Critical
<1>2. CASE V1Create(r)
  <2>1. hpc[r] = "new" /\ index' = index
    BY <1>2 DEF V1Create
  <2>2. Goto(r, "upload") \/ Answer(r, "error", r)
    BY <1>2 DEF V1Create
  <2> QED BY <1>1, <2>1, <2>2, Proceeds, Answers
<1>3. CASE V1Uploaded(r) \/ V2Prepare(r)
  <2>1. hpc[r] \in {"new", "upload"} /\ index' = index /\ Goto(r, "lock")
    BY <1>3 DEF V1Uploaded, V2Prepare, recordVars
  <2> QED BY <1>1, <2>1, Proceeds
<1>4. CASE V1TooLarge(r) \/ V1UploadFailed(r) \/ CheckFull(r) \/ CheckFailed(r)
           \/ V2PayloadFailed(r) \/ RejectJob(r) \/ Disconnect(r)
  <2>1. /\ index' = index
        /\ \E kind \in {"refused", "error", "full", "gone"} : Answer(r, kind, r)
    BY <1>4 DEF V1TooLarge, V1UploadFailed, CheckFull, CheckFailed, V2PayloadFailed, RejectJob,
       Disconnect, recordVars
  <2> QED BY <1>1, <2>1, Answers
<1>5. CASE AcquireLock(r)
  <2>1. /\ hpc[r] = "lock" /\ hpc' = [hpc EXCEPT ![r] = "check"] /\ answer' = answer
        /\ lock = None /\ lock' = r /\ index' = index
    BY <1>5 DEF AcquireLock, recordVars
  <2> QED BY <1>1, <2>1 DEF HandlerMoves, Moves, Stays, TypeOK, TypeHandlers
<1>6. CASE CheckFound(r)
  <2>1. index' = index /\ \E kind, e : Answer(r, kind, e)
    BY <1>6 DEF CheckFound
  <2> QED BY <1>1, <1>6, <2>1, Answers
<1>7. CASE CheckPassed(r)
  <2>1. hpc[r] = "check" /\ index' = index /\ \E pc \in {"save", "create"} : Goto(r, pc)
    BY <1>7 DEF CheckPassed, recordVars
  <2> QED BY <1>1, <1>7, <2>1, Proceeds
<1>8. CASE V2Create(r)
  <2>1. hpc[r] = "create" /\ index' = index
    BY <1>8 DEF V2Create
  <2>2. Goto(r, "payload") \/ Answer(r, "error", r)
    BY <1>8 DEF V2Create
  <2> QED BY <1>1, <2>1, <2>2, Proceeds, Answers
<1>9. CASE V2PayloadStored(r)
  <2>1. hpc[r] = "payload" /\ index' = index /\ Goto(r, "save")
    BY <1>9 DEF V2PayloadStored, recordVars
  <2> QED BY <1>1, <2>1, Proceeds
<1>10. CASE Submit(r)
  <2>1. hpc[r] = "save" /\ index' = index
    BY <1>10 DEF Submit
  <2>2. PICK o \in Outcomes, state \in {"held", "queued"} :
            /\ WriteJob(r, Rec(state, TRUE), o)
            /\ IF o = "ok" THEN Goto(r, "register") ELSE Answer(r, "error", r)
    BY <1>10 DEF Submit
  <2>3. CASE o = "ok"
    <3>1. job'[r] = Rec(state, TRUE)
      BY <1>1, <2>2, <2>3 DEF WriteJob, Landed, TypeOK, TypeRecords
    <3> QED BY <1>1, <2>1, <2>2, <2>3, <3>1, Proceeds DEF Rec
  <2>4. CASE o # "ok"
    BY <1>1, <2>1, <2>2, <2>4, Answers
  <2> QED BY <2>3, <2>4
<1>11. CASE Register(r)
  <2>1. hpc[r] = "register"
    BY <1>11 DEF Register
  <2>2. PICK o \in Outcomes :
            /\ index' = IF Landed(o) THEN index \cup {r} ELSE index
            /\ IF o = "ok" THEN Goto(r, "event") ELSE Answer(r, "error", r)
    BY <1>11 DEF Register
  <2>3. index \subseteq index' /\ (o = "ok" => r \in index')
    BY <2>2 DEF Landed
  <2> QED BY <1>1, <2>1, <2>2, <2>3, Proceeds, Answers
<1>12. CASE AppendEvent(r)
  <2>1. hpc[r] = "event" /\ index' = index
    BY <1>12 DEF AppendEvent, recordVars
  <2>2. Goto(r, "hold") \/ Goto(r, "enqueue") \/ Answer(r, "error", r)
    BY <1>12 DEF AppendEvent
  <2> QED BY <1>1, <2>1, <2>2, Proceeds, Answers
<1>13. CASE HoldJob(r) \/ Enqueued(r)
  <2>1. index' = index /\ \E kind : Answer(r, kind, r)
    BY <1>13 DEF HoldJob, Enqueued, recordVars
  <2> QED BY <1>1, <1>13, <2>1, Answers
<1>14. CASE Enqueue(r) \/ NotEnqueued(r)
  <2>1. hpc[r] \in {"enqueue", "await"} /\ index' = index
    BY <1>14 DEF Enqueue, NotEnqueued, recordVars
  <2>2. Goto(r, "await") \/ Goto(r, "reject")
    BY <1>14 DEF Enqueue, NotEnqueued
  <2> QED BY <1>1, <2>1, <2>2, Proceeds
<1> QED BY <1>2, <1>3, <1>4, <1>5, <1>6, <1>7, <1>8, <1>9, <1>10, <1>11, <1>12, <1>13, <1>14
        DEF HandlerStep

\* The step of any actor: a handler moves, or all of them stand still, or the
\* agent stops.
LEMMA NextMoves ==
    ASSUME IInv, [Next]_vars
    PROVE  /\ req' = req /\ index \subseteq index' /\ \A s \in Jobs : Moves(s)
           /\ \/ \E r \in Jobs : HandlerMoves(r)
              \/ lock' = lock /\ \A s \in Jobs : Stays(s)
              \/ Crash
<1>1. req' = req
  BY RequestsStay
<1>2. ASSUME NEW r \in Jobs, HandlerStep(r) \/ Disconnect(r)
      PROVE  HandlerMoves(r) /\ index \subseteq index' /\ \A s \in Jobs : Moves(s)
  BY <1>2, HandlerSteps, StayMoves DEF HandlerMoves
<1>3. ASSUME NEW p \in Printers, WorkerStep(p)
      PROVE  UNCHANGED <<index, handlerVars>>
  BY <1>3 DEF WorkerStep, Pop, Begin, Skip, SendAll, SendSome, SendNone, Delivery, Accept, Finish,
     ReceiveEnqueue, ReceivePause, RefuseCancel, CancelRecord, Receive, CancelDequeue, Worker
<1>4. ASSUME \/ Recovery \/ UNCHANGED vars
             \/ \E r \in Jobs : RequestCancel(r)
             \/ \E p \in Printers : RequestPause(p)
      PROVE  UNCHANGED <<index, handlerVars>>
  BY <1>4 DEF Recovery, Start, RecoverJob, RequestCancel, RequestPause, Operator, recordVars, vars
<1>5. UNCHANGED <<index, handlerVars>> =>
        /\ lock' = lock /\ index \subseteq index' /\ \A s \in Jobs : Stays(s) /\ Moves(s)
  <2>1. UNCHANGED handlerVars => lock' = lock /\ \A s \in Jobs : Stays(s)
    BY DEF handlerVars, Stays
  <2> QED BY <2>1, StayMoves
<1>6. CASE Crash
  <2>1. index' = index
    BY <1>6 DEF Crash, recordVars
  <2>2. ASSUME NEW s \in Jobs PROVE Moves(s)
    <3>1. hpc'[s] = IF hpc[s] = "new" THEN "new" ELSE "done"
      BY <1>6 DEF Crash
    <3>2. answer'[s] = answer[s] \/ answer'[s].kind = "gone"
      BY <1>6 DEF Crash
    <3> QED BY <3>1, <3>2 DEF Moves, Fresh, Admitting, Saved, Listed
  <2> QED BY <1>1, <1>6, <2>1, <2>2
<1> QED BY <1>1, <1>2, <1>3, <1>4, <1>5, <1>6 DEF Next, Environment

-----------------------------------------------------------------------------
(* The inductive step.                                                       *)

\* The lock belongs to the one handler that is past it.
LEMMA LockStep ==
    ASSUME IInv, AdmissionInv, [Next]_vars, NEW s \in Jobs
    PROVE  LockAt(s)'
<1> SUFFICES ASSUME hpc'[s] \in Critical PROVE lock' = s
  BY DEF LockAt
<1>1. hpc[s] \in Critical => lock = s
  BY DEF AdmissionInv, LockAt
<1>2. s # None
  BY JobsAssumption
<1>3. ASSUME NEW r \in Jobs, HandlerMoves(r) PROVE lock' = s
  <2>1. CASE s = r
    <3>1. "done" \notin Critical
      BY DEF Critical, Admitting, Saved, Listed
    <3> QED BY <1>1, <1>3, <2>1, <3>1 DEF HandlerMoves
  <2>2. CASE s # r
    <3>1. hpc'[s] = hpc[s]
      BY <1>3, <2>2 DEF HandlerMoves, Stays
    <3> QED BY <1>1, <1>2, <1>3, <2>2, <3>1 DEF HandlerMoves
  <2> QED BY <2>1, <2>2
<1>4. CASE lock' = lock /\ \A r \in Jobs : Stays(r)
  BY <1>1, <1>4 DEF Stays
<1>5. CASE Crash
  <2>1. hpc'[s] \in {"new", "done"}
    BY <1>5 DEF Crash
  <2> QED BY <2>1 DEF Critical, Admitting, Saved, Listed
<1> QED BY <1>3, <1>4, <1>5, NextMoves

\* One job at most is being admitted, and only that one can become admitted.
LEMMA OneAtATime ==
    ASSUME IInv, AdmissionInv, [Next]_vars, NEW r \in Jobs, NEW e \in Jobs, e # r,
           hpc[r] \in Admitting
    PROVE  /\ job'[e].sha => job[e].sha
           /\ job'[e].sha /\ job'[e].state \in Active => job[e].sha /\ job[e].state \in Active
<1>1. lock = r /\ (hpc[e] \in Admitting => lock = e)
  BY DEF AdmissionInv, LockAt, Critical
<1> QED BY <1>1, NextFits DEF Fits

\* The record, the list, and the hash a handler relies on are there.
LEMMA RecordsStep ==
    ASSUME IInv, AdmissionInv, [Next]_vars, NEW s \in Jobs
    PROVE  RecordAt(s)' /\ ListedAt(s)'
<1>1. Fits(s, job'[s]) /\ Moves(s) /\ index \subseteq index'
  BY NextFits, NextMoves
<1>2. RecordAt(s) /\ ListedAt(s)
  BY DEF AdmissionInv
<1>3. Fresh \cap Admitting = {}
  BY DEF Fresh, Admitting
<1>4. Sound(job[s])' /\ (job[s].sha => job'[s].sha)
  BY <1>1 DEF Fits, Sound
<1>5. hpc'[s] \in Fresh => ~job'[s].sha
  BY <1>1, <1>2, <1>3 DEF Fits, Moves, RecordAt
<1>6. hpc'[s] \in Saved => job'[s].sha
  BY <1>1, <1>2, <1>4 DEF Moves, RecordAt
<1>7. hpc'[s] \in Listed => s \in index'
  BY <1>1, <1>2 DEF Moves, ListedAt
<1> QED BY <1>4, <1>5, <1>6, <1>7 DEF RecordAt, ListedAt

\* Sets of jobs have a size.
LEMMA JobSets ==
    ASSUME NEW S \in SUBSET Jobs
    PROVE  /\ IsFiniteSet(S) /\ Cardinality(S) \in Nat
           /\ \A T \in SUBSET S : Cardinality(T) \in Nat /\ Cardinality(T) <= Cardinality(S)
           /\ \A r \in S : Cardinality(S) = Cardinality(S \ {r}) + 1
<1>1. IsFiniteSet(S)
  BY JobsAssumption, FS_Subset
<1>2. \A T \in SUBSET S : IsFiniteSet(T) /\ Cardinality(T) <= Cardinality(S)
  BY <1>1, FS_Subset
<1>3. \A r \in S : Cardinality(S \ {r}) = Cardinality(S) - 1 /\ IsFiniteSet(S \ {r})
  BY <1>1, FS_RemoveElement
<1>4. \A T : IsFiniteSet(T) => Cardinality(T) \in Nat
  BY FS_CardinalityType
<1> QED BY <1>1, <1>2, <1>3, <1>4

\* The check pays for the records its two scans passed over.
LEMMA CheckSkips ==
    ASSUME IInv, AdmissionInv, NEW s \in Jobs, CheckPassed(s)
    PROVE  /\ SameKey(s) \in SUBSET Jobs /\ Cardinality(SameKey(s)) \in Nat
           /\ \E uncounted \in SUBSET ActiveJobs(Printer(s)) :
                /\ ~QueueFull(s, uncounted) /\ Cardinality(uncounted) \in Nat
                /\ Skipped' = Skipped + Cardinality(SameKey(s)) + Cardinality(uncounted)
<1>1. PICK uncounted \in SUBSET ActiveJobs(Printer(s)) :
        /\ ~QueueFull(s, uncounted)
        /\ SpendBoth(0, Cardinality(SameKey(s)) + Cardinality(uncounted))
  BY DEF CheckPassed
<1>2. SameKey(s) \in SUBSET Jobs /\ uncounted \in SUBSET Jobs
  BY DEF SameKey, ActiveJobs
<1>3. Cardinality(SameKey(s)) \in Nat /\ Cardinality(uncounted) \in Nat
  BY <1>2, SkipsType
<1>4. Budget["read"] \in Nat /\ budget \in [{"crash", "fault", "drop", "control", "read"} -> Nat]
  BY BudgetAssumption DEF IInv, TypeOK, TypePaper
<1>5. budget'["read"] = budget["read"] - (Cardinality(SameKey(s)) + Cardinality(uncounted))
  BY <1>1, <1>3, <1>4 DEF SpendBoth
<1>6. Skipped' = Skipped + Cardinality(SameKey(s)) + Cardinality(uncounted)
  BY <1>3, <1>4, <1>5 DEF Skipped
<1> QED BY <1>1, <1>2, <1>3, <1>6

\* Whoever else has the key of the job that is being admitted was skipped.
LEMMA SoleStep ==
    ASSUME IInv, AdmissionInv, [Next]_vars, NEW s \in Jobs
    PROVE  SoleAt(s)'
<1>1. req' = req /\ Moves(s)
  BY NextMoves
<1>2. Skipped \in Nat /\ Skipped' \in Nat /\ Skipped <= Skipped'
  BY SkippedStep DEF IInv, AdmissionInv
<1> SUFFICES ASSUME hpc'[s] \in Admitting PROVE Cardinality(SameKey(s)') <= Skipped'
  BY DEF SoleAt
<1>3. CASE hpc[s] \in Admitting
  <2>1. SameKey(s)' \in SUBSET SameKey(s)
    BY <1>1, <1>3, OneAtATime DEF SameKey
  <2>2. SameKey(s) \in SUBSET Jobs
    BY DEF SameKey
  <2>3. /\ Cardinality(SameKey(s)') \in Nat /\ Cardinality(SameKey(s)) \in Nat
        /\ Cardinality(SameKey(s)') <= Cardinality(SameKey(s))
    BY <2>1, <2>2, JobSets
  <2>4. Cardinality(SameKey(s)) <= Skipped
    BY <1>3 DEF AdmissionInv, SoleAt
  <2> QED BY <1>2, <2>3, <2>4
<1>4. CASE CheckPassed(s)
  <2>1. SameKey(s)' = SameKey(s)
    BY <1>1, <1>4 DEF CheckPassed, recordVars, SameKey
  <2> QED BY <1>2, <1>4, <2>1, CheckSkips
<1> QED BY <1>1, <1>3, <1>4 DEF Moves

\* The check leaves room for one: v1 counts its own record, v2 has none yet.
LEMMA CheckLeavesRoom ==
    ASSUME IInv, AdmissionInv, NEW s \in Jobs, CheckPassed(s)
    PROVE  Cardinality(Admitted(Printer(s)) \ {s}) < MaxActive + Skipped'
<1> DEFINE A == ActiveJobs(Printer(s))
<1>0. PICK U \in SUBSET A :
        /\ ~QueueFull(s, U) /\ Cardinality(U) \in Nat
        /\ Skipped' = Skipped + Cardinality(SameKey(s)) + Cardinality(U)
  BY CheckSkips
<1>1. HandlerAt(s) /\ hpc[s] = "check" /\ req[s].api \in {"v1", "v2"}
  BY PrinterType DEF IInv, HandlerInv, CheckPassed
<1>2. Admitted(Printer(s)) \subseteq A /\ A \in SUBSET Jobs
  BY DEF Admitted, ActiveJobs
<1>3. /\ Cardinality(A) \in Nat /\ MaxActive \in Nat /\ Skipped \in Nat
      /\ Cardinality(SameKey(s)) \in Nat /\ Skipped' >= Skipped + Cardinality(U)
  BY <1>0, <1>2, CheckSkips, JobSets, LimitsAssumption DEF AdmissionInv
<1>4. Cardinality(A) = Cardinality(A \ U) + Cardinality(U) /\ Cardinality(A \ U) \in Nat
  <2>1. A \cap U = U /\ IsFiniteSet(A) /\ A \ U \in SUBSET Jobs
    BY <1>2, JobSets
  <2>2. Cardinality(A \ U) = Cardinality(A) - Cardinality(A \cap U)
    BY <2>1, FS_Difference
  <2>3. Cardinality(A \ U) \in Nat
    BY <2>1, JobSets
  <2>4. Cardinality(A \cap U) = Cardinality(U)
    BY <2>1
  <2>5. Cardinality(A) \in Nat /\ Cardinality(U) \in Nat
    BY <1>0, <1>3
  <2> HIDE DEF A
  <2> QED BY <2>2, <2>3, <2>4, <2>5
<1>5. CASE req[s].api = "v1"
  <2>1. s \in A
    BY <1>1, <1>5 DEF HandlerAt, ActiveJobs, Active
  <2>2. Cardinality(A \ U) <= MaxActive
    BY <1>0, <1>3, <1>4, <1>5 DEF QueueFull
  <2>3. Cardinality(A) = Cardinality(A \ {s}) + 1
    BY <1>2, <2>1, JobSets
  <2>4. A \ {s} \in SUBSET Jobs /\ Admitted(Printer(s)) \ {s} \in SUBSET (A \ {s})
    BY <1>2
  <2>5. /\ Cardinality(Admitted(Printer(s)) \ {s}) \in Nat /\ Cardinality(A \ {s}) \in Nat
        /\ Cardinality(Admitted(Printer(s)) \ {s}) <= Cardinality(A \ {s})
    BY <2>4, JobSets
  <2> QED BY <1>0, <1>3, <1>4, <2>2, <2>3, <2>5
<1>6. CASE req[s].api = "v2"
  <2>1. Cardinality(A \ U) < MaxActive
    BY <1>0, <1>3, <1>4, <1>6 DEF QueueFull
  <2>2. Admitted(Printer(s)) \ {s} \in SUBSET A
    BY <1>2
  <2>3. /\ Cardinality(Admitted(Printer(s)) \ {s}) \in Nat
        /\ Cardinality(Admitted(Printer(s)) \ {s}) <= Cardinality(A)
    BY <1>2, <2>2, JobSets
  <2> QED BY <1>0, <1>3, <1>4, <2>1, <2>3
<1> QED BY <1>1, <1>5, <1>6

\* While a job is being admitted, the others admitted can only become fewer.
LEMMA OthersShrink ==
    ASSUME IInv, AdmissionInv, [Next]_vars, NEW r \in Jobs, hpc[r] \in Admitting,
           NEW p \in Printers
    PROVE  Admitted(p)' \ {r} \subseteq Admitted(p) \ {r}
<1>1. req' = req
  BY NextMoves
<1> SUFFICES ASSUME NEW e \in Admitted(p)', e # r PROVE e \in Admitted(p)
  OBVIOUS
<1>2. /\ e \in Jobs /\ Printer(e) = p /\ job'[e].sha /\ job'[e].state \in Active
  BY <1>1 DEF Admitted, ActiveJobs, Printer
<1> QED BY <1>2, OneAtATime DEF Admitted, ActiveJobs

LEMMA RoomStep ==
    ASSUME IInv, AdmissionInv, [Next]_vars, NEW s \in Jobs
    PROVE  RoomAt(s)'
<1>1. req' = req /\ Moves(s)
  BY NextMoves
<1>2. Printer(s)' = Printer(s) /\ Printer(s) \in Printers
  BY <1>1, PrinterType DEF Printer, IInv
<1> DEFINE p == Printer(s)
<1> SUFFICES ASSUME hpc'[s] \in Admitting
             PROVE  Cardinality(Admitted(p)' \ {s}) < MaxActive + Skipped'
  BY <1>2 DEF RoomAt
<1>0. Skipped \in Nat /\ Skipped' \in Nat /\ Skipped <= Skipped'
  BY SkippedStep DEF IInv, AdmissionInv
<1>3. CASE hpc[s] \in Admitting
  <2>1. Admitted(p)' \ {s} \in SUBSET (Admitted(p) \ {s})
    BY <1>2, <1>3, OthersShrink
  <2>2. Admitted(p) \ {s} \in SUBSET Jobs
    BY DEF Admitted, ActiveJobs
  <2>3. /\ Cardinality(Admitted(p)' \ {s}) \in Nat /\ Cardinality(Admitted(p) \ {s}) \in Nat
        /\ Cardinality(Admitted(p)' \ {s}) <= Cardinality(Admitted(p) \ {s})
    BY <2>1, <2>2, JobSets
  <2>4. Cardinality(Admitted(p) \ {s}) < MaxActive + Skipped
    BY <1>3 DEF AdmissionInv, RoomAt
  <2> QED BY <1>0, <2>3, <2>4, LimitsAssumption
<1>4. CASE CheckPassed(s)
  <2>1. Admitted(p)' = Admitted(p)
    BY <1>1, <1>4 DEF CheckPassed, recordVars, Admitted, ActiveJobs, Printer
  <2> QED BY <1>4, <2>1, CheckLeavesRoom
<1> QED BY <1>1, <1>3, <1>4 DEF Moves

\* A key gets the one job more that its lookup did not find.
LEMMA KeyStep ==
    ASSUME IInv, AdmissionInv, [Next]_vars
    PROVE  KeyUnique'
<1>1. req' = req
  BY NextMoves
<1>2. Skipped \in Nat /\ Skipped' \in Nat /\ Skipped <= Skipped'
  BY SkippedStep DEF IInv, AdmissionInv
<1> SUFFICES ASSUME NEW k \in Keys PROVE Cardinality(Holders(k)') <= 1 + Skipped'
  BY DEF KeyUnique
<1>3. Holders(k) \in SUBSET Jobs /\ Holders(k)' \in SUBSET Jobs
  BY DEF Holders
<1>4. Cardinality(Holders(k)) <= 1 + Skipped
  BY DEF AdmissionInv, KeyUnique
<1>5. CASE Holders(k)' \subseteq Holders(k)
  <2>1. /\ Cardinality(Holders(k)') \in Nat /\ Cardinality(Holders(k)) \in Nat
        /\ Cardinality(Holders(k)') <= Cardinality(Holders(k))
    BY <1>3, <1>5, JobSets
  <2> QED BY <1>2, <1>4, <2>1
<1>6. ASSUME NEW r \in Holders(k)', r \notin Holders(k)
      PROVE  Cardinality(Holders(k)') <= 1 + Skipped'
  <2>1. r \in Jobs /\ req[r].key = k /\ job'[r].sha /\ ~job[r].sha /\ k # NoKey
    BY <1>1, <1>6 DEF Holders, Keys
  <2>2. hpc[r] \in Admitting
    BY <2>1, NextFits DEF Fits
  <2>3. Holders(k)' \ {r} \in SUBSET SameKey(r) /\ SameKey(r) \in SUBSET Jobs
    BY <1>1, <2>1, <2>2, OneAtATime DEF Holders, SameKey
  <2>4. /\ Cardinality(Holders(k)' \ {r}) \in Nat /\ Cardinality(SameKey(r)) \in Nat
        /\ Cardinality(Holders(k)' \ {r}) <= Cardinality(SameKey(r))
    BY <2>3, JobSets
  <2>5. Cardinality(SameKey(r)) <= Skipped
    BY <2>1, <2>2 DEF AdmissionInv, SoleAt
  <2>6. Cardinality(Holders(k)') = Cardinality(Holders(k)' \ {r}) + 1
    BY <1>3, <1>6, JobSets
  <2> QED BY <1>2, <2>4, <2>5, <2>6
<1> QED BY <1>5, <1>6

\* The admitted jobs become more by the one that found room.
LEMMA BoundStep ==
    ASSUME IInv, AdmissionInv, [Next]_vars
    PROVE  AdmittedBound'
<1>1. req' = req
  BY NextMoves
<1>0. Skipped \in Nat /\ Skipped' \in Nat /\ Skipped <= Skipped'
  BY SkippedStep DEF IInv, AdmissionInv
<1> SUFFICES ASSUME NEW p \in Printers PROVE Cardinality(Admitted(p)') <= MaxActive + Skipped'
  BY DEF AdmittedBound, Admitted
<1>2. Admitted(p) \in SUBSET Jobs /\ Admitted(p)' \in SUBSET Jobs
  BY DEF Admitted, ActiveJobs
<1>3. Cardinality(Admitted(p)) <= MaxActive + Skipped
  BY DEF AdmissionInv, AdmittedBound, Admitted
<1>4. CASE Admitted(p)' \subseteq Admitted(p)
  <2>1. /\ Cardinality(Admitted(p)') \in Nat /\ Cardinality(Admitted(p)) \in Nat
        /\ Cardinality(Admitted(p)') <= Cardinality(Admitted(p))
    BY <1>2, <1>4, JobSets
  <2> QED BY <1>0, <1>3, <2>1, LimitsAssumption
<1>5. ASSUME NEW r \in Admitted(p)', r \notin Admitted(p)
      PROVE  Cardinality(Admitted(p)') <= MaxActive + Skipped'
  <2>1. /\ r \in Jobs /\ Printer(r) = p /\ job'[r].sha /\ job'[r].state \in Active
    BY <1>1, <1>5 DEF Admitted, ActiveJobs, Printer
  <2>2. hpc[r] \in Admitting
    BY <1>5, <2>1, NextFits DEF Fits, Admitted, ActiveJobs
  <2>3. Cardinality(Admitted(p) \ {r}) < MaxActive + Skipped
    BY <2>1, <2>2 DEF AdmissionInv, RoomAt
  <2>4. Admitted(p)' \ {r} \in SUBSET (Admitted(p) \ {r})
    BY <2>1, <2>2, OthersShrink
  <2>5. Admitted(p) \ {r} \in SUBSET Jobs
    BY <1>2
  <2>6. /\ Cardinality(Admitted(p)' \ {r}) \in Nat /\ Cardinality(Admitted(p) \ {r}) \in Nat
        /\ Cardinality(Admitted(p)' \ {r}) <= Cardinality(Admitted(p) \ {r})
    BY <2>4, <2>5, JobSets
  <2>7. Cardinality(Admitted(p)') = Cardinality(Admitted(p)' \ {r}) + 1
    BY <1>2, <1>5, JobSets
  <2> QED BY <1>0, <2>3, <2>6, <2>7, LimitsAssumption
<1> QED BY <1>4, <1>5

\* A 202 is given for a record that has its hash, and records keep it.
LEMMA AnswerStep ==
    ASSUME IInv, AdmissionInv, [Next]_vars
    PROVE  AnswerHonest'
<1>1. req' = req /\ index \subseteq index'
  BY NextMoves
<1> SUFFICES ASSUME NEW r \in Jobs, answer'[r].kind = "accepted", NEW e, e = answer'[r].job
             PROVE  /\ job'[e].sha /\ job'[e].state # "absent"
                    /\ req[e].key = req[r].key /\ req[e].payload = req[r].payload
                    /\ Printer(e) = Printer(r)
                    /\ e = r => r \in index'
  BY <1>1 DEF AnswerHonest, Printer
<1>2. ASSUME NEW s \in Jobs, job[s].sha PROVE job'[s].sha /\ job'[s].state # "absent"
  BY <1>2, NextFits DEF Fits, Sound
<1>3. TypeOK
  BY DEF IInv
<1>4. CASE answer'[r] = answer[r]
  <2>1. answer[r] \in [kind : AnswerKinds, job : Jobs]
    BY <1>3 DEF TypeOK, TypeHandlers
  <2>2. e \in Jobs /\ e = answer[r].job /\ answer[r].kind = "accepted"
    BY <1>4, <2>1
  <2>3. /\ job[e].sha /\ req[e].key = req[r].key /\ req[e].payload = req[r].payload
        /\ Printer(e) = Printer(r) /\ (e = r => r \in index)
    BY <2>2 DEF AdmissionInv, AnswerHonest
  <2> QED BY <1>1, <1>2, <2>2, <2>3
<1>5. CASE CheckFound(r)
  <2>1. PICK j \in SameKey(r) :
            Answer(r, IF SameRequest(j, r) THEN "accepted" ELSE "conflict", j)
    BY <1>5 DEF CheckFound
  <2>2. j \in Jobs \ {r} /\ job[j].sha /\ req[j].key = req[r].key
    BY <2>1 DEF SameKey
  <2>3. answer'[r] = [kind |-> IF SameRequest(j, r) THEN "accepted" ELSE "conflict",
                      job |-> j]
    BY <1>3, <2>1, AnswerMoves
  <2>4. e = j /\ SameRequest(j, r)
    <3>1. answer'[r].kind = IF SameRequest(j, r) THEN "accepted" ELSE "conflict"
      BY <2>3
    <3> QED BY <2>3, <3>1
  <2> QED BY <1>2, <2>2, <2>4 DEF SameRequest
<1>6. CASE HoldJob(r) \/ Enqueued(r)
  <2>1. hpc[r] \in Listed /\ \E kind : Answer(r, kind, r)
    BY <1>6 DEF HoldJob, Enqueued, Listed
  <2>2. e = r
    <3>1. PICK kind : Answer(r, kind, r)
      BY <2>1
    <3>2. answer'[r] = [kind |-> kind, job |-> r]
      BY <1>3, <3>1, AnswerMoves
    <3> QED BY <3>2
  <2>3. job[r].sha /\ r \in index
    BY <2>1 DEF AdmissionInv, RecordAt, ListedAt, Saved
  <2> QED BY <1>1, <1>2, <2>2, <2>3
<1> QED BY <1>4, <1>5, <1>6, NextMoves DEF Moves

LEMMA AdmissionInit == Init => AdmissionInv
<1> SUFFICES ASSUME Init PROVE AdmissionInv
  OBVIOUS
<1>1. \A r \in Jobs : /\ job[r] = Absent /\ hpc[r] = "new"
                      /\ answer[r].kind = "none"
  BY DEF Init
<1>2. ~Absent.sha /\ Absent.state = "absent"
  BY DEF Absent
<1>3. ASSUME NEW r \in Jobs
      PROVE  LockAt(r) /\ RecordAt(r) /\ ListedAt(r) /\ SoleAt(r) /\ RoomAt(r)
  <2>1. "new" \notin Critical \cup Saved \cup Listed \cup Admitting
    BY DEF Critical, Saved, Listed, Admitting
  <2>2. "absent" \notin Hashed
    BY DEF Hashed
  <2> QED BY <1>1, <1>2, <2>1, <2>2 DEF LockAt, RecordAt, ListedAt, SoleAt, RoomAt, Sound
<1>0. Skipped = 0
  BY BudgetAssumption DEF Skipped, Init
<1>4. KeyUnique /\ AnswerHonest
  <2>1. \A k \in Keys : Holders(k) = {}
    BY <1>1, <1>2 DEF Holders
  <2>2. KeyUnique
    BY <1>0, <2>1, FS_EmptySet DEF KeyUnique
  <2> QED BY <1>1, <2>2 DEF AnswerHonest
<1>5. AdmittedBound
  <2> SUFFICES ASSUME NEW p \in Printers
               PROVE  Cardinality({r \in ActiveJobs(p) : job[r].sha}) <= MaxActive + Skipped
    BY DEF AdmittedBound
  <2>1. {r \in ActiveJobs(p) : job[r].sha} = {}
    BY <1>1, <1>2 DEF ActiveJobs
  <2> QED BY <1>0, <2>1, FS_EmptySet, LimitsAssumption
<1> QED BY <1>0, <1>3, <1>4, <1>5 DEF AdmissionInv

LEMMA AdmissionNext == IInv /\ AdmissionInv /\ [Next]_vars => AdmissionInv'
<1> SUFFICES ASSUME IInv, AdmissionInv, [Next]_vars PROVE AdmissionInv'
  OBVIOUS
<1>1. Skipped' \in Nat
  BY SkippedStep DEF IInv, AdmissionInv
<1> QED
  BY <1>1, LockStep, RecordsStep, SoleStep, RoomStep, KeyStep, BoundStep, AnswerStep DEF AdmissionInv

-----------------------------------------------------------------------------
(* The theorems.                                                             *)

\* One handler at a time is past the lock, and the hash, the list and the count
\* it relies on are as it found them: off by the unreadable records at most.
THEOREM AdmissionInvariant == Spec => []AdmissionInv
  BY PaperInvariant, AdmissionInit, AdmissionNext, PTL DEF Spec

\* However the submissions of both API versions interleave, vanish or meet a
\* crash, an idempotency key names one job at most, on whatever printer, and one
\* more for each record that a scan of the jobs directory could not read.
THEOREM KeysAreUnique == Spec => []KeyUnique
<1>1. AdmissionInv => KeyUnique
  BY DEF AdmissionInv
<1> QED BY <1>1, AdmissionInvariant, PTL

\* The jobs admitted to a printer never exceed max_active_jobs_per_printer,
\* although the check counts before the record is saved, but by the number of
\* records that could not be read.
THEOREM LimitHolds == Spec => []AdmittedBound
<1>1. AdmissionInv => AdmittedBound
  BY DEF AdmissionInv
<1> QED BY <1>1, AdmissionInvariant, PTL

\* What a 202 names is on disk, belongs to the same request, and stays there.
THEOREM AnswersAreHonest == Spec => []AnswerHonest
<1>1. AdmissionInv => AnswerHonest
  BY DEF AdmissionInv
<1> QED BY <1>1, AdmissionInvariant, PTL
-----------------------------------------------------------------------------
(* The strengthening: how much of the budget of faults is spent, and that the
   worker refuses a job only because of a fault.                             *)

Within    == budget["fault"] <= Budget["fault"] /\ Skipped \in Nat
NoRefusal == Writable => \A r \in Jobs : reply[r] # "err"

QueueSafety == /\ Within /\ NoRefusal
               /\ CancelHonoured /\ PauseDurable /\ QueuedIsTracked

-----------------------------------------------------------------------------
(* Which step touches what. *)

\* Steps of handlers and operators leave queues, pause flags and workers alone.
LEMMA OutsideWorkers ==
    ASSUME \/ \E r \in Jobs : HandlerStep(r) \/ Disconnect(r) \/ RequestCancel(r)
           \/ \E p \in Printers : RequestPause(p)
    PROVE  /\ up /\ UNCHANGED <<req, up, queue, paused, pfile, wpc, cur, reply>>
           /\ \/ UNCHANGED cancelled
              \/ \E r \in Jobs : cancelled' = [cancelled EXCEPT ![r] = "asked"]
<1>1. CASE \E r \in Jobs : HandlerStep(r) \/ Disconnect(r)
  <2>1. Handler
    BY <1>1 DEF HandlerStep, V1Create, V1Uploaded, V1TooLarge, V1UploadFailed, V2Prepare,
       AcquireLock, CheckFound, CheckFull, CheckPassed, CheckFailed, V2Create, V2PayloadStored,
       V2PayloadFailed, Submit, Register, AppendEvent, HoldJob, Enqueue, Enqueued, NotEnqueued,
       RejectJob, Disconnect
  <2> QED BY <2>1 DEF Handler, loopVars, workVars
<1>2. CASE \/ \E r \in Jobs : RequestCancel(r)
           \/ \E p \in Printers : RequestPause(p)
  BY <1>2 DEF RequestCancel, RequestPause, Operator, loopVars, workVars
<1> QED BY <1>1, <1>2

LEMMA WithinStep ==
    ASSUME TypeOK, Within, [Next]_vars
    PROVE  Within' /\ (Writable' => Writable) /\ (Skipped' = 0 => Skipped = 0)
<1>1. Budget["fault"] \in Nat
  BY BudgetAssumption
<1> QED BY <1>1, BudgetShrinks, SkippedStep DEF Within, Writable

\* While files can be written, no write fails.
LEMMA NoFault ==
    ASSUME TypeOK, Within, Writable', NEW n \in Nat, Spend("fault", n)
    PROVE  n = 0
<1>1. budget \in [{"crash", "fault", "drop", "control", "read"} -> Nat] /\ Budget["fault"] \in Nat
  BY BudgetAssumption DEF TypeOK, TypePaper
<1>2. budget'["fault"] = budget["fault"] - n
  BY <1>1 DEF Spend
<1> QED BY <1>1, <1>2 DEF Within, Writable

LEMMA NoFaultOk ==
    ASSUME TypeOK, Within, Writable', NEW o \in Outcomes, Spend("fault", Faults(o))
    PROVE  o = "ok"
  BY NoFault, FaultsType DEF Faults

\* So with a step that skips records, which are none while all could be read.
LEMMA NoSkip ==
    ASSUME TypeOK, Within, NEW n \in Nat, NEW skips \in Nat, SpendBoth(n, skips)
    PROVE  /\ Writable' => n = 0
           /\ Skipped' = 0 => skips = 0
<1>1. /\ budget \in [{"crash", "fault", "drop", "control", "read"} -> Nat]
      /\ Budget["fault"] \in Nat /\ Budget["read"] \in Nat
  BY BudgetAssumption DEF TypeOK, TypePaper
<1>2. budget'["fault"] = budget["fault"] - n /\ budget'["read"] = budget["read"] - skips
  BY <1>1 DEF SpendBoth
<1> QED BY <1>1, <1>2 DEF Within, Writable, Skipped

-----------------------------------------------------------------------------
(* Cancellation. *)

\* A job comes into a queue by its Enqueue or by recovery, and is Queued then.
LEMMA QueueGrowth ==
    ASSUME IInv, [Next]_vars, NEW r \in Jobs, InQueue(r)'
    PROVE  InQueue(r) \/ job[r].state = "queued"
<1>1. TypeOK
  BY DEF IInv
<1>15. PICK q \in Printers : \E i \in DOMAIN queue'[q] : queue'[q][i] = r
  BY DEF InQueue, Waiting
<1>2. PICK k \in DOMAIN queue'[q] : queue'[q][k] = r
  BY <1>15
<1>3. queue[q] \in Seq(Jobs)
  BY <1>1 DEF TypeOK, TypeQueues
<1>4. (\E i \in DOMAIN queue[q] : queue[q][i] = r) => InQueue(r)
  BY DEF InQueue, Waiting
<1>5. queue'[q] = queue[q] => InQueue(r)
  BY <1>2, <1>4
<1>6. Fewer(queue'[q], queue[q]) => InQueue(r)
  BY <1>2, <1>4 DEF Fewer
<1>7. ASSUME NEW p \in Printers, Pop(p) PROVE InQueue(r)
  <2>1. queue' = [queue EXCEPT ![p] = Tail(@)] \/ queue' = queue
    BY <1>7 DEF Pop
  <2>2. queue[p] # <<>>
    BY <1>7 DEF Pop
  <2>3. CASE q = p /\ queue'[q] = Tail(queue[q])
    BY <1>3, <1>6, <2>2, <2>3, FewerTail
  <2>4. CASE queue'[q] = queue[q]
    BY <1>5, <2>4
  <2> QED BY <1>1, <2>1, <2>3, <2>4 DEF TypeOK, TypeQueues
<1>8. ASSUME NEW p \in Printers, CancelDequeue(p) PROVE InQueue(r)
  <2>1. PICK i \in DOMAIN queue[p] :
            queue' = [queue EXCEPT ![p] = RemoveAt(@, i)] \/ queue' = queue
    BY <1>8 DEF CancelDequeue
  <2>2. CASE q = p /\ queue'[q] = RemoveAt(queue[q], i)
    BY <1>3, <1>6, <2>2, FewerRemoveAt
  <2>3. CASE queue'[q] = queue[q]
    BY <1>5, <2>3
  <2> QED BY <1>1, <2>1, <2>2, <2>3 DEF TypeOK, TypeQueues
<1>9. ASSUME NEW p \in Printers, ReceiveEnqueue(p)
      PROVE  InQueue(r) \/ job[r].state = "queued"
  <2>1. /\ chan[p] \in Seq(Commands) /\ chan[p] # <<>>
        /\ Head(chan[p]) \in Commands /\ Head(chan[p]).op = "enqueue"
    BY <1>9, ReceiveType DEF ReceiveEnqueue
  <2>2. PICK s \in Jobs : Head(chan[p]) = Enq(s) /\ Subject(p) = s
    BY <2>1, CommandForm DEF Subject
  <2>3. 1 \in DOMAIN chan[p] /\ chan[p][1] = Enq(s)
    BY <2>1, <2>2, FewerTail
  <2>4. job[s].state = "queued"
    BY <2>3 DEF IInv, ChannelInv
  <2>5. queue' = [queue EXCEPT ![p] = Append(@, s)] \/ queue' = queue
    BY <1>9, <2>2 DEF ReceiveEnqueue
  <2>6. CASE q = p /\ queue'[q] = Append(queue[q], s)
    <3>1. (k \in DOMAIN queue[q] /\ queue'[q][k] = queue[q][k]) \/ queue'[q][k] = s
      BY <1>2, <1>3, <2>6
    <3> QED BY <1>2, <1>4, <2>4, <3>1
  <2>7. CASE queue'[q] = queue[q]
    BY <1>5, <2>7
  <2> QED BY <1>1, <2>5, <2>6, <2>7 DEF TypeOK, TypeQueues
<1>10. CASE Start
  <2>1. queue'[q] = <<>> \/ \E unread \in SUBSET Jobs : queue'[q] \in RecoveredQueues(q, unread)
    <3>1. PICK noQueue \in SUBSET Printers, unread \in SUBSET Jobs :
            /\ \A p \in Printers : qfile'[p] \in RecoveredQueues(p, unread)
            /\ queue' = [p \in Printers |-> IF p \in noQueue THEN <<>> ELSE qfile'[p]]
      BY <1>10 DEF Start, Pending
    <3> QED BY <3>1
  <2>2. queue'[q] # <<>>
    BY <1>2
  <2> QED BY <1>2, <2>1, <2>2, RecoveredQueue DEF QueuedJobs
<1>11. CASE Crash
  <2>1. queue'[q] = <<>>
    BY <1>11 DEF Crash
  <2> QED BY <1>2, <2>1
<1>12. CASE queue' = queue
  BY <1>5, <1>12
<1>13. ASSUME NEW p \in Printers, WorkerStep(p), ~Pop(p), ~CancelDequeue(p), ~ReceiveEnqueue(p)
       PROVE  queue' = queue
  BY <1>13 DEF WorkerStep, Begin, Skip, SendAll, SendSome, SendNone, Delivery, Accept, Finish,
     ReceivePause, RefuseCancel, CancelRecord, loopVars
<1>14. \/ \E p \in Printers : Pop(p) \/ CancelDequeue(p) \/ ReceiveEnqueue(p)
       \/ Start \/ Crash
       \/ queue' = queue
  <2>1. ASSUME NEW s \in Jobs, RecoverJob(s) PROVE queue' = queue
    BY <2>1 DEF RecoverJob, loopVars
  <2>2. UNCHANGED vars => queue' = queue
    BY DEF vars, loopVars
  <2> QED BY <1>13, <2>1, <2>2, OutsideWorkers DEF Next, Recovery, Environment
<1> QED BY <1>7, <1>8, <1>9, <1>10, <1>11, <1>12, <1>14

\* A cancellation is confirmed when the job left its queue.
LEMMA Confirmed ==
    ASSUME IInv, [Next]_vars, NEW r \in Jobs, cancelled'[r] = "ok", cancelled[r] # "ok"
    PROVE  \E p \in Printers :
              /\ CancelDequeue(p) /\ cur[p] = r
              /\ \E i \in DOMAIN queue[p] : /\ queue[p][i] = r
                                            /\ queue' = [queue EXCEPT ![p] = RemoveAt(@, i)]
<1>1. cancelled \in [Jobs -> {"none", "asked", "ok", "err"}]
  BY DEF IInv, TypeOK, TypeHandlers
<1>2. cancelled' # cancelled
  OBVIOUS
<1>3. ASSUME NEW s, NEW word \in {"asked", "err"}, cancelled' = [cancelled EXCEPT ![s] = word]
      PROVE  FALSE
  BY <1>1, <1>3
<1>4. ~\E s \in Jobs : HandlerStep(s) \/ Disconnect(s) \/ RequestCancel(s)
  BY <1>2, <1>3, OutsideWorkers
<1>5. ~(Recovery \/ UNCHANGED vars \/ \E p \in Printers : RequestPause(p))
  BY <1>2 DEF Recovery, Start, RecoverJob, RequestPause, vars
<1>6. ~Crash
  <2>1. Crash => cancelled' = [s \in Jobs |-> IF cancelled[s] = "asked" THEN "err"
                                              ELSE cancelled[s]]
    BY DEF Crash
  <2> QED BY <2>1
<1>7. PICK p \in Printers : WorkerStep(p)
  BY <1>4, <1>5, <1>6 DEF Next, Environment
<1>8. ~RefuseCancel(p)
  BY <1>3 DEF RefuseCancel
<1>9. ~CancelRecord(p)
  BY <1>2, <1>3 DEF CancelRecord
<1>10. CancelDequeue(p)
  BY <1>2, <1>7, <1>8, <1>9 DEF WorkerStep, Pop, Begin, Skip, SendAll, SendSome, SendNone,
     Delivery, Accept, Finish, ReceiveEnqueue, ReceivePause
<1>11. PICK o \in Outcomes, i \in DOMAIN queue[p] :
         /\ queue[p][i] = cur[p]
         /\ queue' = IF o = "ok" THEN [queue EXCEPT ![p] = RemoveAt(@, i)] ELSE queue
         /\ cancelled' = [cancelled EXCEPT ![cur[p]] = IF o = "ok" THEN "ok" ELSE "err"]
  BY <1>10 DEF CancelDequeue
<1>12. o = "ok" /\ cur[p] = r
  BY <1>1, <1>3, <1>11
<1> QED BY <1>10, <1>11, <1>12

\* A confirmed cancellation holds: the record is Cancelled for good, and what
\* is not Queued comes into no queue.
LEMMA CancelStep ==
    ASSUME IInv, IInv', CancelHonoured, [Next]_vars
    PROVE  CancelHonoured'
<1> SUFFICES ASSUME NEW r \in Jobs, cancelled'[r] = "ok"
             PROVE  job'[r].state = "cancelled" /\ sent'[r] = 0 /\ ~InQueue(r)'
  BY DEF CancelHonoured, InQueue
<1>1. TypeOK
  BY DEF IInv
<1>2. job[r].state = "cancelled" => job'[r].state = "cancelled"
  <2>1. CASE \E s \in Jobs : RecordStep(s)
    BY <2>1 DEF RecordStep, Transition
  <2> QED BY <2>1, NextRecords DEF PaperStep
<1>3. job[r].state = "cancelled" /\ ~InQueue(r)'
  <2>1. CASE cancelled[r] = "ok"
    <3>1. job[r].state = "cancelled" /\ ~InQueue(r)
      BY <2>1 DEF CancelHonoured, InQueue
    <3> QED BY <3>1, QueueGrowth
  <2>2. CASE cancelled[r] # "ok"
    <3>7. PICK p \in Printers :
            /\ CancelDequeue(p) /\ cur[p] = r
            /\ \E i \in DOMAIN queue[p] : /\ queue[p][i] = r
                                          /\ queue' = [queue EXCEPT ![p] = RemoveAt(@, i)]
      BY <2>2, Confirmed
    <3>1. PICK i \in DOMAIN queue[p] :
            /\ CancelDequeue(p) /\ cur[p] = r /\ queue[p][i] = r
            /\ queue' = [queue EXCEPT ![p] = RemoveAt(@, i)]
      BY <3>7
    <3>2. job[r].state = "cancelled" /\ p = Printer(r)
      <4>1. wpc[p] = "dequeue" /\ r # None
        BY <3>1, JobsAssumption DEF CancelDequeue
      <4> QED BY <3>1, <4>1 DEF IInv, WorkerInv, WorkerAt
    <3>3. queue[p] \in Seq(Jobs) /\ queue'[p] = RemoveAt(queue[p], i)
      BY <1>1, <3>1 DEF TypeOK, TypeQueues
    <3>4. \A k \in DOMAIN queue[p] : queue[p][k] = queue[p][i] => k = i
      BY JobInQueue
    <3>5. \A k \in DOMAIN queue'[p] : queue'[p][k] # r
      BY <3>1, <3>3, <3>4, FewerRemoveAt
    <3>6. \A q \in Printers : q # p => \A k \in DOMAIN queue'[q] : queue'[q][k] # r
      <4> SUFFICES ASSUME NEW q \in Printers, q # p, NEW k \in DOMAIN queue'[q],
                          queue'[q][k] = r
                   PROVE  FALSE
        OBVIOUS
      <4>1. queue'[q] = queue[q]
        BY <1>1, <3>1 DEF TypeOK, TypeQueues
      <4> QED BY <3>2, <4>1, JobInQueue
    <3> QED BY <3>2, <3>5, <3>6 DEF InQueue, Waiting
  <2> QED BY <2>1, <2>2
<1>4. sent'[r] = 0
  <2>1. sent'[r] \in Nat /\ ~(sent'[r] > 0)
    BY <1>2, <1>3 DEF IInv, RecordHonest, TypeOK, TypePaper
  <2> QED BY <2>1
<1> QED BY <1>2, <1>3, <1>4

-----------------------------------------------------------------------------
(* Pauses. *)

\* A started agent reads every file, while files can be read and written.
LEMMA StartReads ==
    ASSUME TypeOK, Within, Writable', Start
    PROVE  /\ queue' = [p \in Printers |-> qfile'[p]]
           /\ Skipped' = 0 => \A p \in Printers : qfile'[p] \in RecoveredQueues(p, {})
           /\ paused' = [p \in Printers |-> pfile[p]] /\ pfile' = pfile
<1>1. PICK noQueue \in SUBSET Printers, noFlag \in SUBSET Printers, unread \in SUBSET Jobs :
        /\ SpendBoth(Cardinality(noQueue) + Cardinality(noFlag), Cardinality(unread))
        /\ \A p \in Printers : qfile'[p] \in RecoveredQueues(p, unread)
        /\ queue' = [p \in Printers |-> IF p \in noQueue THEN <<>> ELSE qfile'[p]]
        /\ paused' = [p \in Printers |-> p \notin noFlag /\ pfile[p]]
  BY DEF Start, Pending
<1>2. /\ IsFiniteSet(noQueue) /\ IsFiniteSet(noFlag) /\ IsFiniteSet(unread)
      /\ Cardinality(noQueue) \in Nat /\ Cardinality(noFlag) \in Nat
      /\ Cardinality(unread) \in Nat
  BY PrintersAssumption, FS_Subset, FS_CardinalityType, SkipsType
<1>3. /\ Cardinality(noQueue) + Cardinality(noFlag) = 0
      /\ Skipped' = 0 => Cardinality(unread) = 0
  <2>1. Cardinality(noQueue) + Cardinality(noFlag) \in Nat
    BY <1>2
  <2> QED BY <1>1, <1>2, <2>1, NoSkip
<1>4. noQueue = {} /\ noFlag = {} /\ (Skipped' = 0 => unread = {})
  <2>1. Cardinality(noQueue) = 0 /\ Cardinality(noFlag) = 0
    BY <1>2, <1>3
  <2> QED BY <1>2, <1>3, <2>1, FS_EmptySet
<1>5. pfile \in [Printers -> BOOLEAN]
  BY DEF TypeOK, TypeQueues
<1>6. paused' = [p \in Printers |-> pfile[p]]
  BY <1>1, <1>4, <1>5
<1>7. queue' = [p \in Printers |-> qfile'[p]]
  BY <1>1, <1>4
<1>8. Skipped' = 0 => \A p \in Printers : qfile'[p] \in RecoveredQueues(p, {})
  BY <1>1, <1>4
<1> QED BY <1>6, <1>7, <1>8 DEF Start

\* A pause is in memory and on disk, or there was a fault.
LEMMA PauseStep ==
    ASSUME IInv, Within, PauseDurable, [Next]_vars
    PROVE  PauseDurable'
<1> SUFFICES ASSUME up', Writable', NEW q \in Printers PROVE paused'[q] = pfile'[q]
  BY DEF PauseDurable
<1>1. TypeOK /\ Writable
  BY WithinStep DEF IInv
<1>2. paused \in [Printers -> BOOLEAN] /\ pfile \in [Printers -> BOOLEAN]
  BY <1>1 DEF TypeOK, TypeQueues
<1>3. CASE up /\ UNCHANGED <<paused, pfile>>
  BY <1>1, <1>3 DEF PauseDurable
<1>4. ASSUME NEW p \in Printers, ReceivePause(p) PROVE paused'[q] = pfile'[q]
  <2>1. /\ Writable /\ up
        /\ \E o \in Outcomes :
             /\ Spend("fault", Faults(o))
             /\ pfile' = IF Landed(o) THEN [pfile EXCEPT ![p] = Head(chan[p]).flag] ELSE pfile
             /\ paused' = IF o = "ok" THEN [paused EXCEPT ![p] = Head(chan[p]).flag] ELSE paused
    BY <1>1, <1>4 DEF ReceivePause, Receive, Worker
  <2>2. /\ pfile' = [pfile EXCEPT ![p] = Head(chan[p]).flag]
        /\ paused' = [paused EXCEPT ![p] = Head(chan[p]).flag]
    BY <1>1, <2>1, NoFaultOk DEF Landed
  <2>3. paused[q] = pfile[q]
    BY <2>1 DEF PauseDurable
  <2> QED BY <1>2, <2>2, <2>3
<1>5. ASSUME NEW p \in Printers, WorkerStep(p), ~ReceivePause(p)
      PROVE  up /\ UNCHANGED <<paused, pfile>>
  <2>1. up
    BY <1>5 DEF WorkerStep, Pop, Begin, Skip, SendAll, SendSome, SendNone, Delivery, Accept,
       Finish, ReceiveEnqueue, ReceivePause, RefuseCancel, CancelRecord, Receive,
       CancelDequeue, Worker
  <2>2. UNCHANGED <<paused, pfile>>
    BY <1>5 DEF WorkerStep, Pop, Begin, Skip, SendAll, SendSome, SendNone, Delivery, Accept,
       Finish, ReceiveEnqueue, RefuseCancel, CancelRecord, CancelDequeue, loopVars
  <2> QED BY <2>1, <2>2
<1>6. CASE Start
  BY <1>1, <1>6, StartReads
<1>7. ~Crash /\ ~\E r \in Jobs : RecoverJob(r)
  BY DEF Crash, RecoverJob
<1>8. UNCHANGED vars => up /\ UNCHANGED <<paused, pfile>>
  BY DEF vars, loopVars
<1> QED BY <1>3, <1>4, <1>5, <1>6, <1>7, <1>8, OutsideWorkers DEF Next, Recovery, Environment

-----------------------------------------------------------------------------
(* Queued jobs. *)

\* The job is with the worker, or on its way there.
AtWorker(r) ==
    LET p == Printer(r) IN
    \/ Waiting(p, r)
    \/ wpc[p] \in {"load", "dequeue"} /\ cur[p] = r
    \/ \E i \in DOMAIN chan[p] : chan[p][i] = Enq(r)

LEMMA TrackedAs ==
    ASSUME NEW r \in Jobs
    PROVE  Tracked(r) <=> \/ AtWorker(r)
                          \/ hpc[r] \in {"register", "event", "enqueue", "reject"}
                          \/ hpc[r] = "await" /\ reply[r] = "err"
  BY DEF Tracked, AtWorker

\* What stays in a sequence that loses one element.
LEMMA TailKeeps ==
    ASSUME NEW S, NEW s \in Seq(S), s # <<>>, NEW k \in DOMAIN s, s[k] # Head(s)
    PROVE  \E l \in DOMAIN Tail(s) : Tail(s)[l] = s[k]
<1>1. /\ Len(s) \in Nat \ {0} /\ k \in 1..Len(s) /\ k # 1
      /\ Tail(s) \in Seq(S) /\ Len(Tail(s)) = Len(s) - 1
  OBVIOUS
<1>2. k - 1 \in 1..Len(Tail(s)) /\ DOMAIN Tail(s) = 1..Len(Tail(s))
  BY <1>1
<1>3. Tail(s)[k - 1] = s[(k - 1) + 1] /\ (k - 1) + 1 = k
  BY <1>1, <1>2
<1> QED BY <1>2, <1>3

LEMMA RemoveKeeps ==
    ASSUME NEW S, NEW s \in Seq(S), NEW i \in DOMAIN s
    PROVE  \A k \in DOMAIN s : k # i =>
               \E l \in DOMAIN RemoveAt(s, i) : RemoveAt(s, i)[l] = s[k]
<1> DEFINE t == RemoveAt(s, i)
           a == SubSeq(s, 1, i - 1)
           b == SubSeq(s, i + 1, Len(s))
<1>1. /\ DOMAIN s = 1..Len(s) /\ Len(s) \in Nat /\ i \in 1..Len(s)
      /\ a \in Seq(S) /\ Len(a) = i - 1
      /\ b \in Seq(S) /\ Len(b) = Len(s) - i
  OBVIOUS
<1>2. /\ \A k \in 1..Len(a) : a[k] = s[k]
      /\ \A k \in 1..Len(b) : b[k] = s[i + k]
  <2>1. ASSUME NEW k \in 1..Len(a) PROVE a[k] = s[k]
    <3>1. a[k] = s[1 + k - 1] /\ 1 + k - 1 = k
      BY <1>1
    <3> QED BY <3>1
  <2>2. ASSUME NEW k \in 1..Len(b) PROVE b[k] = s[i + k]
    <3>1. b[k] = s[(i + 1) + k - 1] /\ (i + 1) + k - 1 = i + k
      BY <1>1
    <3> QED BY <3>1
  <2> QED BY <2>1, <2>2
<1>3. /\ t \in Seq(S) /\ Len(t) = Len(s) - 1 /\ DOMAIN t = 1..(Len(s) - 1)
  BY <1>1 DEF RemoveAt
<1>4. ASSUME NEW k \in 1..Len(s), k < i
      PROVE  k \in DOMAIN t /\ t[k] = s[k]
  <2>1. k \in 1..(Len(s) - 1)
    BY <1>1, <1>4
  <2>2. t[k] = s[k]
    BY <1>1, <1>2, <1>4, <2>1 DEF RemoveAt
  <2> QED BY <1>3, <2>1, <2>2
<1>5. ASSUME NEW k \in 1..Len(s), k > i
      PROVE  k - 1 \in DOMAIN t /\ t[k - 1] = s[k]
  <2> DEFINE j == k - 1
  <2>1. j \in 1..(Len(s) - 1) /\ j >= i /\ j + 1 = k
    BY <1>1, <1>5
  <2>2. j - (i - 1) \in 1..Len(b) /\ t[j] = b[j - (i - 1)]
    <3>1. Len(a) < j /\ j <= Len(a) + Len(b) /\ j \in Nat
      BY <1>1, <2>1
    <3> QED BY <1>1, <3>1, ConcatRight DEF RemoveAt
  <2>3. i + (j - (i - 1)) = j + 1
    BY <1>1, <2>1
  <2>4. t[j] = s[k]
    BY <1>2, <2>1, <2>2, <2>3
  <2> QED BY <1>3, <2>1, <2>4
<1>6. ASSUME NEW k \in DOMAIN s, k # i
      PROVE  \E l \in DOMAIN t : t[l] = s[k]
  <2>1. k \in 1..Len(s) /\ (k < i \/ k > i)
    BY <1>1, <1>6
  <2>2. CASE k < i
    <3>1. k \in DOMAIN t /\ t[k] = s[k]
      BY <1>4, <2>1, <2>2
    <3> HIDE DEF t
    <3> QED BY <3>1, Zenon
  <2>3. CASE k > i
    <3>1. k - 1 \in DOMAIN t /\ t[k - 1] = s[k]
      BY <1>5, <2>1, <2>3
    <3> HIDE DEF t
    <3> QED BY <3>1, Zenon
  <2> QED BY <2>1, <2>2, <2>3, Zenon
<1> QED BY <1>6, Zenon

\* A recovered queue misses no Queued job of its printer.
LEMMA RecoveredAll ==
    ASSUME NEW p \in Printers, NEW q \in RecoveredQueues(p, {}), NEW r \in QueuedJobs(p)
    PROVE  \E i \in DOMAIN q : q[i] = r
<1> DEFINE n == Cardinality(QueuedJobs(p))
<1>1. n \in Nat /\ IsFiniteSet(QueuedJobs(p))
  BY JobsAssumption, FS_Subset, FS_CardinalityType DEF QueuedJobs
<1>2. /\ q \in [1..n -> QueuedJobs(p)]
      /\ \A i, k \in 1..n : i # k => q[i] # q[k]
  BY DEF RecoveredQueues, SetToSeqs
<1>3. q \in Injection(1..n, QueuedJobs(p))
  BY <1>2 DEF Injection, IsInjective
<1>4. Cardinality(1..n) = n
  <2>1. 1 \in Int /\ n \in Int /\ (1 > n => n = 0) /\ n - 1 + 1 = n
    BY <1>1
  <2>2. Cardinality(1..n) = IF 1 > n THEN 0 ELSE n - 1 + 1
    BY <2>1, FS_Interval
  <2> QED BY <2>1, <2>2
<1>5. q \in Surjection(1..n, QueuedJobs(p))
  BY <1>1, <1>3, <1>4, FS_Injection
<1> QED BY <1>2, <1>5 DEF Surjection

\* Handlers and operators put commands into channels, and take nothing out.
LEMMA OutsideKeeps ==
    ASSUME TypeOK, req' = req, UNCHANGED <<queue, wpc, cur>>,
           chan' = chan \/ \E p \in Printers, c \in Commands : Post(p, c),
           NEW r \in Jobs, AtWorker(r)
    PROVE  AtWorker(r)'
<1>1. Printer(r)' = Printer(r)
  BY DEF Printer
<1>2. \A q \in Printers : \A i \in DOMAIN chan[q] :
        i \in DOMAIN chan'[q] /\ chan'[q][i] = chan[q][i]
  <2>1. ASSUME NEW p \in Printers, NEW c \in Commands, Post(p, c)
        PROVE  \A q \in Printers : \A i \in DOMAIN chan[q] :
                   i \in DOMAIN chan'[q] /\ chan'[q][i] = chan[q][i]
    BY <2>1, Posted DEF TypeOK
  <2> QED BY <2>1
<1>3. ASSUME \E i \in DOMAIN chan[Printer(r)] : chan[Printer(r)][i] = Enq(r)
      PROVE  \E i \in DOMAIN chan'[Printer(r)] : chan'[Printer(r)][i] = Enq(r)
  BY <1>2, <1>3, PrinterType
<1> QED BY <1>1, <1>3 DEF AtWorker, Waiting, Enq

\* The handler of job s holds on to its own job until the worker has it.
LEMMA HandlerTracks ==
    ASSUME IInv, Within, NoRefusal, QueuedIsTracked, Writable, Writable', Skipped = 0, req' = req,
           NEW s \in Jobs, HandlerStep(s) \/ Disconnect(s),
           NEW r \in Jobs, job'[r].state = "queued"
    PROVE  Tracked(r)'
<1>1. TypeOK /\ HandlerAt(r) /\ Printer(s) \in Printers
  BY PrinterType DEF IInv, HandlerInv
<1>2. up /\ UNCHANGED <<queue, wpc, cur, reply>>
  BY OutsideWorkers
<1>3. chan' = chan \/ \E p \in Printers, c \in Commands : Post(p, c)
  <2>1. Enq(s) \in Commands
    BY DEF Commands
  <2> QED BY <1>1, <2>1 DEF HandlerStep, V1Create, V1Uploaded, V1TooLarge, V1UploadFailed,
          V2Prepare, AcquireLock, CheckFound, CheckFull, CheckPassed, CheckFailed, V2Create,
          V2PayloadStored, V2PayloadFailed, Submit, Register, AppendEvent, HoldJob, Enqueue,
          Enqueued, NotEnqueued, RejectJob, Disconnect
<1>4. AtWorker(r) => AtWorker(r)'
  BY <1>1, <1>2, <1>3, OutsideKeeps
<1>5. job[r].state = "queued" =>
        AtWorker(r) \/ hpc[r] \in {"register", "event", "enqueue", "reject"}
  BY <1>2, TrackedAs DEF QueuedIsTracked, NoRefusal
<1>6. (AtWorker(r)' \/ hpc'[r] \in {"register", "event", "enqueue", "reject"}) => Tracked(r)'
  BY DEF Tracked, AtWorker
<1>7. CASE s # r
  <2>1. hpc'[r] = hpc[r]
    BY <1>7, HandlerSteps DEF HandlerMoves, Stays
  <2>2. job'[r] = job[r]
    <3>1. CASE HandlerStep(s)
      BY <1>7, <3>1, HandlerRecords DEF RecordStep
    <3>2. CASE Disconnect(s)
      BY <3>2 DEF Disconnect, recordVars
    <3> QED BY <3>1, <3>2
  <2> QED BY <1>4, <1>5, <1>6, <2>1, <2>2
<1>8. CASE s = r
  <2>1. ASSUME NEW record \in Records, record.state # "queued", NEW o \in Outcomes,
               WriteJob(r, record, o), job[r].state # "queued"
        PROVE  FALSE
    BY <1>1, <2>1, WriteJobType DEF TypeOK, TypeRecords
  <2>2. /\ Absent \in Records /\ Absent.state # "queued"
        /\ \A state \in {"receiving", "failed", "held"}, sha \in BOOLEAN :
             Rec(state, sha) \in Records /\ Rec(state, sha).state # "queued"
    BY RecType DEF Absent, Rec, States, Active, Terminal
  <2>3. ASSUME NEW pc \in HandlerPCs, Goto(r, pc) PROVE hpc'[r] = pc
    BY <1>1, <2>3, GotoMoves
  <2>4. CASE V1Create(r) \/ V1UploadFailed(r)
    <3>1. hpc[r] \in {"new", "upload"} /\ \E state \in {"receiving", "failed"}, o \in Outcomes :
            WriteJob(r, Rec(state, FALSE), o)
      BY <2>4 DEF V1Create, V1UploadFailed
    <3> QED BY <1>1, <2>1, <2>2, <3>1 DEF HandlerAt
  <2>5. CASE V1TooLarge(r)
    <3>1. hpc[r] = "upload" /\ \E o \in Outcomes : WriteJob(r, Absent, o)
      BY <2>5 DEF V1TooLarge
    <3> QED BY <1>1, <2>1, <2>2, <3>1 DEF HandlerAt
  <2>6. CASE CheckFound(r) \/ CheckFull(r)
    <3>1. hpc[r] = "check" /\ \E skips : Withdraw(r, skips)
      BY <2>6 DEF CheckFound, CheckFull
    <3>2. UNCHANGED job \/ \E o \in Outcomes : WriteJob(r, Absent, o)
      BY <3>1 DEF Withdraw
    <3> QED BY <1>1, <2>1, <2>2, <3>1, <3>2 DEF HandlerAt
  <2>7. CASE V2Create(r) \/ V2PayloadFailed(r)
    <3>1. hpc[r] \in {"create", "payload"} /\ \E state \in {"receiving", "failed"},
            o \in Outcomes : WriteJob(r, Rec(state, TRUE), o)
      BY <2>7 DEF V2Create, V2PayloadFailed
    <3> QED BY <1>1, <2>1, <2>2, <3>1 DEF HandlerAt
  <2>8. CASE \/ V1Uploaded(r) \/ V2Prepare(r) \/ AcquireLock(r) \/ CheckPassed(r)
             \/ CheckFailed(r) \/ V2PayloadStored(r)
    <3>1. hpc[r] \in {"new", "upload", "lock", "check", "payload"} /\ UNCHANGED job
      BY <2>8 DEF V1Uploaded, V2Prepare, AcquireLock, CheckPassed, CheckFailed,
         V2PayloadStored, recordVars
    <3> QED BY <1>1, <3>1 DEF HandlerAt
  <2>9. CASE Submit(r)
    <3>1. Goto(r, "register")
      BY <1>1, <2>9, NoFaultOk DEF Submit
    <3> QED BY <1>6, <2>3, <3>1 DEF HandlerPCs
  <2>10. CASE Register(r)
    <3>1. Goto(r, "event")
      BY <1>1, <2>10, NoFaultOk DEF Register
    <3> QED BY <1>6, <2>3, <3>1 DEF HandlerPCs
  <2>11. CASE AppendEvent(r)
    <3>1. hpc[r] = "event" /\ UNCHANGED job
      BY <2>11 DEF AppendEvent, recordVars
    <3>2. ~Hold(r)
      BY <1>1, <3>1 DEF HandlerAt
    <3>3. ~Spend("fault", 1)
      BY <1>1, NoFault
    <3>4. Goto(r, "enqueue")
      BY <2>11, <3>2, <3>3 DEF AppendEvent
    <3> QED BY <1>6, <2>3, <3>4 DEF HandlerPCs
  <2>12. CASE HoldJob(r)
    <3>1. hpc[r] = "hold" /\ \E o \in Outcomes : WriteJob(r, Rec("held", TRUE), o)
      BY <2>12 DEF HoldJob
    <3> QED BY <1>1, <2>1, <2>2, <3>1 DEF HandlerAt
  <2>13. CASE Enqueue(r)
    <3>1. CASE Goto(r, "reject")
      BY <1>6, <2>3, <3>1 DEF HandlerPCs
    <3>2. CASE Post(Printer(r), Enq(r))
      <4>1. Enq(r) \in Commands /\ Printer(r) \in Printers
        BY <1>1, <1>8 DEF Commands
      <4>2. /\ Len(chan[Printer(r)]) + 1 \in DOMAIN chan'[Printer(r)]
            /\ chan'[Printer(r)][Len(chan[Printer(r)]) + 1] = Enq(r)
        BY <1>1, <3>2, <4>1, Posted DEF TypeOK
      <4>3. Printer(r)' = Printer(r)
        BY DEF Printer
      <4> QED BY <1>6, <4>2, <4>3 DEF AtWorker, Enq
    <3> QED BY <2>13, <3>1, <3>2 DEF Enqueue
  <2>14. CASE Enqueued(r)
    <3>1. hpc[r] = "await" /\ UNCHANGED job
      BY <2>14 DEF Enqueued, recordVars
    <3> QED BY <1>4, <1>5, <1>6, <3>1
  <2>15. CASE NotEnqueued(r)
    <3>1. Goto(r, "reject")
      BY <2>15 DEF NotEnqueued
    <3> QED BY <1>6, <2>3, <3>1 DEF HandlerPCs
  <2>16. CASE RejectJob(r)
    <3>1. WriteJob(r, Rec("failed", TRUE), "ok")
      BY <1>1, <2>16, NoFaultOk DEF RejectJob
    <3>2. job'[r] = Rec("failed", TRUE)
      BY <1>1, <3>1 DEF WriteJob, Landed, TypeOK, TypeRecords
    <3> QED BY <2>2, <3>2
  <2>17. CASE Disconnect(r)
    <3>1. hpc[r] \in {"upload", "lock", "payload", "await"} /\ UNCHANGED job
      BY <2>17 DEF Disconnect, recordVars
    <3>2. hpc[r] # "await" => job[r].state # "queued"
      BY <1>1, <3>1 DEF HandlerAt
    <3> QED BY <1>4, <1>5, <1>6, <3>1, <3>2
  <2> QED BY <1>8, <2>4, <2>5, <2>6, <2>7, <2>8, <2>9, <2>10, <2>11, <2>12, <2>13, <2>14,
             <2>15, <2>16, <2>17 DEF HandlerStep
<1> QED BY <1>7, <1>8

\* A worker touches its own queue and channel only.
LEMMA OnlyOwn ==
    ASSUME TypeOK, NEW p \in Printers, WorkerStep(p), NEW q \in Printers, q # p
    PROVE  /\ queue'[q] = queue[q] /\ chan'[q] = chan[q]
           /\ wpc'[q] = wpc[q] /\ cur'[q] = cur[q]
<1>1. /\ queue \in [Printers -> Seq(Jobs)] /\ chan \in [Printers -> Seq(Commands)]
      /\ wpc \in [Printers -> WorkerPCs] /\ cur \in [Printers -> Jobs \cup {None}]
  BY DEF TypeOK, TypeQueues, TypeChannels, TypeWorkers
<1>2. queue' = queue \/ \E v : queue' = [queue EXCEPT ![p] = v]
  <2>1. CASE Pop(p)
    <3>1. queue' = queue \/ queue' = [queue EXCEPT ![p] = Tail(queue[p])]
      BY <1>1, <2>1 DEF Pop
    <3> QED BY <3>1
  <2>2. CASE ReceiveEnqueue(p)
    <3>1. queue' = queue \/ queue' = [queue EXCEPT ![p] = Append(queue[p], Subject(p))]
      BY <1>1, <2>2 DEF ReceiveEnqueue
    <3> QED BY <3>1
  <2>3. CASE CancelDequeue(p)
    <3>1. PICK i : queue' = queue \/ queue' = [queue EXCEPT ![p] = RemoveAt(queue[p], i)]
      BY <1>1, <2>3 DEF CancelDequeue
    <3> QED BY <3>1
  <2> QED BY <2>1, <2>2, <2>3 DEF WorkerStep, Begin, Skip, SendAll, SendSome, SendNone,
          Delivery, Accept, Finish, ReceivePause, RefuseCancel, CancelRecord, loopVars
<1>3. chan' = chan \/ chan' = [chan EXCEPT ![p] = Tail(chan[p])]
  BY <1>1 DEF WorkerStep, Pop, Begin, Skip, SendAll, SendSome, SendNone, Delivery, Accept,
     Finish, ReceiveEnqueue, ReceivePause, RefuseCancel, CancelRecord, Receive, CancelDequeue
<1>4. wpc' = wpc \/ \E pc : wpc' = [wpc EXCEPT ![p] = pc]
  BY DEF WorkerStep, Pop, Begin, Skip, SendAll, SendSome, SendNone, Delivery, Accept, Finish,
     ReceiveEnqueue, ReceivePause, RefuseCancel, CancelRecord, CancelDequeue, Return, Step
<1>5. cur' = cur \/ \E v : cur' = [cur EXCEPT ![p] = v]
  BY DEF WorkerStep, Pop, Begin, Skip, SendAll, SendSome, SendNone, Delivery, Accept, Finish,
     ReceiveEnqueue, ReceivePause, RefuseCancel, CancelRecord, CancelDequeue, Return
<1> QED BY <1>1, <1>2, <1>3, <1>4, <1>5

\* No worker makes a job Queued.
LEMMA WorkerQueues ==
    ASSUME IInv, NEW p \in Printers, WorkerStep(p), NEW r \in Jobs, job'[r].state = "queued"
    PROVE  job[r].state = "queued"
<1>1. TypeOK /\ WorkerAt(p)
  BY DEF IInv, WorkerInv
<1>2. \A s \in Jobs, state \in ({"writing"} \cup Terminal), o \in Outcomes :
        WriteJob(s, Rec(state, TRUE), o) => job[r].state = "queued"
  <2> SUFFICES ASSUME NEW s \in Jobs, NEW state \in {"writing"} \cup Terminal,
                      NEW o \in Outcomes, WriteJob(s, Rec(state, TRUE), o)
               PROVE  job[r].state = "queued"
    OBVIOUS
  <2>1. Rec(state, TRUE) \in Records /\ Rec(state, TRUE).state # "queued"
    <3>1. state \in States /\ state # "queued"
      BY DEF States, Active, Terminal
    <3> QED BY <3>1, RecType DEF Rec
  <2> QED BY <1>1, <2>1, WriteJobType DEF TypeOK, TypeRecords
<1>3. wpc[p] \notin {"loop", "dequeue"} => cur[p] \in Jobs
  BY <1>1, JobsAssumption DEF TypeOK, TypeWorkers
<1>4. CASE Begin(p)
  <2>1. \E o \in Outcomes : WriteJob(cur[p], Rec("writing", TRUE), o)
    BY <1>4 DEF Begin
  <2> QED BY <1>2, <1>3, <1>4, <2>1 DEF Begin
<1>5. CASE Accept(p)
  <2>1. \E o \in Outcomes : WriteJob(cur[p], Rec("transport_accepted", TRUE), o)
    BY <1>5 DEF Accept
  <2>2. "transport_accepted" \in Terminal /\ cur[p] \in Jobs
    BY <1>3, <1>5 DEF Accept, Terminal
  <2> QED BY <1>2, <2>1, <2>2
<1>6. CASE Finish(p)
  <2>1. \E o \in Outcomes : WriteJob(cur[p], Rec(verdict[p], TRUE), o)
    BY <1>6 DEF Finish
  <2>2. verdict[p] \in Terminal /\ cur[p] \in Jobs
    BY <1>1, <1>3, <1>6 DEF Finish, TypeOK, TypeWorkers
  <2> QED BY <1>2, <2>1, <2>2
<1>7. CASE CancelRecord(p)
  <2>1. PICK s \in Jobs : s = Subject(p)
    BY <1>7, JobInQueue DEF CancelRecord, Waiting
  <2>2. "cancelled" \in Terminal /\ \E o \in Outcomes : WriteJob(s, Rec("cancelled", TRUE), o)
    BY <1>7, <2>1 DEF CancelRecord, Terminal
  <2> QED BY <1>2, <2>2
<1>8. UNCHANGED job => job[r].state = "queued"
  OBVIOUS
<1> QED BY <1>4, <1>5, <1>6, <1>7, <1>8 DEF WorkerStep, Pop, Skip, SendAll, SendSome, SendNone,
        Delivery, ReceiveEnqueue, ReceivePause, RefuseCancel, CancelDequeue

\* A worker that finds its files in order loses no job between channel, queue
\* and delivery.
LEMMA WorkerKeeps ==
    ASSUME IInv, Within, Writable', req' = req, NEW p \in Printers, WorkerStep(p),
           NEW r \in Jobs, job'[r].state = "queued", AtWorker(r)
    PROVE  AtWorker(r)'
<1>1. /\ TypeOK /\ WorkerAt(p) /\ Printer(r)' = Printer(r) /\ Printer(r) \in Printers
      /\ job[r].state = "queued"
  BY PrinterType, WorkerQueues DEF IInv, WorkerInv, Printer
<1>2. Enq(r)' = Enq(r)
  BY DEF Enq
<1>3. CASE Printer(r) # p
  <2>1. /\ queue'[Printer(r)] = queue[Printer(r)] /\ chan'[Printer(r)] = chan[Printer(r)]
        /\ wpc'[Printer(r)] = wpc[Printer(r)] /\ cur'[Printer(r)] = cur[Printer(r)]
    BY <1>1, <1>3, OnlyOwn
  <2> QED BY <1>1, <1>2, <2>1 DEF AtWorker, Waiting
<1>4. CASE Printer(r) = p
  <2> DEFINE InChan == \E i \in DOMAIN chan[p] : chan[p][i] = Enq(r)
             InChanNext == \E i \in DOMAIN chan'[p] : chan'[p][i] = Enq(r)
             WaitingNext == \E i \in DOMAIN queue'[p] : queue'[p][i] = r
  <2>1. Waiting(p, r) \/ (wpc[p] \in {"load", "dequeue"} /\ cur[p] = r) \/ InChan
    BY <1>4 DEF AtWorker
  <2>2. WaitingNext \/ InChanNext => AtWorker(r)'
    BY <1>1, <1>2, <1>4 DEF AtWorker, Waiting
  <2>3. wpc'[p] = "load" /\ cur'[p] = r => AtWorker(r)'
    BY <1>1, <1>4 DEF AtWorker
  <2>4. queue'[p] = queue[p] /\ Waiting(p, r) => AtWorker(r)'
    BY <2>2 DEF Waiting
  <2>5. chan'[p] = chan[p] /\ InChan => AtWorker(r)'
    BY <2>2
  <2>6. /\ queue[p] \in Seq(Jobs) /\ chan[p] \in Seq(Commands)
        /\ queue \in [Printers -> Seq(Jobs)] /\ cur \in [Printers -> Jobs \cup {None}]
        /\ wpc \in [Printers -> WorkerPCs]
    BY <1>1 DEF TypeOK, TypeQueues, TypeChannels, TypeWorkers
  <2>7. CASE Pop(p)
    <3>1. /\ queue' = [queue EXCEPT ![p] = Tail(@)] /\ queue[p] # <<>>
          /\ cur' = [cur EXCEPT ![p] = Head(queue[p])] /\ Step(p, "load")
          /\ chan' = chan /\ wpc[p] = "loop"
      BY <1>1, <2>7, NoFaultOk DEF Pop
    <3>2. queue'[p] = Tail(queue[p]) /\ cur'[p] = Head(queue[p]) /\ wpc'[p] = "load"
      BY <2>6, <3>1 DEF Step
    <3>3. CASE Waiting(p, r) /\ Head(queue[p]) # r
      <4>1. WaitingNext
        BY <2>6, <3>1, <3>2, <3>3, TailKeeps DEF Waiting
      <4> QED BY <2>2, <4>1
    <3> QED BY <2>1, <2>3, <2>5, <3>1, <3>2, <3>3
  <2>8. CASE Begin(p) \/ Skip(p)
    <3>1. queue' = queue /\ chan' = chan /\ wpc[p] = "load"
      BY <2>8 DEF Begin, Skip, loopVars
    <3>2. CASE cur[p] = r
      <4>1. CASE Begin(p)
        <5>1. WriteJob(r, Rec("writing", TRUE), "ok")
          BY <1>1, <3>2, <4>1, NoFaultOk DEF Begin
        <5>2. job'[r] = Rec("writing", TRUE)
          BY <1>1, <5>1 DEF WriteJob, Landed, TypeOK, TypeRecords
        <5> QED BY <5>2 DEF Rec
      <4>2. CASE Skip(p)
        <5>1. ~Spend("fault", 1)
          BY <1>1, NoFault
        <5> QED BY <1>1, <3>2, <4>2, <5>1 DEF Skip, Ready
      <4> QED BY <2>8, <4>1, <4>2
    <3> QED BY <2>1, <2>4, <2>5, <3>1, <3>2
  <2>9. CASE SendAll(p) \/ SendSome(p) \/ SendNone(p) \/ Accept(p) \/ Finish(p)
    <3>1. queue' = queue /\ chan' = chan /\ wpc[p] \notin {"load", "dequeue"}
      BY <2>9 DEF SendAll, SendSome, SendNone, Delivery, Accept, Finish, loopVars
    <3> QED BY <2>1, <2>4, <2>5, <3>1
  <2>10. ASSUME NEW op, Receive(p, op), op # "enqueue", queue' = queue
         PROVE  AtWorker(r)'
    <3>1. /\ chan[p] # <<>> /\ chan'[p] = Tail(chan[p]) /\ Head(chan[p]) # Enq(r)
          /\ wpc[p] = "loop"
      BY <2>10, ReceiveType DEF Enq
    <3>2. InChan => InChanNext
      <4> SUFFICES ASSUME NEW i \in DOMAIN chan[p], chan[p][i] = Enq(r) PROVE InChanNext
        OBVIOUS
      <4>1. PICK l \in DOMAIN Tail(chan[p]) : Tail(chan[p])[l] = chan[p][i]
        BY <2>6, <3>1, TailKeeps
      <4> QED BY <3>1, <4>1
    <3> QED BY <2>1, <2>2, <2>4, <2>10, <3>1, <3>2
  <2>11. CASE ReceivePause(p) \/ RefuseCancel(p) \/ CancelRecord(p)
    BY <2>10, <2>11 DEF ReceivePause, RefuseCancel, CancelRecord, loopVars
  <2>12. CASE ReceiveEnqueue(p)
    <3>1. /\ chan[p] # <<>> /\ chan'[p] = Tail(chan[p]) /\ wpc[p] = "loop"
          /\ Head(chan[p]) \in Commands /\ Head(chan[p]).op = "enqueue"
      BY <2>12, ReceiveType DEF ReceiveEnqueue
    <3>2. PICK s \in Jobs : Head(chan[p]) = Enq(s) /\ Subject(p) = s
      BY <3>1, CommandForm DEF Subject
    <3>3. queue' = [queue EXCEPT ![p] = Append(@, s)]
      BY <1>1, <2>12, <3>2, NoFaultOk DEF ReceiveEnqueue
    <3>4. queue'[p] = Append(queue[p], s)
      BY <2>6, <3>3
    <3>5. /\ \A k \in DOMAIN queue[p] : k \in DOMAIN queue'[p] /\ queue'[p][k] = queue[p][k]
          /\ Len(queue[p]) + 1 \in DOMAIN queue'[p] /\ queue'[p][Len(queue[p]) + 1] = s
      BY <2>6, <3>4
    <3>6. Waiting(p, r) \/ s = r => WaitingNext
      BY <3>5 DEF Waiting
    <3>7. InChan /\ s # r => InChanNext
      <4> SUFFICES ASSUME NEW i \in DOMAIN chan[p], chan[p][i] = Enq(r), s # r
                   PROVE  InChanNext
        OBVIOUS
      <4>1. Head(chan[p]) # chan[p][i]
        BY <3>2 DEF Enq
      <4>2. PICK l \in DOMAIN Tail(chan[p]) : Tail(chan[p])[l] = chan[p][i]
        BY <2>6, <3>1, <4>1, TailKeeps
      <4> QED BY <3>1, <4>2
    <3> QED BY <2>1, <2>2, <3>1, <3>6, <3>7
  <2>13. CASE CancelDequeue(p)
    <3>1. wpc[p] = "dequeue" /\ chan' = chan
      BY <2>13 DEF CancelDequeue
    <3>2. PICK i \in DOMAIN queue[p] :
            /\ queue[p][i] = cur[p]
            /\ queue' = [queue EXCEPT ![p] = RemoveAt(@, i)] \/ queue' = queue
      BY <2>13 DEF CancelDequeue
    <3>3. cur[p] # r
      BY <1>1, <3>1, JobsAssumption DEF WorkerAt
    <3>4. CASE Waiting(p, r)
      <4>1. PICK k \in DOMAIN queue[p] : queue[p][k] = r
        BY <3>4 DEF Waiting
      <4>2. k # i
        BY <3>2, <3>3, <4>1
      <4>3. queue'[p] = RemoveAt(queue[p], i) \/ queue'[p] = queue[p]
        BY <2>6, <3>2
      <4>4. WaitingNext
        BY <2>6, <4>1, <4>2, <4>3, RemoveKeeps
      <4> QED BY <2>2, <4>4
    <3> QED BY <2>1, <2>5, <3>1, <3>3, <3>4
  <2> QED BY <2>7, <2>8, <2>9, <2>11, <2>12, <2>13 DEF WorkerStep
<1> QED BY <1>3, <1>4

\* Without faults, no worker refuses a job.
LEMMA NoRefusalStep ==
    ASSUME IInv, Within, NoRefusal, [Next]_vars
    PROVE  NoRefusal'
<1> SUFFICES ASSUME Writable', NEW r \in Jobs PROVE reply'[r] # "err"
  BY DEF NoRefusal
<1>1. TypeOK /\ reply[r] # "err" /\ reply \in [Jobs -> {"none", "ok", "err"}]
  BY WithinStep DEF IInv, TypeOK, TypeHandlers, NoRefusal
<1>2. CASE UNCHANGED reply
  BY <1>1, <1>2
<1>3. ASSUME NEW p \in Printers, ReceiveEnqueue(p) PROVE reply'[r] # "err"
  <2>1. reply' = [reply EXCEPT ![Subject(p)] = "ok"]
    BY <1>1, <1>3, NoFaultOk DEF ReceiveEnqueue
  <2> QED BY <1>1, <2>1
<1>4. CASE Crash
  BY <1>4 DEF Crash
<1>5. CASE \/ \E s \in Jobs : HandlerStep(s) \/ Disconnect(s) \/ RequestCancel(s)
           \/ \E p \in Printers : RequestPause(p)
  BY <1>2, <1>5, OutsideWorkers
<1>6. ASSUME NEW p \in Printers, WorkerStep(p), ~ReceiveEnqueue(p) PROVE UNCHANGED reply
  BY <1>6 DEF WorkerStep, Pop, Begin, Skip, SendAll, SendSome, SendNone, Delivery, Accept,
     Finish, ReceivePause, RefuseCancel, CancelRecord, CancelDequeue
<1>7. CASE Recovery
  BY <1>2, <1>7 DEF Recovery, Start, RecoverJob
<1>8. CASE UNCHANGED vars
  BY <1>2, <1>8 DEF vars
<1> QED BY <1>2, <1>3, <1>4, <1>5, <1>6, <1>7, <1>8 DEF Next, Environment

\* Every step keeps track of the queued jobs.
LEMMA TrackStep ==
    ASSUME IInv, Within, NoRefusal, QueuedIsTracked, [Next]_vars
    PROVE  QueuedIsTracked'
<1> SUFFICES ASSUME up', Writable', Skipped' = 0, NEW r \in Jobs, job'[r].state = "queued"
             PROVE  Tracked(r)'
  BY DEF QueuedIsTracked
<1>1. /\ TypeOK /\ Writable /\ Skipped = 0 /\ req' = req /\ Printer(r) \in Printers
      /\ Printer(r)' = Printer(r)
  BY WithinStep, RequestsStay, PrinterType DEF IInv, Printer
<1>2. AtWorker(r)' => Tracked(r)'
  BY DEF Tracked, AtWorker
<1>3. up /\ job[r].state = "queued" =>
        \/ AtWorker(r)
        \/ hpc[r] \in {"register", "event", "enqueue", "reject"}
  BY <1>1, TrackedAs DEF QueuedIsTracked, NoRefusal
<1>4. CASE \E s \in Jobs : HandlerStep(s) \/ Disconnect(s)
  BY <1>1, <1>4, HandlerTracks
<1>5. ASSUME UNCHANGED hpc, AtWorker(r) => AtWorker(r)', up, job[r].state = "queued"
      PROVE  Tracked(r)'
  <2>1. CASE hpc[r] \in {"register", "event", "enqueue", "reject"}
    BY <1>5, <2>1 DEF Tracked
  <2> QED BY <1>2, <1>3, <1>5, <2>1
<1>6. ASSUME NEW p \in Printers, WorkerStep(p) PROVE Tracked(r)'
  <2>1. up /\ UNCHANGED hpc
    BY <1>6 DEF WorkerStep, Pop, Begin, Skip, SendAll, SendSome, SendNone, Delivery, Accept,
       Finish, ReceiveEnqueue, ReceivePause, RefuseCancel, CancelRecord, Receive,
       CancelDequeue, Worker, handlerVars
  <2>2. job[r].state = "queued"
    BY <1>6, WorkerQueues
  <2>3. AtWorker(r) => AtWorker(r)'
    BY <1>1, <1>6, WorkerKeeps
  <2> QED BY <1>5, <2>1, <2>2, <2>3
<1>7. CASE \/ \E s \in Jobs : RequestCancel(s)
           \/ \E p \in Printers : RequestPause(p)
  <2>1. UNCHANGED <<job, hpc>>
    BY <1>7 DEF RequestCancel, RequestPause, Operator, recordVars, handlerVars
  <2>2. up /\ UNCHANGED <<queue, wpc, cur>>
    BY <1>7, OutsideWorkers
  <2>3. chan' = chan \/ \E p \in Printers, c \in Commands : Post(p, c)
    <3>1. ASSUME NEW s \in Jobs, RequestCancel(s)
          PROVE  chan' = chan \/ \E p \in Printers, c \in Commands : Post(p, c)
      <4>1. Printer(s) \in Printers /\ Cancel(s) \in Commands
        BY <1>1, PrinterType DEF Commands
      <4> QED BY <3>1, <4>1 DEF RequestCancel
    <3>2. ASSUME NEW q \in Printers, RequestPause(q)
          PROVE  chan' = chan \/ \E p \in Printers, c \in Commands : Post(p, c)
      <4>1. \A b \in BOOLEAN : Pause(b) \in Commands
        BY DEF Commands
      <4> QED BY <3>2, <4>1 DEF RequestPause
    <3> QED BY <1>7, <3>1, <3>2
  <2>4. AtWorker(r) => AtWorker(r)'
    BY <1>1, <2>2, <2>3, OutsideKeeps
  <2> QED BY <1>5, <2>1, <2>2, <2>4
<1>8. CASE Start
  <2>1. job' = job
    BY <1>8 DEF Start, recordVars
  <2>2. r \in QueuedJobs(Printer(r))
    BY <2>1 DEF QueuedJobs
  <2>3. /\ queue'[Printer(r)] = qfile'[Printer(r)]
        /\ qfile'[Printer(r)] \in RecoveredQueues(Printer(r), {})
    BY <1>1, <1>8, StartReads DEF IInv
  <2>4. \E i \in DOMAIN queue'[Printer(r)] : queue'[Printer(r)][i] = r
    BY <1>1, <2>2, <2>3, RecoveredAll
  <2> QED BY <1>1, <1>2, <2>4 DEF AtWorker, Waiting
<1>9. CASE Crash \/ \E s \in Jobs : RecoverJob(s)
  BY <1>9 DEF Crash, RecoverJob
<1>10. CASE UNCHANGED vars
  <2>1. /\ up /\ job[r].state = "queued"
        /\ UNCHANGED <<hpc, queue, chan, wpc, cur>>
    BY <1>10 DEF vars, recordVars, handlerVars, loopVars, workVars
  <2>2. AtWorker(r) => AtWorker(r)'
    BY <1>1, <2>1, OutsideKeeps
  <2> QED BY <1>5, <2>1, <2>2
<1> QED BY <1>4, <1>6, <1>7, <1>8, <1>9, <1>10 DEF Next, Environment, Recovery

-----------------------------------------------------------------------------
(* The theorems.                                                             *)

LEMMA QueueInit == Init => QueueSafety
<1> SUFFICES ASSUME Init PROVE QueueSafety
  OBVIOUS
<1>1. Within
  BY BudgetAssumption DEF Init, Within, Skipped
<1>2. NoRefusal
  BY DEF Init, NoRefusal
<1>3. CancelHonoured
  BY DEF Init, CancelHonoured
<1>4. PauseDurable /\ QueuedIsTracked
  BY DEF Init, PauseDurable, QueuedIsTracked
<1> QED BY <1>1, <1>2, <1>3, <1>4 DEF QueueSafety

LEMMA QueueNext == IInv /\ IInv' /\ QueueSafety /\ [Next]_vars => QueueSafety'
<1> SUFFICES ASSUME IInv, IInv', QueueSafety, [Next]_vars PROVE QueueSafety'
  OBVIOUS
<1>1. TypeOK /\ Within /\ NoRefusal /\ CancelHonoured /\ PauseDurable /\ QueuedIsTracked
  BY DEF QueueSafety, IInv
<1>2. Within'
  BY <1>1, WithinStep
<1>3. NoRefusal' /\ QueuedIsTracked'
  BY <1>1, NoRefusalStep, TrackStep
<1>4. CancelHonoured' /\ PauseDurable'
  BY <1>1, CancelStep, PauseStep
<1> QED BY <1>2, <1>3, <1>4 DEF QueueSafety

\* The three promises about queues hold together, with what they rest on: the
\* budget of faults only shrinks, and a worker refuses a job only after a fault.
THEOREM QueueInvariant == Spec => []QueueSafety
  BY PaperInvariant, QueueInit, QueueNext, PTL DEF Spec

\* A cancellation that was confirmed is final: the record says so, no queue
\* holds the job, and not a byte of it was or will be printed.
THEOREM CancellationsHold == Spec => []CancelHonoured
<1>1. QueueSafety => CancelHonoured
  BY DEF QueueSafety
<1> QED BY <1>1, QueueInvariant, PTL

\* While files can be written, the pause flag a worker obeys is the one on
\* disk, whatever commands and crashes come.
THEOREM PausesLast == Spec => []PauseDurable
<1>1. QueueSafety => PauseDurable
  BY DEF QueueSafety
<1> QED BY <1>1, QueueInvariant, PTL

\* While files can be written and every scan reads every record, a Queued record
\* of the running agent is in its worker's queue, channel or hand, or with the handler that will send it.
THEOREM NoQueuedJobForgotten == Spec => []QueuedIsTracked
<1>1. QueueSafety => QueuedIsTracked
  BY DEF QueueSafety
<1> QED BY <1>1, QueueInvariant, PTL
=============================================================================
