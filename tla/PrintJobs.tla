------------------------------ MODULE PrintJobs ------------------------------
(***************************************************************************)
(* The life of a print job in PrintAgent: the HTTP handlers that accept it *)
(* (POST .../jobs of API v1 and v2), the files that remember it, the       *)
(* worker thread that owns the printer and delivers it, and the restart    *)
(* that decides what becomes of it.                                        *)
(*                                                                         *)
(* Every write of a file, every message and every delivery attempt is a    *)
(* step of its own, so a crash, a disk error or a vanished client can fall *)
(* between any two of them.  The handlers run on the async runtime, each   *)
(* worker on a thread of its own; all of them interleave.                  *)
(***************************************************************************)
EXTENDS Naturals, Sequences, FiniteSets, SequencesExt

CONSTANTS
    Jobs,       \* one identity per submission: the request and the job it creates
    Printers,   \* the enabled printers, one worker each
    Requests,   \* what a submission may ask: records [api, printer, key, payload, stale]
    NoKey,      \* a v1 request without X-Idempotency-Key
    None,       \* nobody holds the idempotency lock
    MaxActive,  \* config max_active_jobs_per_printer
    ChannelCap, \* capacity of a worker's command channel (64 in the code)
    Budget      \* bounds: how many crashes, disk faults, disconnects, operator
                \* commands, and job records that a scan of jobs/ skips as unreadable

Keys == {q.key : q \in Requests} \ {NoKey}
Payloads == {q.payload : q \in Requests}

ASSUME JobsAssumption == IsFiniteSet(Jobs) /\ None \notin Jobs
ASSUME PrintersAssumption == IsFiniteSet(Printers)
ASSUME RequestsAssumption ==
    Requests \subseteq [api : {"v1", "v2"}, printer : Printers, key : Keys \cup {NoKey},
                        payload : Payloads, stale : BOOLEAN]
ASSUME LimitsAssumption == MaxActive \in Nat /\ ChannelCap \in Nat
ASSUME BudgetAssumption ==
    Budget \in [crash : Nat, fault : Nat, drop : Nat, control : Nat, read : Nat]

VARIABLES
    req,        \* job -> the request behind it (chosen by the clients, never changes)
    \* -- the data directory: survives a crash ------------------------------
    job,        \* jobs/<id>.json: [state, sha], sha: is the payload hash recorded?
    birth,      \* the created_at order of the records (0: never created)
    index,      \* jobs.ndjson: the identities GET /jobs can list
    qfile,      \* printers/<id>/queue.json
    pfile,      \* printers/<id>/queue-paused.json
    \* -- the agent process ----------------------------------------------------
    up,         \* is the HTTP server running?
    lock,       \* holder of AppState.idempotency_lock
    hpc,        \* job -> where its HTTP handler stands
    answer,     \* job -> what the client was told: [kind, job]
    reply,      \* job -> the worker's reply to its Enqueue command
    cancelled,  \* job -> what the last cancel request was told
    queue, paused, chan,             \* per worker: memory queue, pause flag, channel
    wpc, cur, attempt, verdict,      \* per worker: where it stands, job, try, outcome
    \* -- the paper ----------------------------------------------------------
    sent,       \* job -> delivery attempts that put bytes of it on the wire
    whole,      \* job -> did some attempt hand over every byte?
    budget      \* what is left of Budget

recordVars  == <<job, birth, index>>
handlerVars == <<lock, hpc, answer>>
loopVars    == <<queue, paused, qfile, pfile>>
workVars    == <<wpc, cur, attempt, verdict>>
paperVars   == <<sent, whole>>
vars == <<req, recordVars, loopVars, up, handlerVars, reply, cancelled, chan,
          workVars, paperVars, budget>>

-----------------------------------------------------------------------------
(* Job records *)

Active   == {"receiving", "queued", "writing", "held"}
Terminal == {"transport_accepted", "cancelled", "failed", "outcome_unknown"}
States   == Active \cup Terminal
Absent   == [state |-> "absent", sha |-> FALSE]
Records  == [state : States \cup {"absent"}, sha : BOOLEAN]
Rec(state, sha) == [state |-> state, sha |-> sha]

Attempts == 3   \* process_job tries at most three times

(* A file operation succeeds, fails without a trace, or fails after it took
   effect: atomic_json renames first and syncs the directory afterwards.     *)
Outcomes == {"ok", "lost", "late"}
Landed(o) == o # "lost"
Faults(o) == IF o = "ok" THEN 0 ELSE 1

Spend(kind, n) == /\ budget[kind] >= n
                  /\ budget' = [budget EXCEPT ![kind] = @ - n]

(* A step that may fail and that scans the records: read_json's error makes
   the scan go on with the next record, whoever reads.                       *)
SpendBoth(faults, skips) ==
    /\ budget["fault"] >= faults /\ budget["read"] >= skips
    /\ budget' = [budget EXCEPT !["fault"] = @ - faults, !["read"] = @ - skips]

WriteJob(r, rec, o) ==
    job' = IF Landed(o) THEN [job EXCEPT ![r] = rec] ELSE job

(* created_at: later than that of every record created before.               *)
Created(r) ==
    birth' = [birth EXCEPT ![r] = 1 + Cardinality({s \in Jobs : birth[s] > 0})]

Printer(r) == req[r].printer

Enq(r)    == [op |-> "enqueue", job |-> r, flag |-> TRUE]
Cancel(r) == [op |-> "cancel",  job |-> r, flag |-> TRUE]
Pause(b)  == [op |-> "pause", job |-> None, flag |-> b]
Commands  == {Enq(r) : r \in Jobs} \cup {Cancel(r) : r \in Jobs} \cup {Pause(b) : b \in BOOLEAN}
Post(p, command) == chan' = [chan EXCEPT ![p] = Append(@, command)]

-----------------------------------------------------------------------------
Init ==
    /\ req \in [Jobs -> Requests]
    /\ job = [r \in Jobs |-> Absent]
    /\ birth = [r \in Jobs |-> 0]
    /\ index = {}
    /\ qfile = [p \in Printers |-> <<>>]
    /\ pfile = [p \in Printers |-> FALSE]
    /\ up = FALSE
    /\ lock = None
    /\ hpc = [r \in Jobs |-> "new"]
    /\ answer = [r \in Jobs |-> [kind |-> "none", job |-> r]]
    /\ reply = [r \in Jobs |-> "none"]
    /\ cancelled = [r \in Jobs |-> "none"]
    /\ queue = [p \in Printers |-> <<>>]
    /\ paused = [p \in Printers |-> FALSE]
    /\ chan = [p \in Printers |-> <<>>]
    /\ wpc = [p \in Printers |-> "loop"]
    /\ cur = [p \in Printers |-> None]
    /\ attempt = [p \in Printers |-> 0]
    /\ verdict = [p \in Printers |-> "failed"]
    /\ sent = [r \in Jobs |-> 0]
    /\ whole = [r \in Jobs |-> FALSE]
    /\ budget = Budget

-----------------------------------------------------------------------------
(* The submission handlers.  Handler(r): steps that leave the worker, the
   operator's requests and the paper alone.                                  *)

Handler == /\ up
           /\ UNCHANGED <<req, up, loopVars, workVars, paperVars, cancelled, reply>>

Goto(r, pc) == hpc' = [hpc EXCEPT ![r] = pc] /\ UNCHANGED <<lock, answer>>

\* Mutant: a return with an error forgets the guard.
AnswerKeepingLock(r, kind, j) ==
    /\ hpc' = [hpc EXCEPT ![r] = "done"]
    /\ answer' = [answer EXCEPT ![r] = [kind |-> kind, job |-> j]]
    /\ lock' = IF lock = r /\ kind # "error" THEN None ELSE lock

(* Return from the handler; its lock guard, if it has one, is dropped.       *)
Answer(r, kind, j) ==
    /\ hpc' = [hpc EXCEPT ![r] = "done"]
    /\ answer' = [answer EXCEPT ![r] = [kind |-> kind, job |-> j]]
    /\ lock' = IF lock = r THEN None ELSE lock

(* v1: the Receiving record is saved before a byte of the body is read,
   without key and hash, and before the lock is taken.                       *)
V1Create(r) ==
    /\ Handler /\ hpc[r] = "new" /\ req[r].api = "v1"
    /\ \E o \in Outcomes :
        /\ Spend("fault", Faults(o))
        /\ WriteJob(r, Rec("receiving", FALSE), o)
        /\ IF o = "ok" THEN Goto(r, "upload") ELSE Answer(r, "error", r)
    /\ Created(r)
    /\ UNCHANGED <<index, chan>>

(* v1: stream the body to the spool file, convert a raster page, rename it
   to the payload file, and prepare the record in memory ...                 *)
V1Uploaded(r) ==
    /\ Handler /\ hpc[r] = "upload"
    /\ Goto(r, "lock")
    /\ UNCHANGED <<recordVars, chan, budget>>

(* ... or the body exceeds max_job_bytes: the record is removed ...          *)
V1TooLarge(r) ==
    /\ Handler /\ hpc[r] = "upload"
    /\ \E o \in Outcomes : Spend("fault", Faults(o)) /\ WriteJob(r, Absent, o)
    /\ Answer(r, "refused", r)
    /\ UNCHANGED <<birth, index, chan>>

(* ... or the stream, the file or the conversion fails: fail_receiving, which
   ignores the outcome of its own save.                                      *)
V1UploadFailed(r) ==
    /\ Handler /\ hpc[r] = "upload"
    /\ \E o \in Outcomes :
        Spend("fault", Faults(o)) /\ WriteJob(r, Rec("failed", FALSE), o)
    /\ Answer(r, "error", r)
    /\ UNCHANGED <<birth, index, chan>>

(* v2: the whole body is in memory; the media revision was compared (stale)
   and the artifacts validated before the lock is asked for.                 *)
V2Prepare(r) ==
    /\ Handler /\ hpc[r] = "new" /\ req[r].api = "v2"
    /\ Goto(r, "lock")
    /\ UNCHANGED <<recordVars, chan, budget>>

\* Mutant: no mutual exclusion.
AcquireLockAnyway(r) ==
    /\ Handler /\ hpc[r] = "lock"
    /\ lock' = r
    /\ hpc' = [hpc EXCEPT ![r] = "check"]
    /\ UNCHANGED <<recordVars, answer, chan, budget>>

AcquireLock(r) ==
    /\ Handler /\ hpc[r] = "lock" /\ lock = None
    /\ lock' = r
    /\ hpc' = [hpc EXCEPT ![r] = "check"]
    /\ UNCHANGED <<recordVars, answer, chan, budget>>

(* The other records that carry the key.  find_job_by_idempotency_key(_any)
   returns one of them, or none when it cannot read any.                     *)
SameKey(r) == {e \in Jobs \ {r} : /\ job[e].sha
                                  /\ req[e].key = req[r].key
                                  /\ req[r].key # NoKey}

(* The v1 hash covers content type and body, the v2 hash the whole request:
   they never agree.                                                         *)
SameRequest(e, r) == /\ Printer(e) = Printer(r)
                     /\ req[e].payload = req[r].payload
                     /\ req[e].api = req[r].api

ActiveJobs(p) == {e \in Jobs : Printer(e) = p /\ job[e].state \in Active}

\* Mutant: v2 counts as if it had a record.
QueueFullLate(r, uncounted) == Cardinality(ActiveJobs(Printer(r)) \ uncounted) > MaxActive

(* count_active_jobs, which passes over the records it cannot read, against
   the limit.  v1 counts its own Receiving record, v2 has not created one yet. *)
QueueFull(r, uncounted) ==
    LET n == Cardinality(ActiveJobs(Printer(r)) \ uncounted) IN
    IF req[r].api = "v1" THEN n > MaxActive ELSE n >= MaxActive

(* remove_unregistered_job, which only v1 needs: v2 has no record yet.       *)
Withdraw(r, skips) == \E o \in Outcomes :
    /\ SpendBoth(Faults(o), skips)
    /\ IF req[r].api = "v1" THEN WriteJob(r, Absent, o)
                            ELSE o = "ok" /\ UNCHANGED job

CheckFound(r) ==
    /\ Handler /\ hpc[r] = "check"
    /\ \E e \in SameKey(r) :
        Answer(r, IF SameRequest(e, r) THEN "accepted" ELSE "conflict", e)
    /\ Withdraw(r, 0)
    /\ UNCHANGED <<birth, index, chan>>

(* Nothing found: the lookup skipped every record of the key there is.       *)
CheckFull(r) ==
    /\ Handler /\ hpc[r] = "check"
    /\ QueueFull(r, {})
    /\ Answer(r, "full", r)
    /\ Withdraw(r, Cardinality(SameKey(r)))
    /\ UNCHANGED <<birth, index, chan>>

CheckPassed(r) ==
    /\ Handler /\ hpc[r] = "check"
    /\ \E uncounted \in SUBSET ActiveJobs(Printer(r)) :
        /\ ~QueueFull(r, uncounted)
        /\ SpendBoth(0, Cardinality(SameKey(r)) + Cardinality(uncounted))
    /\ Goto(r, IF req[r].api = "v1" THEN "save" ELSE "create")
    /\ UNCHANGED <<recordVars, chan>>

(* The jobs directory cannot be read: 500, a v1 record stays Receiving.      *)
CheckFailed(r) ==
    /\ Handler /\ hpc[r] = "check"
    /\ Spend("fault", 1)
    /\ Answer(r, "error", r)
    /\ UNCHANGED <<recordVars, chan>>

(* v2: the Receiving record carries key and hash from the start.             *)
V2Create(r) ==
    /\ Handler /\ hpc[r] = "create"
    /\ \E o \in Outcomes :
        /\ Spend("fault", Faults(o))
        /\ WriteJob(r, Rec("receiving", TRUE), o)
        /\ IF o = "ok" THEN Goto(r, "payload") ELSE Answer(r, "error", r)
    /\ Created(r)
    /\ UNCHANGED <<index, chan>>

V2PayloadStored(r) ==
    /\ Handler /\ hpc[r] = "payload"
    /\ Goto(r, "save")
    /\ UNCHANGED <<recordVars, chan, budget>>

V2PayloadFailed(r) ==
    /\ Handler /\ hpc[r] = "payload"
    /\ \E o \in Outcomes :
        Spend("fault", 1 + Faults(o)) /\ WriteJob(r, Rec("failed", TRUE), o)
    /\ Answer(r, "error", r)
    /\ UNCHANGED <<birth, index, chan>>

Hold(r) == req[r].api = "v2" /\ req[r].stale

\* Mutant: the outcome of the save is ignored.
SubmitUnchecked(r) ==
    /\ Handler /\ hpc[r] = "save"
    /\ \E o \in Outcomes :
        /\ Spend("fault", Faults(o))
        /\ WriteJob(r, Rec(IF Hold(r) THEN "held" ELSE "queued", TRUE), o)
        /\ Goto(r, "register")
    /\ UNCHANGED <<birth, index, chan>>

(* The record becomes Queued, or Held when the media changed.  From here to
   the end the client's fate and the job's may differ: an error answers 500
   and leaves the record as it is.                                           *)
Submit(r) ==
    /\ Handler /\ hpc[r] = "save"
    /\ \E o \in Outcomes :
        /\ Spend("fault", Faults(o))
        /\ WriteJob(r, Rec(IF Hold(r) THEN "held" ELSE "queued", TRUE), o)
        /\ IF o = "ok" THEN Goto(r, "register") ELSE Answer(r, "error", r)
    /\ UNCHANGED <<birth, index, chan>>

Register(r) ==
    /\ Handler /\ hpc[r] = "register"
    /\ \E o \in Outcomes :
        /\ Spend("fault", Faults(o))
        /\ index' = IF Landed(o) THEN index \cup {r} ELSE index
        /\ IF o = "ok" THEN Goto(r, "event") ELSE Answer(r, "error", r)
    /\ UNCHANGED <<job, birth, chan>>

AppendEvent(r) ==
    /\ Handler /\ hpc[r] = "event"
    /\ \/ Goto(r, IF Hold(r) THEN "hold" ELSE "enqueue") /\ UNCHANGED budget
       \/ Spend("fault", 1) /\ Answer(r, "error", r)
    /\ UNCHANGED <<recordVars, chan>>

(* A held job is saved once more with its reason, and never enqueued.        *)
HoldJob(r) ==
    /\ Handler /\ hpc[r] = "hold"
    /\ \E o \in Outcomes :
        /\ Spend("fault", Faults(o))
        /\ WriteJob(r, Rec("held", TRUE), o)
        /\ Answer(r, IF o = "ok" THEN "accepted" ELSE "error", r)
    /\ UNCHANGED <<birth, index, chan>>

(* WorkerHandle::enqueue: try_send, then wait for the worker's reply with the
   idempotency lock still held.                                              *)
Enqueue(r) ==
    /\ Handler /\ hpc[r] = "enqueue"
    /\ IF Len(chan[Printer(r)]) < ChannelCap
       THEN Post(Printer(r), Enq(r)) /\ Goto(r, "await")
       ELSE UNCHANGED chan /\ Goto(r, "reject")
    /\ UNCHANGED <<recordVars, budget>>

Enqueued(r) ==
    /\ Handler /\ hpc[r] = "await" /\ reply[r] = "ok"
    /\ Answer(r, "accepted", r)
    /\ UNCHANGED <<recordVars, chan, budget>>

NotEnqueued(r) ==
    /\ Handler /\ hpc[r] = "await" /\ reply[r] = "err"
    /\ Goto(r, "reject")
    /\ UNCHANGED <<recordVars, chan, budget>>

\* Mutant: the refused job stays Queued.
RejectSilently(r) ==
    /\ Handler /\ hpc[r] = "reject"
    /\ Answer(r, "error", r)
    /\ UNCHANGED <<recordVars, chan, budget>>

RejectJob(r) ==
    /\ Handler /\ hpc[r] = "reject"
    /\ \E o \in Outcomes :
        Spend("fault", Faults(o)) /\ WriteJob(r, Rec("failed", TRUE), o)
    /\ Answer(r, "error", r)
    /\ UNCHANGED <<birth, index, chan>>

(* The client goes away: the handler's future is dropped at the await where
   it stands, with its lock guard.  What it already did stays done.          *)
Disconnect(r) ==
    /\ Handler /\ hpc[r] \in {"upload", "lock", "payload", "await"}
    /\ Spend("drop", 1)
    /\ Answer(r, "gone", r)
    /\ UNCHANGED <<recordVars, chan>>

-----------------------------------------------------------------------------
(* The operator: cancel a job, pause or resume a queue.                      *)

Operator == /\ up
            /\ Spend("control", 1)
            /\ UNCHANGED <<req, recordVars, up, handlerVars, reply, loopVars,
                           workVars, paperVars>>

RequestCancel(r) ==
    /\ Operator
    /\ job[r].state # "absent" /\ cancelled[r] \in {"none", "err"}
    /\ Len(chan[Printer(r)]) < ChannelCap
    /\ cancelled' = [cancelled EXCEPT ![r] = "asked"]
    /\ Post(Printer(r), Cancel(r))

RequestPause(p) ==
    /\ Operator
    /\ Len(chan[p]) < ChannelCap
    /\ \E b \in BOOLEAN : Post(p, Pause(b))
    /\ UNCHANGED cancelled

-----------------------------------------------------------------------------
(* The worker thread of a printer: worker.rs run.                            *)

Worker == up /\ UNCHANGED <<req, up, birth, index, handlerVars>>

Step(p, pc) == wpc' = [wpc EXCEPT ![p] = pc]

(* Back to the head of the loop: the locals of process_job are gone.         *)
Return(p) == /\ Step(p, "loop")
             /\ cur' = [cur EXCEPT ![p] = None]
             /\ attempt' = [attempt EXCEPT ![p] = 0]
             /\ verdict' = [verdict EXCEPT ![p] = "failed"]

WriteQueue(p, q, o) ==
    qfile' = IF Landed(o) THEN [qfile EXCEPT ![p] = q] ELSE qfile

(* The queue is drained before a command is looked at.  When queue.json
   cannot be saved the job goes back to the front and the loop tries again.  *)
Pop(p) ==
    /\ Worker /\ wpc[p] = "loop" /\ ~paused[p] /\ queue[p] # <<>>
    /\ \E o \in Outcomes :
        /\ Spend("fault", Faults(o))
        /\ WriteQueue(p, Tail(queue[p]), o)
        /\ IF o = "ok"
           THEN /\ queue' = [queue EXCEPT ![p] = Tail(@)]
                /\ cur' = [cur EXCEPT ![p] = Head(queue[p])]
                /\ Step(p, "load")
           ELSE UNCHANGED <<queue, cur, wpc>>
    /\ UNCHANGED <<job, reply, cancelled, paused, pfile, chan, attempt, verdict, paperVars>>

(* process_job, first part: a record that is not Queued any more is skipped,
   and no byte leaves before Writing is on disk.                             *)
\* Mutant: whatever is popped is delivered.
ReadyAlways(p) == job[cur[p]].state \in States

Ready(p) == job[cur[p]].state = "queued"

Begin(p) ==
    /\ Worker /\ wpc[p] = "load" /\ Ready(p)
    /\ \E o \in Outcomes :
        /\ Spend("fault", Faults(o))
        /\ WriteJob(cur[p], Rec("writing", TRUE), o)
        /\ IF o = "ok"
           THEN /\ Step(p, "send")
                /\ attempt' = [attempt EXCEPT ![p] = 1]
                /\ UNCHANGED <<cur, verdict>>
           ELSE Return(p)
    /\ UNCHANGED <<reply, cancelled, loopVars, chan, paperVars>>

Skip(p) ==
    /\ Worker /\ wpc[p] = "load"
    /\ \/ ~Ready(p) /\ UNCHANGED budget
       \/ Spend("fault", 1)      \* the record cannot be read
    /\ Return(p)
    /\ UNCHANGED <<job, reply, cancelled, loopVars, chan, paperVars>>

Delivery(p) ==
    /\ Worker /\ wpc[p] = "send"
    /\ UNCHANGED <<job, reply, cancelled, loopVars, chan, cur, budget>>

(* write_file reports success: every byte was handed to the device.          *)
SendAll(p) ==
    /\ Delivery(p)
    /\ sent' = [sent EXCEPT ![cur[p]] = @ + 1]
    /\ whole' = [whole EXCEPT ![cur[p]] = TRUE]
    /\ Step(p, "accept")
    /\ UNCHANGED <<attempt, verdict>>

\* Mutant: a partial write is tried again, like one that wrote nothing.
SendSomeAgain(p) ==
    /\ Delivery(p)
    /\ sent' = [sent EXCEPT ![cur[p]] = @ + 1]
    /\ IF attempt[p] < Attempts
       THEN attempt' = [attempt EXCEPT ![p] = @ + 1] /\ UNCHANGED <<verdict, wpc>>
       ELSE /\ verdict' = [verdict EXCEPT ![p] = "outcome_unknown"]
            /\ Step(p, "finish")
            /\ UNCHANGED attempt
    /\ UNCHANGED whole

\* Mutant: a partial write counts as a plain failure.
SendSomeFails(p) ==
    /\ Delivery(p)
    /\ sent' = [sent EXCEPT ![cur[p]] = @ + 1]
    /\ verdict' = [verdict EXCEPT ![p] = "failed"]
    /\ Step(p, "finish")
    /\ UNCHANGED <<attempt, whole>>

(* It fails after the first byte: never tried again.                         *)
SendSome(p) ==
    /\ Delivery(p)
    /\ sent' = [sent EXCEPT ![cur[p]] = @ + 1]
    /\ verdict' = [verdict EXCEPT ![p] = "outcome_unknown"]
    /\ Step(p, "finish")
    /\ UNCHANGED <<attempt, whole>>

\* Mutant: one attempt too many.
SendNoneOnceMore(p) ==
    /\ Delivery(p)
    /\ IF attempt[p] <= Attempts
       THEN attempt' = [attempt EXCEPT ![p] = @ + 1] /\ UNCHANGED <<verdict, wpc>>
       ELSE /\ verdict' = [verdict EXCEPT ![p] = "failed"]
            /\ Step(p, "finish")
            /\ UNCHANGED attempt
    /\ UNCHANGED paperVars

(* It fails before the first byte: three attempts.                           *)
SendNone(p) ==
    /\ Delivery(p)
    /\ IF attempt[p] < Attempts
       THEN attempt' = [attempt EXCEPT ![p] = @ + 1] /\ UNCHANGED <<verdict, wpc>>
       ELSE /\ verdict' = [verdict EXCEPT ![p] = "failed"]
            /\ Step(p, "finish")
            /\ UNCHANGED attempt
    /\ UNCHANGED paperVars

(* process_job, last part.  Both saves ignore their outcome.                 *)
Accept(p) ==
    /\ Worker /\ wpc[p] = "accept"
    /\ \E o \in Outcomes :
        /\ Spend("fault", Faults(o))
        /\ WriteJob(cur[p], Rec("transport_accepted", TRUE), o)
    /\ verdict' = [verdict EXCEPT ![p] = "transport_accepted"]
    /\ Step(p, "finish")
    /\ UNCHANGED <<reply, cancelled, loopVars, chan, cur, attempt, paperVars>>

Finish(p) ==
    /\ Worker /\ wpc[p] = "finish"
    /\ \E o \in Outcomes :
        Spend("fault", Faults(o)) /\ WriteJob(cur[p], Rec(verdict[p], TRUE), o)
    /\ Return(p)
    /\ UNCHANGED <<reply, cancelled, loopVars, chan, paperVars>>

(* A command is received only when the queue is paused or empty.             *)
Receive(p, op) ==
    /\ Worker /\ wpc[p] = "loop" /\ (paused[p] \/ queue[p] = <<>>)
    /\ chan[p] # <<>> /\ Head(chan[p]).op = op
    /\ chan' = [chan EXCEPT ![p] = Tail(@)]
    /\ UNCHANGED <<attempt, verdict, paperVars>>

Subject(p) == Head(chan[p]).job

ReceiveEnqueue(p) ==
    /\ Receive(p, "enqueue")
    /\ \E o \in Outcomes :
        /\ Spend("fault", Faults(o))
        /\ WriteQueue(p, Append(queue[p], Subject(p)), o)
        /\ queue' = IF o = "ok" THEN [queue EXCEPT ![p] = Append(@, Subject(p))] ELSE queue
        /\ reply' = [reply EXCEPT ![Subject(p)] = IF o = "ok" THEN "ok" ELSE "err"]
    /\ UNCHANGED <<job, cancelled, paused, pfile, wpc, cur>>

\* Mutant: the flag is not saved.
ReceivePauseInMemory(p) ==
    /\ Receive(p, "pause")
    /\ paused' = [paused EXCEPT ![p] = Head(chan[p]).flag]
    /\ UNCHANGED <<job, reply, cancelled, queue, qfile, pfile, wpc, cur, budget>>

ReceivePause(p) ==
    /\ Receive(p, "pause")
    /\ \E o \in Outcomes :
        /\ Spend("fault", Faults(o))
        /\ pfile' = IF Landed(o) THEN [pfile EXCEPT ![p] = Head(chan[p]).flag] ELSE pfile
        /\ paused' = IF o = "ok" THEN [paused EXCEPT ![p] = Head(chan[p]).flag] ELSE paused
    /\ UNCHANGED <<job, reply, cancelled, queue, qfile, wpc, cur>>

Waiting(p, r) == \E i \in DOMAIN queue[p] : queue[p][i] = r

(* Cancel looks the job up in the memory queue only: a job in no queue, one
   being delivered, and one whose Enqueue is still in the channel are all
   refused.                                                                  *)
RefuseCancel(p) ==
    /\ Receive(p, "cancel")
    /\ \/ ~Waiting(p, Subject(p)) /\ UNCHANGED budget
       \/ Waiting(p, Subject(p)) /\ Spend("fault", 1)    \* the record cannot be read
    /\ cancelled' = [cancelled EXCEPT ![Subject(p)] = "err"]
    /\ UNCHANGED <<job, reply, loopVars, wpc, cur>>

\* Mutant: the record is left as it was.
CancelInMemory(p) ==
    /\ Receive(p, "cancel") /\ Waiting(p, Subject(p))
    /\ Step(p, "dequeue")
    /\ cur' = [cur EXCEPT ![p] = Subject(p)]
    /\ UNCHANGED <<job, reply, cancelled, loopVars, budget>>

(* First the record, then queue.json: a fault or a crash in between leaves a
   Cancelled job in the queue.                                               *)
CancelRecord(p) ==
    /\ Receive(p, "cancel") /\ Waiting(p, Subject(p))
    /\ \E o \in Outcomes :
        /\ Spend("fault", Faults(o))
        /\ WriteJob(Subject(p), Rec("cancelled", TRUE), o)
        /\ IF o = "ok"
           THEN /\ Step(p, "dequeue")
                /\ cur' = [cur EXCEPT ![p] = Subject(p)]
                /\ UNCHANGED cancelled
           ELSE /\ cancelled' = [cancelled EXCEPT ![Subject(p)] = "err"]
                /\ UNCHANGED <<wpc, cur>>
    /\ UNCHANGED <<reply, loopVars>>

CancelDequeue(p) ==
    /\ Worker /\ wpc[p] = "dequeue"
    /\ \E o \in Outcomes, i \in DOMAIN queue[p] :
        /\ queue[p][i] = cur[p] /\ \A k \in 1..(i - 1) : queue[p][k] # cur[p]
        /\ Spend("fault", Faults(o))
        /\ WriteQueue(p, RemoveAt(queue[p], i), o)
        /\ queue' = IF o = "ok" THEN [queue EXCEPT ![p] = RemoveAt(@, i)] ELSE queue
        /\ cancelled' = [cancelled EXCEPT ![cur[p]] = IF o = "ok" THEN "ok" ELSE "err"]
    /\ Return(p)
    /\ UNCHANGED <<job, reply, paused, pfile, chan, paperVars>>

-----------------------------------------------------------------------------
(* Crash, recovery, start.                                                   *)

(* The process stops anywhere: handlers, channels, queues and locks are gone,
   the files stay.                                                           *)
Crash ==
    /\ up /\ Spend("crash", 1)
    /\ up' = FALSE
    /\ lock' = None
    /\ hpc' = [r \in Jobs |-> IF hpc[r] = "new" THEN "new" ELSE "done"]
    /\ answer' = [r \in Jobs |-> IF hpc[r] \in {"new", "done"} THEN answer[r]
                                 ELSE [kind |-> "gone", job |-> r]]
    /\ reply' = [r \in Jobs |-> "none"]
    /\ cancelled' = [r \in Jobs |-> IF cancelled[r] = "asked" THEN "err" ELSE cancelled[r]]
    /\ queue' = [p \in Printers |-> <<>>]
    /\ paused' = [p \in Printers |-> FALSE]
    /\ chan' = [p \in Printers |-> <<>>]
    /\ wpc' = [p \in Printers |-> "loop"]
    /\ cur' = [p \in Printers |-> None]
    /\ attempt' = [p \in Printers |-> 0]
    /\ verdict' = [p \in Printers |-> "failed"]
    /\ UNCHANGED <<req, recordVars, qfile, pfile, paperVars>>

Unsettled == {r \in Jobs : job[r].state \in {"receiving", "writing"}}

\* Mutant: an interrupted delivery is queued again.
RecoverForReplay(r) ==
    /\ ~up /\ r \in Unsettled
    /\ WriteJob(r, Rec(IF job[r].state = "receiving" THEN "failed" ELSE "queued",
                       job[r].sha), "ok")
    /\ UNCHANGED <<req, birth, index, loopVars, up, handlerVars, reply, cancelled, chan,
                   workVars, paperVars, budget>>

(* recover_jobs, one record at a time; an error ends the start, and the next
   start takes it up again.                                                  *)
RecoverJob(r) ==
    /\ ~up /\ r \in Unsettled
    /\ \E o \in Outcomes :
        /\ Spend("fault", Faults(o))
        /\ WriteJob(r, Rec(IF job[r].state = "receiving" THEN "failed"
                                                         ELSE "outcome_unknown",
                           job[r].sha), o)
    /\ UNCHANGED <<req, birth, index, loopVars, up, handlerVars, reply, cancelled, chan,
                   workVars, paperVars>>

\* Mutant: only listed jobs are recovered.
ListedJobs(p) == {r \in index : Printer(r) = p /\ job[r].state = "queued"}

QueuedJobs(p) == {r \in Jobs : Printer(r) = p /\ job[r].state = "queued"}

Pending == {r \in Jobs : job[r].state \in {"receiving", "writing", "queued"}}

(* The Queued records that could be read, oldest created_at first.           *)
RecoveredQueues(p, unread) ==
    {q \in SetToSeqs(QueuedJobs(p) \ unread) :
        \A i, k \in DOMAIN q : i < k => birth[q[i]] <= birth[q[k]]}

(* save_queue for every printer, then the workers load what was saved: an
   unreadable queue counts as empty, an unreadable pause flag as not paused.
   A record that recover_jobs cannot read is passed over: it keeps its state,
   and a Queued one is in no queue until the next start.                     *)
Start ==
    /\ ~up
    /\ \E noQueue, noFlag \in SUBSET Printers, unread \in SUBSET Pending :
        /\ Unsettled \subseteq unread
        /\ SpendBoth(Cardinality(noQueue) + Cardinality(noFlag), Cardinality(unread))
        /\ qfile' \in [Printers -> UNION {RecoveredQueues(p, unread) : p \in Printers}]
        /\ \A p \in Printers : qfile'[p] \in RecoveredQueues(p, unread)
        /\ queue' = [p \in Printers |-> IF p \in noQueue THEN <<>> ELSE qfile'[p]]
        /\ paused' = [p \in Printers |-> p \notin noFlag /\ pfile[p]]
    /\ up' = TRUE
    /\ UNCHANGED <<req, recordVars, pfile, handlerVars, reply, cancelled, chan,
                   workVars, paperVars>>

-----------------------------------------------------------------------------
HandlerStep(r) ==
    \/ V1Create(r) \/ V1Uploaded(r) \/ V1TooLarge(r) \/ V1UploadFailed(r)
    \/ V2Prepare(r) \/ AcquireLock(r)
    \/ CheckFound(r) \/ CheckFull(r) \/ CheckPassed(r) \/ CheckFailed(r)
    \/ V2Create(r) \/ V2PayloadStored(r) \/ V2PayloadFailed(r)
    \/ Submit(r) \/ Register(r) \/ AppendEvent(r) \/ HoldJob(r)
    \/ Enqueue(r) \/ Enqueued(r) \/ NotEnqueued(r) \/ RejectJob(r)

WorkerStep(p) ==
    \/ Pop(p) \/ Begin(p) \/ Skip(p) \/ SendAll(p) \/ SendSome(p) \/ SendNone(p)
    \/ Accept(p) \/ Finish(p)
    \/ ReceiveEnqueue(p) \/ ReceivePause(p) \/ RefuseCancel(p)
    \/ CancelRecord(p) \/ CancelDequeue(p)

Recovery == Start \/ \E r \in Jobs : RecoverJob(r)

Environment == \/ Crash
               \/ \E r \in Jobs : Disconnect(r) \/ RequestCancel(r)
               \/ \E p \in Printers : RequestPause(p)

Next == \/ \E r \in Jobs : HandlerStep(r)
        \/ \E p \in Printers : WorkerStep(p)
        \/ Recovery
        \/ Environment

Spec == Init /\ [][Next]_vars

(* The runtime polls every handler that can go on, the scheduler runs every
   worker thread, and the service manager restarts the agent.  Nothing is
   promised about clients (when a request arrives, whether its body ever
   ends), operators and faults.                                              *)
Progress(r) == hpc[r] \notin {"new", "upload"} /\ HandlerStep(r)

Fairness == /\ \A r \in Jobs : WF_vars(Progress(r))
            /\ \A p \in Printers : WF_vars(WorkerStep(p))
            /\ WF_vars(Recovery)

FairSpec == Spec /\ Fairness

-----------------------------------------------------------------------------
(* Properties *)

HandlerPCs == {"new", "upload", "lock", "check", "create", "payload", "save", "register",
               "event", "hold", "enqueue", "await", "reject", "done"}
WorkerPCs == {"loop", "load", "send", "accept", "finish", "dequeue"}
AnswerKinds == {"none", "accepted", "conflict", "full", "refused", "error", "gone"}

TypeRecords ==
    /\ req \in [Jobs -> Requests]
    /\ job \in [Jobs -> Records]
    /\ birth \in [Jobs -> Nat]
    /\ index \subseteq Jobs

TypeHandlers ==
    /\ up \in BOOLEAN
    /\ lock \in Jobs \cup {None}
    /\ hpc \in [Jobs -> HandlerPCs]
    /\ answer \in [Jobs -> [kind : AnswerKinds, job : Jobs]]
    /\ reply \in [Jobs -> {"none", "ok", "err"}]
    /\ cancelled \in [Jobs -> {"none", "asked", "ok", "err"}]

TypeQueues ==
    /\ queue \in [Printers -> Seq(Jobs)]
    /\ paused \in [Printers -> BOOLEAN]
    /\ qfile \in [Printers -> Seq(Jobs)]
    /\ pfile \in [Printers -> BOOLEAN]

TypeChannels ==
    chan \in [Printers -> Seq(Commands)]

TypeWorkers ==
    /\ wpc \in [Printers -> WorkerPCs]
    /\ cur \in [Printers -> Jobs \cup {None}]
    /\ attempt \in [Printers -> 0..Attempts]
    /\ verdict \in [Printers -> Terminal]

TypePaper ==
    /\ sent \in [Jobs -> Nat]
    /\ whole \in [Jobs -> BOOLEAN]
    /\ budget \in [{"crash", "fault", "drop", "control", "read"} -> Nat]

\* Type invariant, and: a worker at the head of its loop has no job in hand,
\* anywhere else it has one.
TypeOK ==
    /\ TypeRecords /\ TypeHandlers /\ TypeQueues /\ TypeChannels /\ TypeWorkers /\ TypePaper
    /\ \A p \in Printers : wpc[p] = "loop" <=> cur[p] = None

\* Bytes of a job go to the printer in at most one delivery attempt, whatever
\* crashes, retries, disk errors and cancellations happen around it ("none of
\* those uncertain deliveries is replayed automatically").
SentOnce == \A r \in Jobs : sent[r] <= 1

\* The record never says less than what may be on paper: a job that waits, or
\* ended as failed or cancelled, has sent nothing, and transport_accepted is
\* recorded only of a job whose every byte was handed over.
RecordHonest == \A r \in Jobs :
    /\ sent[r] > 0 => job[r].state \in {"writing", "transport_accepted", "outcome_unknown"}
    /\ job[r].state = "transport_accepted" => whole[r]

\* The records that some scan of the jobs directory passed over so far.
Skipped == Budget["read"] - budget["read"]

\* The jobs an idempotency key names.
Holders(k) == {r \in Jobs : job[r].sha /\ req[r].key = k}

\* An idempotency key names one job, on whatever printer: concurrent
\* submissions of both API versions, dropped ones and restarts included.  Each
\* further job costs a scan that skipped an unreadable record.
KeyUnique == \A k \in Keys : Cardinality(Holders(k)) <= 1 + Skipped

\* The jobs admitted to a printer never exceed the configured limit, although
\* v1 counts itself and v2 does not, and the count is stale when it is used;
\* again, each job over the limit costs an unreadable record.
AdmittedBound == \A p \in Printers :
    Cardinality({r \in ActiveJobs(p) : job[r].sha}) <= MaxActive + Skipped

\* A submission answered 202 names a durable record of the same request: it
\* can be looked up by its key from then on, and is never removed; the answer
\* to the submission itself also means the job is listed.
AnswerHonest == \A r \in Jobs : answer[r].kind = "accepted" =>
    LET e == answer[r].job IN
    /\ job[e].sha /\ job[e].state # "absent"
    /\ req[e].key = req[r].key /\ req[e].payload = req[r].payload
    /\ Printer(e) = Printer(r)
    /\ e = r => r \in index

\* A job whose cancellation was confirmed is recorded as cancelled, is in no
\* queue, and nothing of it was or will be printed.
CancelHonoured == \A r \in Jobs : cancelled[r] = "ok" =>
    /\ job[r].state = "cancelled" /\ sent[r] = 0
    /\ \A p \in Printers : ~Waiting(p, r)

\* The job is known to somebody who will move it on.
Tracked(r) ==
    LET p == Printer(r) IN
    \/ Waiting(p, r)
    \/ wpc[p] \in {"load", "dequeue"} /\ cur[p] = r
    \/ \E i \in DOMAIN chan[p] : chan[p][i] = Enq(r)
    \/ hpc[r] \in {"register", "event", "enqueue", "reject"}
    \/ hpc[r] = "await" /\ reply[r] = "err"

Writable == budget.fault = Budget.fault   \* no disk fault so far

\* While files can be written and records read, no crash and no vanished client
\* strands a job: each Queued record of the running agent is in the queue or on
\* its way to it ("Queued jobs resume").
QueuedIsTracked == up /\ Writable /\ Skipped = 0 => \A r \in Jobs : job[r].state = "queued" => Tracked(r)

\* While files can be written a pause or resume is the one on disk, so that a
\* restart neither resumes a paused queue nor pauses a running one.
PauseDurable == up /\ Writable => \A p \in Printers : paused[p] = pfile[p]

\* -- Why the paper is safe: the inductive invariant ------------------------

InQueue(r)   == \E p \in Printers : Waiting(p, r)
InHand(r)    == \E p \in Printers : cur[p] = r
InChannel(r) == \E p \in Printers : \E i \in DOMAIN chan[p] : chan[p][i] = Enq(r)
Loose(r)     == ~InQueue(r) /\ ~InHand(r) /\ ~InChannel(r)

\* The handler knows the state of its record, because nobody else touches the
\* job before it is enqueued, or after the worker refused it.
HandlerAt(r) ==
    /\ hpc[r] = "upload" => req[r].api = "v1"
    /\ hpc[r] \in {"create", "payload"} => req[r].api = "v2"
    /\ hpc[r] \in {"new", "create"} => job[r].state = "absent"
    /\ hpc[r] \in {"lock", "check"} =>
        job[r].state = IF req[r].api = "v1" THEN "receiving" ELSE "absent"
    /\ hpc[r] \in {"upload", "payload", "save"} => job[r].state = "receiving"
    /\ hpc[r] \in {"register", "event"} =>
        job[r].state = IF Hold(r) THEN "held" ELSE "queued"
    /\ hpc[r] = "hold" => job[r].state = "held"
    /\ hpc[r] \in {"enqueue", "reject"} => job[r].state = "queued"
    /\ hpc[r] = "await" /\ reply[r] = "err" => job[r].state = "queued"
    /\ (hpc[r] = "await" => reply[r] = "err") /\ hpc[r] # "done" => Loose(r)
    /\ hpc[r] \notin {"await", "reject", "done"} => reply[r] = "none"

HandlerInv == \A r \in Jobs : HandlerAt(r)

\* An Enqueue is sent once, to the job's own worker.
ChannelInv == \A p \in Printers, r \in Jobs : \A i \in DOMAIN chan[p] :
    chan[p][i] = Enq(r) =>
        /\ p = Printer(r) /\ job[r].state = "queued" /\ reply[r] = "none"
        /\ hpc[r] \in {"await", "done"}
        /\ ~InQueue(r) /\ ~InHand(r)
        /\ \A k \in DOMAIN chan[p] : chan[p][k] = Enq(r) => k = i

\* A queue holds each job once; it is still queued, or was cancelled.
QueueInv == \A p \in Printers : \A i \in DOMAIN queue[p] :
    /\ p = Printer(queue[p][i])
    /\ job[queue[p][i]].state \in {"queued", "cancelled"}
    /\ \A k \in DOMAIN queue[p] : queue[p][k] = queue[p][i] => k = i

\* What the worker's position says about the job in hand.
WorkerAt(p) == cur[p] # None =>
    LET r == cur[p] IN
    /\ p = Printer(r)
    /\ wpc[p] = "dequeue" => job[r].state = "cancelled"
    /\ wpc[p] # "dequeue" => ~InQueue(r)
    /\ wpc[p] = "load" => job[r].state \in {"queued", "cancelled"}
    /\ wpc[p] = "send" => job[r].state = "writing" /\ sent[r] = 0
    /\ wpc[p] = "accept" => job[r].state = "writing" /\ sent[r] = 1 /\ whole[r]
    /\ wpc[p] = "finish" =>
        \/ verdict[p] = "failed" /\ job[r].state = "writing" /\ sent[r] = 0
        \/ verdict[p] = "outcome_unknown" /\ job[r].state = "writing" /\ sent[r] = 1
        \/ /\ verdict[p] = "transport_accepted" /\ sent[r] = 1 /\ whole[r]
           /\ job[r].state \in {"writing", "transport_accepted"}

WorkerInv == \A p \in Printers : WorkerAt(p)

\* A stopped agent remembers nothing.
DownInv == ~up =>
    /\ \A r \in Jobs : hpc[r] \in {"new", "done"} /\ Loose(r) /\ reply[r] = "none"
    /\ \A p \in Printers : queue[p] = <<>> /\ chan[p] = <<>> /\ cur[p] = None

IInv == /\ TypeOK /\ HandlerInv /\ ChannelInv /\ QueueInv /\ WorkerInv /\ DownInv
        /\ SentOnce /\ RecordHonest

\* What a client or an operator was told at the end stays true: a record in a
\* terminal state keeps that state, across late writers and restarts.
TerminalStable == [][\A r \in Jobs :
    job[r].state \in Terminal => job'[r].state = job[r].state]_vars

\* The test idempotency_lookup_ignores_incomplete_and_excluded_jobs
\* (persist.rs:527) says that a lookup ignores incomplete jobs: a submission
\* answered 202 would then never name a job whose upload has not ended.
LookupIgnoresIncomplete == \A r \in Jobs :
    answer[r].kind = "accepted" => job[answer[r].job].state # "receiving"

\* Every job that is queued is settled in the end, unless its queue is paused.
QueuedSettles == \A r \in Jobs :
    job[r].state = "queued" ~> (job[r].state \in Terminal \/ \E p \in Printers : paused[p])

\* Every submission past its upload ends, with an answer or a disconnect: the
\* lock is never kept by a handler that waits for a worker that waits.
SubmissionEnds == \A r \in Jobs : hpc[r] = "lock" ~> hpc[r] = "done"

\* The detailed system keeps the promise: a record on disk is the phase.
Phase(r) == CASE job[r].state = "absent" -> "none"
              [] job[r].state \in {"receiving", "queued", "held"} -> "waiting"
              [] job[r].state = "writing" -> "claimed"
              [] OTHER -> "settled"

Promise == INSTANCE JobPromise WITH
    phase <- [r \in Jobs |-> Phase(r)], paper <- sent

\* Each step of handlers, workers, crashes and recovery is a step of the
\* promise or invisible to it.
KeepsPromise == Promise!PromiseSpec
=============================================================================
