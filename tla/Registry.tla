------------------------------- MODULE Registry -------------------------------
(***************************************************************************)
(* The printer registry of PrintAgent and the worker threads it spawns:    *)
(* PUT /v2/admin/printers/{id} (v2_admin_save_printer) replaces a printer's *)
(* entry in printers.json, in the list in memory and in the map of workers *)
(* while submissions, deliveries and other such requests are under way.    *)
(*                                                                         *)
(* A worker that is replaced is not stopped: its thread ends when the last *)
(* handle to it is gone and its queue is empty, or paused.  Until then two *)
(* threads of one printer share queue.json, media.json, the job records    *)
(* and the device.  What happens inside one delivery is in PrintJobs.      *)
(***************************************************************************)
EXTENDS Naturals, Sequences, FiniteSets, SequencesExt

CONSTANTS
    Jobs, V2Jobs,  \* submissions; those of API v2, which record a job under the lock
    Target,        \* submission -> printer
    Printers,      \* every id a printer may get
    Admins,        \* requests that may be saving a printer at the same time
    Configs,       \* configurations of a printer
    Enabled,       \* those with enabled = true
    Initial,       \* what printers.json may say at the beginning
    None,
    Budget         \* bounds: admin requests, pauses and resumptions, crashes, disk faults

ASSUME IdsAssumption == None \notin Jobs \cup Configs /\ IsFiniteSet(Jobs)
ASSUME ConfigsAssumption == Enabled \subseteq Configs /\ V2Jobs \subseteq Jobs
                            /\ Target \in [Jobs -> Printers]
                            /\ Initial \subseteq [Printers -> Configs \cup {None}]
ASSUME BudgetAssumption == Budget \in [save : Nat, pause : Nat, crash : Nat, fault : Nat]

Generations == 1..(Budget.save + 1)   \* the workers a printer may have had, the first is 1

VARIABLES
    \* -- the data directory ----------------------------------------------------
    file,      \* printers.json: printer -> configuration or None
    qfile,     \* printer -> queue.json
    pfile,     \* printer -> queue-paused.json
    record,    \* job -> state of jobs/<id>.json
    roll,      \* printer -> labels consumed according to media.json
    \* -- the process -------------------------------------------------------------
    up,
    memory,    \* AppState.printer_configs
    workers,   \* AppState.workers: printer -> generation of its worker, 0: no entry
    born,      \* printer -> workers spawned since the start
    thread,    \* printer, generation -> the state of that thread
    lock,      \* the idempotency lock
    hpc,       \* submission -> where its handler stands
    handle,    \* submission -> generation of the worker it looked up, 0: none
    replied,   \* submissions whose Enqueue was answered
    admin,     \* admin request -> [pc, printer, config, candidate]
    \* -- observers -----------------------------------------------------------------
    sent,      \* job -> deliveries begun
    charged,   \* jobs whose label was taken from the roll
    left,      \* jobs in the queue of a thread that ended because it was paused
    straddled, \* a worker was replaced when a submission held it without a record yet,
               \* before its thread had loaded its queue, or with open jobs that were not
               \* seen: the list that was cloned did not have the printer yet, or a
               \* record could not be read
    overlapped,\* printers.json was saved in the middle of another such request
    budget

dataVars    == <<file, qfile, pfile, record, roll>>
handlerVars == <<lock, hpc, handle, replied>>
seenVars    == <<sent, charged, left, straddled, overlapped>>
vars == <<dataVars, up, memory, workers, born, thread, handlerVars, admin, seenVars, budget>>

Absent == [pc |-> "none", config |-> None, queue |-> <<>>, inbox |-> <<>>,
           paused |-> FALSE, job |-> None, read |-> 0]
Idle   == [pc |-> "idle", printer |-> None, config |-> None, candidate |-> None]

Spend(kind, n) == budget[kind] >= n /\ budget' = [budget EXCEPT ![kind] = @ - n]

Init ==
    /\ file \in Initial
    /\ qfile = [p \in Printers |-> <<>>] /\ pfile = [p \in Printers |-> FALSE]
    /\ record = [j \in Jobs |-> "none"]
    /\ roll = [p \in Printers |-> 0]
    /\ up = FALSE
    /\ memory = file
    /\ workers = [p \in Printers |-> 0] /\ born = [p \in Printers |-> 0]
    /\ thread = [p \in Printers |-> [g \in Generations |-> Absent]]
    /\ lock = None
    /\ hpc = [j \in Jobs |-> "new"]
    /\ handle = [j \in Jobs |-> 0]
    /\ replied = {}
    /\ admin = [a \in Admins |-> Idle]
    /\ sent = [j \in Jobs |-> 0] /\ charged = {} /\ left = {}
    /\ straddled = FALSE /\ overlapped = FALSE
    /\ budget = Budget

-----------------------------------------------------------------------------
(* Submissions, as far as the registry sees them: the worker is looked up    *)
(* first, v1 saves a record at once, v2 waits for the lock before it does.   *)

HandlerAt(j, pc) == hpc' = [hpc EXCEPT ![j] = pc]
Replacing(p)     == \E a \in Admins : admin[a].printer = p /\ admin[a].pc # "check"
Unrecorded(p)    == {j \in Jobs : Target[j] = p /\ handle[j] # 0 /\ record[j] = "none"}

Lookup(j) ==
    /\ up /\ hpc[j] = "new"
    /\ LET p == Target[j] IN
       IF workers[p] = 0
       THEN HandlerAt(j, "done") /\ UNCHANGED <<handle, straddled>>
       ELSE /\ handle' = [handle EXCEPT ![j] = workers[p]]
            /\ HandlerAt(j, IF j \in V2Jobs THEN "lock" ELSE "create")
            /\ straddled' = (straddled \/ Replacing(p))
    /\ UNCHANGED <<dataVars, up, memory, workers, born, thread, lock, replied, admin,
                   sent, charged, left, overlapped, budget>>

HandlerQuiet == UNCHANGED <<file, qfile, pfile, roll, up, memory, workers, born, admin,
                            seenVars, budget>>

Receive(j) ==
    /\ hpc[j] = "create"
    /\ record' = [record EXCEPT ![j] = "receiving"]
    /\ HandlerAt(j, IF j \in V2Jobs THEN "queue" ELSE "lock")
    /\ UNCHANGED <<thread, lock, handle, replied>> /\ HandlerQuiet

AcquireLock(j) ==
    /\ hpc[j] = "lock" /\ lock = None
    /\ lock' = j
    /\ HandlerAt(j, IF j \in V2Jobs THEN "create" ELSE "queue")
    /\ UNCHANGED <<record, thread, handle, replied>> /\ HandlerQuiet

Submit(j) ==
    /\ hpc[j] = "queue"
    /\ record' = [record EXCEPT ![j] = "queued"]
    /\ HandlerAt(j, "enqueue")
    /\ UNCHANGED <<thread, lock, handle, replied>> /\ HandlerQuiet

\* The command goes to the worker that was looked up, whoever is in the map now.
Enqueue(j) ==
    /\ hpc[j] = "enqueue"
    /\ thread' = [thread EXCEPT ![Target[j]][handle[j]].inbox = Append(@, j)]
    /\ HandlerAt(j, "reply")
    /\ UNCHANGED <<record, lock, handle, replied>> /\ HandlerQuiet

Answer(j) ==
    /\ hpc[j] = "reply" /\ j \in replied
    /\ lock' = None /\ HandlerAt(j, "done")
    /\ handle' = [handle EXCEPT ![j] = 0]
    /\ UNCHANGED <<record, thread, replied>> /\ HandlerQuiet

-----------------------------------------------------------------------------
(* A worker thread: generation g of printer p.                               *)

Becomes(p, g, t) == thread' = [thread EXCEPT ![p][g] = t]
At(p, g, pc)     == thread[p][g].pc = pc
ProcessQuiet == UNCHANGED <<file, up, memory, workers, born, lock, hpc, handle, admin,
                            straddled, overlapped>>
ThreadQuiet  == UNCHANGED <<pfile, left, budget>> /\ ProcessQuiet

\* Handles that can still send to it: the map's and those of the handlers.
Senders(p, g) == {j \in Jobs : Target[j] = p /\ handle[j] = g}
Connected(p, g) == workers[p] = g \/ Senders(p, g) # {}

LoadQueue(p, g) ==
    /\ At(p, g, "boot")
    /\ Becomes(p, g, [thread[p][g] EXCEPT !.pc = "loop", !.queue = qfile[p],
                                          !.paused = pfile[p]])
    /\ UNCHANGED <<qfile, record, roll, replied, sent, charged>> /\ ThreadQuiet

Pop(p, g) ==
    /\ At(p, g, "loop") /\ ~thread[p][g].paused /\ thread[p][g].queue # <<>>
    /\ LET q == thread[p][g].queue IN
       /\ qfile' = [qfile EXCEPT ![p] = Tail(q)]
       /\ Becomes(p, g, [thread[p][g] EXCEPT !.pc = "load", !.queue = Tail(q), !.job = Head(q)])
    /\ UNCHANGED <<record, roll, replied, sent, charged>> /\ ThreadQuiet

\* Mutant: a job that is skipped stays in hand.
LoadJobKeeping(p, g) ==
    /\ At(p, g, "load")
    /\ Becomes(p, g, [thread[p][g] EXCEPT !.pc = IF record[thread[p][g].job] = "queued"
                                                 THEN "claim" ELSE "loop"])
    /\ UNCHANGED <<qfile, record, roll, replied, sent, charged>> /\ ThreadQuiet

LoadJob(p, g) ==
    /\ At(p, g, "load")
    /\ Becomes(p, g, IF record[thread[p][g].job] = "queued"
                     THEN [thread[p][g] EXCEPT !.pc = "claim"]
                     ELSE [thread[p][g] EXCEPT !.pc = "loop", !.job = None])
    /\ UNCHANGED <<qfile, record, roll, replied, sent, charged>> /\ ThreadQuiet

\* "deliver": the record says Writing and the bytes go out.
Claim(p, g) ==
    /\ At(p, g, "claim")
    /\ LET j == thread[p][g].job IN
       /\ record' = [record EXCEPT ![j] = "writing"]
       /\ sent' = [sent EXCEPT ![j] = @ + 1]
    /\ Becomes(p, g, [thread[p][g] EXCEPT !.pc = "deliver"])
    /\ UNCHANGED <<qfile, roll, replied, charged>> /\ ThreadQuiet

Accept(p, g) ==
    /\ At(p, g, "deliver")
    /\ record' = [record EXCEPT ![thread[p][g].job] = "accepted"]
    /\ Becomes(p, g, [thread[p][g] EXCEPT !.pc = "charge"])
    /\ UNCHANGED <<qfile, roll, replied, sent, charged>> /\ ThreadQuiet

LoadMedia(p, g) ==
    /\ At(p, g, "charge")
    /\ Becomes(p, g, [thread[p][g] EXCEPT !.pc = "save", !.read = roll[p]])
    /\ UNCHANGED <<qfile, record, roll, replied, sent, charged>> /\ ThreadQuiet

SaveMedia(p, g) ==
    /\ At(p, g, "save")
    /\ roll' = [roll EXCEPT ![p] = thread[p][g].read + 1]
    /\ charged' = charged \cup {thread[p][g].job}
    /\ Becomes(p, g, [thread[p][g] EXCEPT !.pc = "loop", !.job = None, !.read = 0])
    /\ UNCHANGED <<qfile, record, replied, sent>> /\ ThreadQuiet

\* The channel is looked at when there is no job to print: the queue is empty,
\* or paused.
Listening(p, g) == At(p, g, "loop") /\ (thread[p][g].paused \/ thread[p][g].queue = <<>>)

ReceiveEnqueue(p, g) ==
    /\ Listening(p, g) /\ thread[p][g].inbox # <<>>
    /\ LET j == Head(thread[p][g].inbox)
           q == Append(thread[p][g].queue, j) IN
       /\ qfile' = [qfile EXCEPT ![p] = q]
       /\ replied' = replied \cup {j}
       /\ Becomes(p, g, [thread[p][g] EXCEPT !.queue = q, !.inbox = Tail(@)])
    /\ UNCHANGED <<record, roll, sent, charged>> /\ ThreadQuiet

\* An operator's request, which found the worker whenever it was in the map, is
\* received among the others; a thread that was replaced receives it too.
SetQueuePaused(p, g) ==
    /\ Listening(p, g) /\ Spend("pause", 1)
    /\ \E paused \in BOOLEAN :
        /\ pfile' = [pfile EXCEPT ![p] = paused]
        /\ Becomes(p, g, [thread[p][g] EXCEPT !.paused = paused])
    /\ UNCHANGED <<qfile, record, roll, replied, sent, charged, left>> /\ ProcessQuiet

\* What a paused thread leaves when it ends.
Leaves(p, g) ==
    left' = IF thread[p][g].paused THEN left \cup ToSet(thread[p][g].queue) ELSE left

\* Mutant: a thread nobody can send to stops with jobs it could still print.
ExitAtOnce(p, g) ==
    /\ At(p, g, "loop") /\ thread[p][g].inbox = <<>> /\ ~Connected(p, g)
    /\ Becomes(p, g, Absent) /\ Leaves(p, g)
    /\ UNCHANGED <<qfile, pfile, record, roll, replied, sent, charged, budget>> /\ ProcessQuiet

\* The channel is empty and closed.  Jobs in a paused queue are left behind.
Exit(p, g) ==
    /\ Listening(p, g) /\ thread[p][g].inbox = <<>> /\ ~Connected(p, g)
    /\ Becomes(p, g, Absent) /\ Leaves(p, g)
    /\ UNCHANGED <<qfile, pfile, record, roll, replied, sent, charged, budget>> /\ ProcessQuiet

-----------------------------------------------------------------------------
(* Saving a printer.  The handler has no await: it runs to its end, but      *)
(* other handlers and the threads run meanwhile.                             *)

AdminQuiet == UNCHANGED <<qfile, pfile, record, roll, up, handlerVars, sent, charged, left>>
Moves(a, pc) == admin' = [admin EXCEPT ![a].pc = pc]

CloneList(a) ==
    /\ up /\ admin[a] = Idle /\ Spend("save", 1)
    /\ \E p \in Printers, c \in Configs :
           admin' = [admin EXCEPT ![a] = [pc |-> "check", printer |-> p, config |-> c,
                                          candidate |-> memory]]
    /\ UNCHANGED <<file, memory, workers, born, thread, straddled, overlapped>> /\ AdminQuiet

\* Mutant: uploads do not count as open.
OpenOnceQueued(p) == \E j \in Jobs : Target[j] = p /\ record[j] \in {"queued", "writing"}

HasOpenJobs(p) ==
    \E j \in Jobs : Target[j] = p /\ record[j] \in {"receiving", "queued", "writing"}

(* A record that cannot be read is not looked at.                            *)
CheckOpenJobs(a) ==
    /\ admin[a].pc = "check"
    /\ LET p == admin[a].printer
           open == admin[a].candidate[p] # None /\ HasOpenJobs(p) IN
       \/ /\ open /\ admin' = [admin EXCEPT ![a] = Idle]   \* 409
          /\ UNCHANGED <<straddled, budget>>
       \/ /\ IF open THEN Spend("fault", 1) ELSE UNCHANGED budget
          /\ admin' = [admin EXCEPT ![a].pc = "store",
                                    ![a].candidate[p] = admin[a].config]
          /\ straddled' = (straddled \/ Unrecorded(p) # {} \/ HasOpenJobs(p))
    /\ UNCHANGED <<file, memory, workers, born, thread, overlapped>> /\ AdminQuiet

\* The candidate is the list in memory with one printer changed, and no other
\* request is between its save and the end.
Alone(a) ==
    /\ admin[a].candidate = [memory EXCEPT ![admin[a].printer] = admin[a].config]
    /\ \A b \in Admins \ {a} : admin[b].pc \in {"idle", "check"}

SaveConfigs(a) ==
    /\ admin[a].pc = "store"
    /\ \/ file' = admin[a].candidate /\ Moves(a, "memory") /\ UNCHANGED budget
       \/ /\ Spend("fault", 1)
          /\ file' \in {file, admin[a].candidate}     \* failed before or after the rename
          /\ admin' = [admin EXCEPT ![a] = Idle]
    /\ overlapped' = (overlapped \/ ~Alone(a))
    /\ UNCHANGED <<memory, workers, born, thread, straddled>> /\ AdminQuiet

SetList(a) ==
    /\ admin[a].pc = "memory"
    /\ memory' = admin[a].candidate
    /\ Moves(a, "swap")
    /\ UNCHANGED <<file, workers, born, thread, straddled, overlapped, budget>> /\ AdminQuiet

\* Mutant: an entry that is there is kept.
SwapIfAbsent(p, c) ==
    IF c \in Enabled /\ workers[p] = 0
    THEN /\ born' = [born EXCEPT ![p] = @ + 1]
         /\ workers' = [workers EXCEPT ![p] = born[p] + 1]
         /\ thread' = [thread EXCEPT ![p][born[p] + 1] =
                          [Absent EXCEPT !.pc = "boot", !.config = c]]
    ELSE UNCHANGED <<workers, born, thread>>

\* remove and, if enabled, insert a new worker, under the write lock of the map.
Swap(p, c) ==
    IF c \in Enabled
    THEN /\ born' = [born EXCEPT ![p] = @ + 1]
         /\ workers' = [workers EXCEPT ![p] = born[p] + 1]
         /\ thread' = [thread EXCEPT ![p][born[p] + 1] =
                          [Absent EXCEPT !.pc = "boot", !.config = c]]
    ELSE /\ workers' = [workers EXCEPT ![p] = 0]
         /\ UNCHANGED <<born, thread>>

Unstarted(p) == workers[p] # 0 /\ thread[p][workers[p]].pc = "boot"

ReplaceWorker(a) ==
    /\ admin[a].pc = "swap"
    /\ Swap(admin[a].printer, admin[a].config)
    /\ admin' = [admin EXCEPT ![a] = Idle]
    /\ straddled' = (straddled \/ Unstarted(admin[a].printer))
    /\ UNCHANGED <<file, memory, overlapped, budget>> /\ AdminQuiet

-----------------------------------------------------------------------------
(* The end and the start of the process.                                     *)

Crash ==
    /\ up /\ Spend("crash", 1)
    /\ up' = FALSE
    /\ thread' = [p \in Printers |-> [g \in Generations |-> Absent]]
    /\ workers' = [p \in Printers |-> 0] /\ born' = [p \in Printers |-> 0]
    /\ lock' = None /\ replied' = {}
    /\ hpc' = [j \in Jobs |-> IF hpc[j] = "new" THEN "new" ELSE "done"]
    /\ handle' = [j \in Jobs |-> 0]
    /\ admin' = [a \in Admins |-> Idle]
    /\ UNCHANGED <<dataVars, memory, seenVars>>

Recovered == [j \in Jobs |-> CASE record[j] = "receiving" -> "failed"
                               [] record[j] = "writing"   -> "unknown"
                               [] OTHER -> record[j]]
QueuedFor(p) == {j \in Jobs : Target[j] = p /\ record[j] = "queued"}

(* recover_jobs, save_queue for every configured printer, spawn for every
   enabled one.                                                              *)
Start ==
    /\ ~up /\ up' = TRUE
    /\ record' = Recovered
    /\ memory' = file
    /\ qfile' \in [Printers -> UNION {SetToSeqs(S) : S \in SUBSET Jobs}]
    /\ \A p \in Printers : IF file[p] = None THEN qfile'[p] = qfile[p]
                           ELSE qfile'[p] \in SetToSeqs(QueuedFor(p))
    /\ LET enabled == {p \in Printers : file[p] \in Enabled} IN
       /\ born' = [p \in Printers |-> IF p \in enabled THEN 1 ELSE 0]
       /\ workers' = born'
       /\ thread' = [p \in Printers |-> [g \in Generations |->
                        IF p \in enabled /\ g = 1
                        THEN [Absent EXCEPT !.pc = "boot", !.config = file[p]]
                        ELSE Absent]]
    /\ UNCHANGED <<file, pfile, roll, handlerVars, admin, seenVars, budget>>

-----------------------------------------------------------------------------
HandlerStep(j) == Receive(j) \/ AcquireLock(j) \/ Submit(j) \/ Enqueue(j) \/ Answer(j)

ThreadStep(p, g) ==
    \/ LoadQueue(p, g) \/ Pop(p, g) \/ LoadJob(p, g) \/ Claim(p, g) \/ Accept(p, g)
    \/ LoadMedia(p, g) \/ SaveMedia(p, g) \/ ReceiveEnqueue(p, g) \/ SetQueuePaused(p, g)
    \/ Exit(p, g)

AdminStep(a) == CheckOpenJobs(a) \/ SaveConfigs(a) \/ SetList(a) \/ ReplaceWorker(a)

Next == \/ \E j \in Jobs : Lookup(j) \/ HandlerStep(j)
        \/ \E p \in Printers, g \in Generations : ThreadStep(p, g)
        \/ \E a \in Admins : CloneList(a) \/ AdminStep(a)
        \/ Crash \/ Start

Spec == Init /\ [][Next]_vars

-----------------------------------------------------------------------------
(* Properties *)

Requests == [pc : {"check", "store", "memory", "swap"}, printer : Printers,
             config : Configs, candidate : [Printers -> Configs \cup {None}]]

Threads == [pc : {"none", "boot", "loop", "load", "claim", "deliver", "charge", "save"},
            config : Configs \cup {None}, queue : Seq(Jobs), inbox : Seq(Jobs),
            paused : BOOLEAN, job : Jobs \cup {None}, read : Nat]

TypeOK ==
    /\ {file, memory} \subseteq [Printers -> Configs \cup {None}]
    /\ qfile \in [Printers -> Seq(Jobs)] /\ pfile \in [Printers -> BOOLEAN]
    /\ record \in [Jobs -> {"none", "receiving", "queued", "writing", "accepted",
                            "unknown", "failed"}]
    /\ roll \in [Printers -> Nat] /\ up \in BOOLEAN
    /\ workers \in [Printers -> Generations \cup {0}]
    /\ born \in [Printers -> Generations \cup {0}]
    /\ thread \in [Printers -> [Generations -> Threads]]
    /\ \A p \in Printers, g \in Generations :
           (thread[p][g].job # None) <=>
               thread[p][g].pc \in {"load", "claim", "deliver", "charge", "save"}
    /\ lock \in Jobs \cup {None}
    /\ hpc \in [Jobs -> {"new", "create", "lock", "queue", "enqueue", "reply", "done"}]
    /\ handle \in [Jobs -> Generations \cup {0}] /\ replied \subseteq Jobs
    /\ admin \in [Admins -> Requests \cup {Idle}]
    /\ sent \in [Jobs -> Nat] /\ charged \subseteq Jobs /\ left \subseteq Jobs
    /\ straddled \in BOOLEAN /\ overlapped \in BOOLEAN
    /\ budget \in [save : Nat, pause : Nat, crash : Nat, fault : Nat]

Serving(p) == IF workers[p] = 0 THEN None ELSE thread[p][workers[p]].config
Writable   == budget.fault = Budget.fault

\* Between requests to save a printer the file, the list in memory and the
\* workers say the same: every enabled printer has a worker with its
\* configuration, no other has one.  (v2_admin_save_printer changes the three
\* one after the other.  Two requests at the same time, and a save that failed
\* after the rename, may leave them apart.)
Agreement ==
    up /\ ~overlapped /\ Writable /\ (\A a \in Admins : admin[a].pc \in {"idle", "check"}) =>
        /\ file = memory
        /\ \A p \in Printers :
               Serving(p) = IF memory[p] \in Enabled THEN memory[p] ELSE None

\* Replacing workers sends no job to paper twice, although two threads of a
\* printer may load the same queue.json: has_open_jobs sees every job from its
\* first record on.  (A submission that looked up the worker and has no record
\* yet when it is replaced is not seen; the run registry_overlap shows it.  Nor
\* is a worker whose thread has not loaded its queue when it is replaced, nor are
\* the jobs of a printer that another request added after the list was cloned, nor
\* is a job whose record cannot be read.)
SentOnce == ~straddled => \A j \in Jobs : sent[j] <= 1

Held(j) == \E g \in Generations :
              LET t == thread[Target[j]][g] IN
              j = t.job \/ (\E i \in DOMAIN t.queue : t.queue[i] = j)
                        \/ (\E i \in DOMAIN t.inbox : t.inbox[i] = j)
                        \/ (t.pc = "boot" /\ \E i \in DOMAIN qfile[Target[j]] :
                                                 qfile[Target[j]][i] = j)

\* A waiting job is in the hands of a live thread, or of the handler that is
\* about to enqueue it.  Until the first restart a replaced thread keeps the jobs
\* it was given, whatever the requests that replace it do, unless its queue is
\* paused: then it ends with them in its queue.  When no job got past
\* has_open_jobs, no two requests overlapped and no failed save landed, a job is
\* not even left by a paused thread, and restarts change nothing.  (After a restart
\* a job that did get past may belong to a printer that is disabled by now.)
Unheld == {j \in Jobs : record[j] = "queued" /\ hpc[j] # "enqueue" /\ ~Held(j)}
NobodyForgotten ==
    up => /\ budget.crash = Budget.crash => Unheld \subseteq left
          /\ ~straddled /\ ~overlapped /\ Writable => Unheld = {}

\* README.md:195: printer I/O is serialized by one bounded worker per printer.
OneAtATime == \A p \in Printers :
                 Cardinality({g \in Generations : thread[p][g].pc = "deliver"}) <= 1

\* README.md:106: all media mutations are serialized with printing to prevent
\* lost consumption.
ConsumptionKept == \A p \in Printers :
                      roll[p] >= Cardinality({j \in charged : Target[j] = p})
===============================================================================
