# PrintAgent (ZebraTamer): specifications, checks and proofs

PrintAgent is a small edge service that owns label printers. Clients submit
print jobs over HTTP, one worker thread per printer delivers them, and JSON
files under `data_dir` are all it remembers. This directory holds TLA+ models of
the parts where a mistake costs paper, labels or printer settings, the TLC
configurations that check them, and theorems that TLAPS proves for every value
of the constants. Paths like `worker.rs:684` mean `src/src/worker.rs:684`;
`README.md:9` means the program's own README, `src/README.md`.

Contents: [1. The system](#1-the-system) ·
[2. The modules](#2-the-modules) · [3. The runs](#3-the-runs) ·
[4. The proofs](#4-the-proofs) ·
[5. Where code and documents disagree](#5-where-code-and-documents-disagree) ·
[6. What is not modelled](#6-what-is-not-modelled) · [7. The plan](#7-the-plan) ·
[8. Running it](#8-running-it)

## 1. The system

### Parts, their state and operations

| Part | State | Operations | What makes it correct |
| --- | --- | --- | --- |
| **Printer worker** `worker.rs` | per printer: memory queue, pause flag, transport, absence clock, status snapshot; a channel of 64 commands | `run` (283): drain the queue, then Enqueue, Cancel, SetQueuePaused, Probe, Control; `process_job` (684), `consume_media` (777), `apply_maintenance_media_loss` (221), `apply_reconnect_loss` (415), `probe` (472) | a job goes to the printer at most once; its record never claims less than is on paper; a confirmed cancellation or pause holds |
| **Submission and operator handlers** `api.rs` | the idempotency lock; the map of workers; per-request locals | `create_job` (256), `v2_create_job` (604), pause (791), cancel (828), `admin_save_printer` (875), media and maintenance handlers (944-1257), `save_configuration` (1169) | a key names one job; admission is bounded; an answer 202 is true |
| **Job store** `persist.rs` | `jobs/<id>.json`, `jobs.ndjson`, `queue.json`, `queue-paused.json`, `boot_id` | `atomic_json` (314), `save_job`, key lookups (109-130), `count_active` (84), `recover_jobs` (154), queue files (244-311) | a crash anywhere leaves files from which the next start goes on without printing twice or forgetting a queued job |
| **Media accounting** `media.rs`, `worker.rs`, `main.rs` | `media.json`, `media-ledger.ndjson` | load (67), edit (96), unload (112), adjust (121), maintenance, reconnect and boot losses, job consumption | no mutation is lost, none is counted twice, the ledger explains the state |
| **Host boot accounting** `main.rs:209` | `boot_id` against the kernel's | compare, charge every printer, save | a boot is charged before the agent serves, and not again afterwards |
| **Device settings** `device.rs` | `configuration.json`, `configuration-attempt.json`, the printer's active and nonvolatile settings | `read` (313), `save_configuration` (332) | only what the user acknowledged is saved; the attempt file never claims less than was sent |
| **Transports** `transport.rs` | a device handle or TCP stream; `wrote_since_connect` | open, `write_file`, `write_bytes`, `query`, for TCP (102), character device (277), USB bulk (363) | a failed write tells truly whether bytes left; an answer belongs to its query |
| **Probes and observations** `worker.rs:472`, `model.rs` | status snapshot, `ever_connected`, `disconnected_at` | query the printer, parse, charge a loss after an absence | what is reported rests on replies to the right question; one absence is charged once; the worker finds a printer again |
| **Registry** `api.rs:875`, `persist.rs:276` | `printers.json`, the list in memory, the map of workers | add, replace or disable a printer | file, list and workers agree; replacing a worker neither repeats nor forgets a job |
| **Event and ledger logs** `persist.rs:209-240, 342-394` | `events.ndjson`, `media-ledger.ndjson` | append with a counted sequence number, page by cursor | sequence numbers are unique; a reader that follows the cursor sees every line once |
| **v2 preparation, raster driver** `protocol_v2.rs`, `driver.rs` | none (pure) | check pages and artifacts, assemble ZPL, count labels | a job is charged with what it prints |
| **Label count** `api.rs:461` | none (pure) | scan an upload for `^PQ` in chunks | the count is the upload's, wherever the chunks end |
| **Configuration, mDNS, metrics, web interface, hash, packaging** | none that changes at run time | validation, registration, rendering | unit-tested conversions and I/O, not modelled |

### How the parts interact

* A handler runs on the asynchronous runtime, is concurrent with every other
  handler, and is dropped where it stands (at an `await`) when its client
  disconnects. What it did to files stays done.
* A handler talks to a worker through the worker's channel (`try_send`, refused
  when 64 commands wait) and a one-shot reply. A submission waits for that reply
  **with the global idempotency lock held**; the worker looks at its channel
  only when its queue is empty or paused.
* A handler keeps the handle of the worker it looked up. A worker that is
  replaced meanwhile runs on, beside its successor, until the last handle is gone
  and its queue is empty or paused.
* Handlers and workers append to `events.ndjson` without a lock; the index
  `jobs.ndjson` is written under the idempotency lock.
* Handlers and workers share the job records without a common lock: the handler
  writes them up to Queued, the worker from the Enqueue command on,
  `recover_jobs` at start.
* The printer's worker runs media mutations, settings operations and deliveries
  in one order, which is the only serialization `media.json` has; timers of
  `main` ask it to probe.
* `main` recovers the records, does the boot accounting, saves every queue and
  starts the workers, before it serves.

### What is hard here

Files are replaced by a rename that is followed by a sync of the directory
(`persist.rs:327`): **a save that reports an error may have taken effect.** The
models give every save the three outcomes "done", "failed without a trace" and
"failed after it landed", written `Outcomes == {"ok", "lost", "late"}`. An append
to a log may in addition stop in the middle, which leaves an open line that the
next append continues (`persist.rs:347`), and every scan of `jobs/` **passes over
a record it cannot read** (`persist.rs:91, 119, 161, 282`). To this
come crashes between any two writes, clients that vanish at an `await`, partial
and uncertain deliveries, races of a cancellation with the delivery, counts that
are stale when they are used, late answers of the printer, power cycles, and a
second thread for one printer after a reconfiguration. `PROJECT.json` lists every
such hazard with its line under "hazards" and names the properties that cover
it, or says why none does.

## 2. The modules

| Module | What it is |
| --- | --- |
| `JobPromise` | abstract: a job waits, is claimed, is settled; bytes of it leave at most once, while it is claimed |
| `PrintJobs` | handlers, job store, queue files, worker, delivery, crash and recovery |
| `MCPrintJobs`, `PrintJobs*.cfg` | its TLC instances |
| `PrintJobsProofs` | its theorems about records and paper, and the refinement of JobPromise |
| `AdmissionProofs` | its theorems about keys, the limit and the answers, then about cancellations, pauses and queued jobs |
| `RollAccount` | abstract: the account of a roll, every mutation one atomic step |
| `MediaLedger` | the media accounting of one printer, with the boot accounting |
| `MCMediaLedger`, `MediaLedgerFaults.cfg` | the TLC instance of MediaLedger and of LabelCount |
| `MediaLedgerProofs` | its theorems: the account of the roll and the refinement of RollAccount, then charges of jobs and boots, losses and the ledger |
| `LabelCount` | the label count of a job: `parse_pq` read by read, `prepare_job` page by page, the raster driver |
| `LabelCountProofs` | its theorems |
| `SettingsSave` | "save in the printer", with transport and printer below it |
| `MCSettingsSave`, `SettingsSave*.cfg`, `SettingsSaveProofs` | instances and theorems |
| `Registry` | saving a printer: `printers.json`, the list and the map of workers, two threads of one printer |
| `MCRegistry`, `Registry*.cfg`, `RegistryProofs` | instances and theorems |
| `Probes` | transports and probes of one worker: whose reply is whose, what the snapshot says, the reconnect charge |
| `MCProbes`, `Probes.cfg`, `ProbesProofs` | the instance and theorems |
| `EventLog` | the append-only logs and the clients that page through them |
| `MCEventLog`, `EventLog.cfg`, `EventLogProofs` | the instance and theorems |

Definitions that a comment marks "Mutant:" are deliberate mistakes (a dropped
guard, a swapped order, a forgotten save). They are part of no specification;
each shows that a property notices the mistake (`PROJECT.json`, "mutants").

### PrintJobs

State. `job[r]` is `jobs/<id>.json` reduced to its state and to whether it
carries key and payload hash; `index` is `jobs.ndjson`; `qfile` and `pfile` are
the queue files; `birth` is the order of `created_at`. In the process: `lock`
(the idempotency lock), `hpc[r]` (where r's handler stands), `answer[r]` (what
its client was told), `reply[r]` (the worker's one-shot answer), and per printer
`queue`, `paused`, `chan`, and the worker's position `wpc` with the job in hand,
the attempt and the verdict. `sent[r]` and `whole[r]` observe the paper: how
many delivery attempts put bytes of r on the wire, and whether one handed over
every byte.

Actions, in the order of the code:

| Code | Actions |
| --- | --- |
| `create_job` (v1) | V1Create, V1Uploaded / V1TooLarge / V1UploadFailed, then the common tail |
| `v2_create_job` | V2Prepare, the common tail with V2Create, V2PayloadStored / V2PayloadFailed |
| common tail | AcquireLock, CheckFound / CheckFull / CheckPassed / CheckFailed, Submit, Register, AppendEvent, HoldJob, Enqueue, Enqueued / NotEnqueued, RejectJob |
| a dropped handler | Disconnect, at the awaits: upload, lock, payload write, reply |
| `run` | Pop, ReceiveEnqueue, ReceivePause, RefuseCancel, CancelRecord, CancelDequeue |
| `process_job` | Begin / Skip, SendAll / SendSome / SendNone, Accept, Finish |
| stop and start | Crash, RecoverJob, Start |

What v1 and v2 do differently is kept: v1 creates its record before the upload,
without key and hash and outside the lock, counts itself among the active jobs
and removes its record on a refusal; v2 creates the record under the lock.

Abstractions and their reasons:

* A request is a record `[api, printer, key, payload, stale]`. The hash of a
  request is taken to be collision free: v1 hashes content type and body, v2 the
  whole request, so the two never agree (`SameRequest`).
* Reading the jobs directory (lookup and count) is one step: it is done under
  the lock, and what changes meanwhile (v1's Receiving records, the worker's
  progress) only moves the step within the interval.
* A record that a scan cannot read is passed over: the lookup finds nothing only
  if it skipped every record of the key, the count may be lower than the active
  jobs by any set of them (`uncounted`), and a start may leave any unsettled or
  Queued record (`Pending`) as it is. Each record passed over costs one of the
  budget `read`; `Skipped` is how many there were so far. A directory that cannot
  be read at all is the fault of CheckFailed, a record the worker or a cancellation
  cannot read is in Skip and RefuseCancel.
* A job id is the request's own identity; ids are UUIDs and never collide.
* `created_at` grows with each record created. Two equal timestamps would be
  ordered by directory order, which the model does not distinguish.
* Probe and Control commands take the worker's time between jobs and touch none
  of this state; they are in MediaLedger, SettingsSave and Probes. The reply to a pause
  request is the flag itself.
* A crash stops the process and keeps the files: a save that reported success is
  durable (file and directory are synced). Removals of records count as durable
  too. Crash is the death of the process, which has no code; an orderly shutdown
  (`main.rs:191`) is one at a favourable moment.
* The failure of `save_queue` at start ends the start and the next one takes it
  up again; the model omits the failed start. The branch for a missing payload
  of a queued job cannot be reached by the program's own steps.

### MediaLedger

State. `media`, `ledger`, `rolls` (the clock behind `loaded_at`, which with the
definition makes the revision of an edit form), `bootFile` against `host`;
`phase` (down, `main` booting, serving); the worker's `inbox`, and per thread
(the worker and `main`) its position and the mutation it is making: the state it will save, the ledger
line it will append. Observers add up what was really done (`debits`, `credits`,
`charged`, `bootCharges`).

Each mutation is a command taken from the inbox (Load, Edit, Unload, Adjust,
Maintain, Probe, Deliver), which **reads** `media.json`, then AppendLine, then
SaveMedia; a job adds Deliver, Accept / NotAccepted and Consume before. As in
the code the adjustment and the boot accounting stop at a failed append, all
others go on and save. Start, MarkBoot and Serve are `apply_boot_accounting` and
the recovery.

Counts are u64 that saturate, ledger deltas are `-(count as i64)`; `HalfRange`
stands for 2^63, so that a small instance meets both limits. An append (`Write`) is
written, not written, written and reported as failed (the sync of `append_ndjson`),
or cut in the middle by an error or a crash, the missing newline included. What is cut
leaves `Torn` as the last line; the next append ends up in that line, which nobody can
read any more (`Damaged`): the code neither closes nor repairs it. Nobody reads the
ledger back, so this costs its entries and never the state.

Abstractions: one printer (boot charges of several are made one after the other,
in configuration order); a job has a label count or none (`Labels`: a v1 upload
without `^PQ` and without a count in its headers), and one without is printed and
never charged; jobs and commands share one inbox in arrival order, an
ordering the worker's queue-first rule refines; a
read error of `media.json` when a roll is loaded is `fault`, and at start a
crash; the archive file is written but its contents are never read. Two workers
of one printer, after a reconfiguration, are the subject of Registry.

### LabelCount

State. `job` is the text of an upload or a v2 request. For the text: `at`, how much
of it has been read, `carry`, the end of what was read before, and `found`. For the
request: `at` counts the pages that are checked or laid out, `size` is their size,
`copy` the copies laid out, `labels` the count the job is charged with; `printed`
observes what the printer makes of it.

`parse_pq` is ReadOn (a window without a number is cut to its last `CarrySize`
characters), FindNumber (the digits behind the first `^PQ` of the window decide),
EndOfText and ReadFails; a read fills the buffer of `ChunkSize` or any part of it.
`prepare_job` is CheckPage or Refuse for each page, BeginLayout, LayPage for each page
of each copy, Prepared; `Accepts` and `Payload` are the raster driver. A text is made
of characters of which `^PQ` and the digits count; whether digits fit u64 is the set
`Representable`. An artifact is the quantities its `^PQ` commands name, or a raster page.

Its formulas are `CountInit`, `CountNext` and `CountSpec`, so that one instance can
extend it together with MediaLedger, which charges the counts: there a job is
counted first, and the ledger, which takes any count (`Labels`), is followed behind
one of the outcomes (`CountedThenCharged`). The two share no variable.

### SettingsSave

State. The printer's `active` and `nvm` settings, a `wire` to it and `answers`
back; `attempt`, the file `configuration-attempt.json`; the worker's position,
request and report; `applied` and `saved` observe which attempt last sent
settings or ^JUS. A configuration is the field the request changes and "the
rest", because ^JUS saves both and the revision covers both.

Actions: BeginSave (query), RefuseSave / CheckRevision, OpenAttempt, Apply, Ask
/ NoAnswer / ReadBack, Arm (the attempt becomes `save_outcome_unknown`
**before** ^JUS), SendSave, Ask / NoAnswer / Confirm, FinishAttempt. RunJob and
ReadDevice are the worker's other operations on the same wire. Printer works one
message off; PowerCycle returns it to the saved settings and forgets what is on
the way. `keepsAnswers`, one of `Transports`, distinguishes character devices and USB endpoints, which
hand an answer nobody waited for to the next reader, from TCP, where each query
has a connection of its own. `late` observes that a query was given up (HangUp)
while its answer could still come; an operation that finds the link silent (Begin)
forgets it.

Assumptions about the printer: it works off everything in the order written,
also across TCP connections; it may ignore a setting but obeys ^JUS; nobody
changes settings at its front panel. A message leaves whole or not at all.
`configuration.json` is a cache of readings and is not kept; its write errors
are (NoAnswer).

### Registry

State. `file` is `printers.json`, `memory` the list in `AppState`, `workers` the
map; each worker is a generation of its printer's threads with queue, inbox and
the job in hand, and its pause flag; `handle[j]` is the worker that j's handler
looked up; `record`, `qfile`, `pfile` and `roll` are what the threads share on disk.

Saving a printer is CloneList, CheckOpenJobs, SaveConfigs (with its failures),
SetList, ReplaceWorker, one step each, because the handler holds no lock between
them. A submission is Lookup, Receive (v1) or AcquireLock and Receive (v2),
Submit, Enqueue, Answer. A thread is LoadQueue, then Pop, LoadJob, Claim,
Accept, LoadMedia, SaveMedia; when its queue is empty or paused (`Listening`) it
receives, with ReceiveEnqueue and SetQueuePaused, and when nobody can send to it any
more it ends: Exit, which leaves the jobs of a paused queue behind (`left`). Crash
and Start are the process. CheckOpenJobs may pass over a record that cannot be read
(one of the budget `fault`), so that a worker with open jobs is replaced.

Three more observers mark what the code leaves open, so that the properties can say
exactly when they hold: `straddled` (a worker was replaced while a submission
held it without a record, before its thread had loaded its queue, or with open
jobs nobody looked for or could read), `overlapped` (`printers.json` was saved in the middle of
another such request), and the budget of disk faults. The last part of
`straddled` is a gap that the attempt to prove SentOnce brought to light:
`api.rs:891` asks `has_open_jobs` only if the list it cloned has the printer, so
of two requests that add the same printer the later one, if it cloned before the
earlier one was done, replaces the new worker whatever that has in hand. That is
why `Initial` is a set, and the run starts with the printer and without it.
Deliveries succeed here, records are saved
without failure, and the idempotency lookup finds nothing: all that is in
PrintJobs.

### Probes

State. The printer (`power`, the queries its `firmware` knows), what is between
it and the worker (`owed`: the replies still due, in order; `half`: a command or
job it has in part), the worker's `transport`, the position in the probe, its
`ever_connected` and `disconnected_at`, and the snapshot as far as the queries
change it.

A probe is BeginProbe or ProbeUnopened (`ensure_transport`), then per query
AskTcp, AskChar or AskUsb, the matching Read, at last Publish, with `Failed` and
`Succeeded` of `run`. Over TCP a query takes the connection or, if something was
written to it, a new one, and closes it; a device keeps late replies and half
commands for whoever comes next. `late` observes that a device still owed a reply
when nobody waited for it. Maintain and Deliver/Attempt are the other
users of the transport; what a job asks the printer is a reply `"job"`. PowerOff,
PowerOn, Elapse (the debounce period) and Restart are the environment.

Assumptions: if no serial number is configured no other device of the model is
attached (the code refuses to choose). The printer answers a query it knows
unless half a command stands before it. The four base and optional queries of
the instance stand for the seven and more of the code.

### EventLog

State. Each log is its closed lines and the open one, a line the values written
to it: one if all is well, more if two writers share it, `Torn` if one was cut.
Writers are the submissions (index under the lock, then event), the worker and
requests that save a printer; `event[x]` is the event x has numbered and not yet
written. A client follows one of three logs (jobs, events, events of a job) by
`next_cursor`.

Number counts the lines, WriteEvent and WriteNewline append (serde_json hands the
value to the file in many small writes; two values whose pieces mix spoil the same
lines as two values side by side, so one step stands for them), SubmissionFails and
EmitFails end an append with an error at any byte, Crash tears whatever is being
written. ReadEvents and ListJobs are the pages; an unparsable line fails the
request, as in the code.

## 3. The runs

Every run is exhaustive within its bounds. The bounds are the constants and the
`Budget`: how often a crash, a disk fault, a disconnect, an operator command
(and so on) may occur, **at any point**.

| Run | Checks | Instance and bounds |
| --- | --- | --- |
| `jobs_faults` | SentOnce, RecordHonest, KeyUnique, AdmittedBound, AnswerHonest, QueuedIsTracked, KeepsPromise (refinement of JobPromise), TypeOK | 2 submissions out of 5 kinds (v1, v1 without key, v2, v2 to the other printer, stale v2 with another payload under the same key), 2 printers, limit 1, channel 1; 1 crash, 2 disk faults, 1 disconnect, 1 unreadable record; 1.4 million states |
| `jobs_control` | CancelHonoured, PauseDurable, TerminalStable | 2 jobs of 2 kinds, limit 2, channel 1; 3 operator commands, 1 crash, 1 fault; 2.0 million states |
| `jobs_live` | QueuedSettles, SubmissionEnds | fair; 1 crash, 1 command |
| `media_faults` | NothingLost, LossBounded, LedgerExplains, BootCharged, ChargedOnce, BootSettled, Atomic (refinement of RollAccount), PqCutShort, LabelsCounted, TypeOK | 3 jobs (2 labels, 3 labels, unknown), one definition, roll of 3, u64 of 3 bits, 2 commands, 2 crashes, 1 host boot, 1 fault; texts of up to 4 pieces (`^PQ`, two digits, a comma), chunk and carry of 3, requests of up to 2 pages and copies; 3.9 million states |
| `settings` | FileHonest, SavedUnlessLate, VerifiedUnlessLate | 3 operations over TCP or on a device that keeps answers, 2 power cycles, 1 crash, 2 faults, 1 link error; 2.5 million states |
| `registry` | Agreement, SentOnce, NobodyForgotten, TypeOK | 1 printer, 2 configurations (one disabled), with it or without it in the first `printers.json`; 2 saves by 2 requests, 2 submissions (v1, v2), 1 pause or resumption, 1 crash, 1 fault or unreadable record; 6.1 million states |
| `logs` | LogsIntact, SequenceSafe, QueuedFirst, FollowerExact, NoJobMissed | 2 submissions, worker, 1 registry request; 1 crash or failed write, 1 unreadable record; 3 kinds of client, pages of 1 and 2; 2.2 million states |
| `probes` | CapabilityHonest, ReconnectCharged, Recovers, AbsenceShown, TypeOK | fair; 4 transports, 4 kinds of firmware, a neighbour on USB; 1 power failure, 1 link fault or restart, 2 jobs or maintenance commands; 750 000 states |
| `jobs_incomplete`, `settings_late`, `registry_overlap`, `registry_account` | one property each, **violated** | see section 5 |

### Why the bounds are enough

* **Jobs.** The idempotency hazards need two requests with one key, the
  admission hazards a limit of one and two requests, `QueueFull` for v1 and v2
  both. The uncertain deliveries need one crash; a second disk fault is needed
  for a save that lands late followed by one that is lost. A job popped while
  the next one waits in the channel needs two jobs and a channel of one, which
  is also when the channel overflows. Three operator commands give a pause
  (while a queue is not empty only a paused worker looks at a cancellation), the
  cancellation and the resume that would deliver the job after all. Two printers
  matter only for the key, which is global. One unreadable record is enough for a
  second job under one key and for a job over the limit, which is what KeyUnique and
  AdmittedBound then allow, and no more. QueuedIsTracked and PauseDurable
  speak of behaviours without a disk fault so far (`Writable`), the former also
  without a skipped record; all other properties include both.
* **Media.** The jobs of 2 and 3 labels on a roll of 3 exhaust it, leave a
  deficit and are corrected by -4 and +2. The first crash stops the agent so
  that the host can boot, the second interrupts the charge of that boot. With
  counts of three bits the jobs, the adjustment of -4 (the least i64) and the
  boot loss exceed the largest u64, so sums saturate. LedgerExplains speaks of
  behaviours without a disk fault so far whose sums fit: after a failed append
  the ledger lacks a line by design, and a saturated sum is no sum. It ends when an
  append was glued to a line that a crash had cut (`Intact`); the crash itself, and
  the open line it leaves, are included. One definition is enough: an edit is refused
  when another roll was loaded, and one that is accepted need not change anything.
  The third job has no label count.
* **Counts.** A `^PQ` has three characters, so a chunk and a carry of three let
  the marker and the number behind it fall on every side of a boundary, and four
  pieces hold a marker, digits and what follows them. The real carry of 32 is
  longer than any marker with its number; what matters is that it is shorter
  than a text.
* **Settings.** Two values make the asked field and the rest differ
  independently. Two operations give a reading that times out followed by a
  save, three a save that follows a job and another save,
  or a reading left behind and a link that fell silent before the save, which is when
  the properties speak again on a device. SavedUnlessLate
  ends at the first power cycle: a printer that loses power between the revision
  check and the settings comes back with other settings, which nothing in the
  code could notice. Transport and power are chosen independently, so every failure
  meets both kinds.
* **Registry.** Two saves give three generations of a printer's worker, which is
  where a submission can hold the first while the third is in the map; two
  requests overlap in every order. A third submission would only repeat one of
  the two. The races need one printer; `Printers` and `Target` are parameters.
* **Logs.** Two submissions, the worker and a request make up to three writers at
  once (submissions exclude each other). One crash or failed write leaves one
  damaged line, with which all later appends and pages have to live.
* **Probes.** One power failure and one fault give every pair of "the printer went
  away" and "something is left on the wire"; two commands a delivery that fails
  and a maintenance command on what it left. Two base and two optional queries
  distinguish first, next, disabled and unknown.

Symmetry is used in the safety runs of PrintJobs and Registry (no definition tells jobs,
or requests that save a printer, apart; the order of the queue is by position and `birth`). It is not used where
a liveness property is checked. Deadlock is checked in `probes` only, where the
timers never stop; elsewhere the agent may be idle for ever, and a stopped one
with its budget spent has nothing to do.

### What the properties say beyond the code

* *SentOnce* and *RecordHonest* relate the paper to the record across crashes,
  saves that fail late, and cancellations. *KeepsPromise* says the same as one
  abstract machine.
* *KeyUnique* also holds for two handlers that check before either has written,
  for dropped handlers and across printers. *AdmittedBound* holds although v1
  counts itself and v2 does not, and the count is stale when used. Both allow one
  job more for each record that a scan passed over because it could not be read
  (`Skipped`): one read error is enough for a second job under a key or one over
  the limit, and nothing else is.
* *AnswerHonest*: a 202 names a durable record of the same request, that is
  never removed again.
* *CancelHonoured*: the record and the queue agree after a confirmed
  cancellation, or the job is skipped; it never reaches paper.
* *QueuedIsTracked* holds without disk faults and unreadable records. With them a job can be stranded
  (Queued on disk, in nobody's queue) until the next start: `worker.rs:701`
  returns from a failed save of Writing, and the job is in no queue any more;
  `persist.rs:161` passes over a record it cannot read.
  The code accepts this; the hazard list says so.
* *NothingLost*, *LedgerExplains*, *ChargedOnce*, *LossBounded*: the account,
  the ledger and the jobs agree. A crash between the accepted record and the
  charge loses one job's labels (never more than one per crash or fault; a job
  whose labels are unknown is not charged at all); nothing is charged twice. The
  ledger stops explaining the state when an append meets a line that a crash cut.
* *BootCharged* and *BootSettled*: the boot is charged before the agent serves,
  and may be charged again only by a start that failed before it served.
* *PqCutShort*: wherever the reads end, `parse_pq` returns a number of the text or its
  beginning (the digits behind the end of a read are not waited for), and no other
  digits; if every `^PQ` has a number it is the first one's. *LabelsCounted*: a v2
  job is charged with what it prints, except that a single copy with a `^PQ` of its
  own is charged with less.
* *FileHonest* holds on every transport. So do *SavedUnlessLate* and
  *VerifiedUnlessLate*, whose premise `Undisturbed` is always true over TCP and on a
  device until a query is given up with its answer outstanding: what `settings_late`
  shows can happen in no other way.
* *Agreement*, *SentOnce* (of Registry) and *NobodyForgotten* hold up to the
  races that their premises name, in which the code does leave them false. Until
  the first restart *NobodyForgotten* needs no such premise: whatever races, a waiting
  job has an owner, or a paused thread that was replaced had it in its queue when it
  ended. So an operator who pauses a queue and changes the printer may leave a job
  that a submission handed over in between to the next start.
* *LogsIntact* and *SequenceSafe* tell what a reader of the events may rely on:
  numbers are those of the lines while no two appends overlap, and never beyond
  the line in any case. *QueuedFirst*, *FollowerExact*, *NoJobMissed* hold with
  crashes and failed writes.
* *CapabilityHonest* needs the fresh connection that a TCP query takes after a
  write. A device has no such protection: it is claimed there until a reply is left
  to whoever asks next, by a query given up or by a job that asks something itself. *ReconnectCharged* compares the charge
  with an observer that measures the whole outage. *Recovers* and *AbsenceShown*
  are liveness properties; their premises name the cases in which the code gives
  no such promise.

### Fairness

`FairSpec` assumes weak fairness of each handler past its upload, each worker
thread, and recovery.

* Handlers: the runtime polls every task that was woken. `Progress` leaves out
  "new" and "upload": whether a request arrives, and whether its body ends, is
  up to the client. The mutex of the runtime is FIFO, so a waiting handler gets
  the lock; under weak fairness alone this follows here because only finitely
  many submissions exist.
* Workers: an operating-system thread, with time limits on every device
  operation, so that a delivery attempt ends in one of its three outcomes.
* Recovery: the service manager restarts the agent (`packaging/`).
* Probes: `Poll`, because the timers of `main` ask for a probe at fixed intervals
  for ever, and `Work`, the worker's thread, whose device operations end at their
  time limits. None for the printer: it may stay off, and never has to answer.
* No fairness for clients, operators, crashes, faults.

`QueuedSettles` excepts a paused queue: nothing promises that it is resumed.

## 4. The proofs

TLAPS checks the following for every value of the constants that satisfies the
named assumptions: any number of jobs, printers and requests, any limits and
budgets.

| Theorem | Module | States |
| --- | --- | --- |
| `PaperInvariant` | PrintJobsProofs | `Spec => []IInv` |
| `TypeCorrect` | PrintJobsProofs | `Spec => []TypeOK` |
| `NeverSentTwice` | PrintJobsProofs | `Spec => []SentOnce` |
| `RecordsAreHonest` | PrintJobsProofs | `Spec => []RecordHonest` |
| `SettledForGood` | PrintJobsProofs | `Spec => TerminalStable` |
| `PromiseKept` | PrintJobsProofs | `Spec => KeepsPromise`: PrintJobs implements JobPromise |
| `AdmissionInvariant` | AdmissionProofs | `Spec => []AdmissionInv`, from which the next three follow |
| `KeysAreUnique` | AdmissionProofs | `Spec => []KeyUnique` |
| `LimitHolds` | AdmissionProofs | `Spec => []AdmittedBound` |
| `AnswersAreHonest` | AdmissionProofs | `Spec => []AnswerHonest` |
| `QueueInvariant` | AdmissionProofs | `Spec => []QueueSafety`, from which the next three follow |
| `CancellationsHold` | AdmissionProofs | `Spec => []CancelHonoured` |
| `PausesLast` | AdmissionProofs | `Spec => []PauseDurable` |
| `NoQueuedJobForgotten` | AdmissionProofs | `Spec => []QueuedIsTracked` |
| `AccountTyped` | MediaLedgerProofs | `Spec => []TypeOK`: counts stay in u64, deltas in i64 |
| `NothingEverLost` | MediaLedgerProofs | `Spec => []NothingLost` |
| `MutationsAtomic` | MediaLedgerProofs | `Spec => Atomic`: MediaLedger implements RollAccount |
| `JobsChargedOnce` | MediaLedgerProofs | `Spec => []ChargedOnce` |
| `BootsAreCharged` | MediaLedgerProofs | `Spec => []BootCharged` |
| `BootsStaySettled` | MediaLedgerProofs | `Spec => BootSettled` |
| `LossesAreBounded` | MediaLedgerProofs | `Spec => []LossBounded` |
| `LedgerExplainsState` | MediaLedgerProofs | `Spec => []LedgerExplains` |
| `CountInv` | LabelCountProofs | `CountSpec => []Inv`, from which the next three follow |
| `CountTypes` | LabelCountProofs | `CountSpec => []CountTypeOK` |
| `CutShortAtMost` | LabelCountProofs | `CountSpec => []PqCutShort`: for texts of every length, every chunk and every carry that holds `^PQ` |
| `PreparedAsCounted` | LabelCountProofs | `CountSpec => []LabelsCounted`: for any number of pages and copies |
| `FileIsHonest` | SettingsSaveProofs | `Spec => []FileHonest`, on either kind of transport |
| `SettingsTyped` | SettingsSaveProofs | `Spec => []TypeOK` |
| `SettingsInvariant` | SettingsSaveProofs | `Spec => []SettingsInv`, from which the next two follow |
| `SavedOnAnyTransport` | SettingsSaveProofs | `Spec => SavedUnlessLate` |
| `VerifiedOnAnyTransport` | SettingsSaveProofs | `Spec => VerifiedUnlessLate` |
| `RegistryInvariant` | RegistryProofs | `Spec => []RegistryInv`, from which the next five follow |
| `TypesHold` | RegistryProofs | `Spec => []TypeOK` |
| `FileListAndWorkersAgree` | RegistryProofs | `Spec => []Agreement` |
| `NoJobSentTwice` | RegistryProofs | `Spec => []SentOnce` |
| `NoJobForgotten` | RegistryProofs | `Spec => []NobodyForgotten` |
| `OneWorkerDelivers` | RegistryProofs | `Spec => [](~straddled => OneAtATime)`: the gaps are the only way to what `registry_overlap` shows |
| `ProbesTyped` | ProbesProofs | `Spec => []TypeOK` |
| `ReturnsAreCharged` | ProbesProofs | `Spec => ReconnectCharged`, on every kind of transport |
| `CapabilitiesAreHonest` | ProbesProofs | `Spec => []CapabilityHonest`, on every kind of transport |
| `NumbersLag` | EventLogProofs | `Spec => []SequenceSafe` |
| `LogsStayIntact` | EventLogProofs | `Spec => []LogsIntact` |
| `QueuedIsFirst` | EventLogProofs | `Spec => []QueuedFirst` |
| `ListingComplete` | EventLogProofs | `Spec => []NoJobMissed` |
| `FollowingIsExact` | EventLogProofs | `Spec => []FollowerExact` |
| `LogsTyped` | EventLogProofs | `Spec => []TypeOK` |

### The argument for the jobs

SentOnce is not inductive: a job in a queue could be there a second time, or
have been sent before. `IInv` says *where a job is known* at each point:

* `HandlerInv`: up to the Enqueue, and after a refused one, the handler alone
  knows the job (`Loose`: it is in no queue, no hand, no channel), and so knows
  the state of its record;
* `ChannelInv`: an Enqueue command is in one place, in the channel of the job's
  own printer, and its job is Queued and nowhere else;
* `QueueInv`: a queue holds a job once, and its record is Queued or Cancelled;
* `WorkerInv`: the worker's position determines the record and the paper of the
  job in hand: nothing sent at "load" and at the first byte, exactly one attempt
  at "accept" and "finish";
* `DownInv`: a stopped agent remembers nothing, so recovery meets records only;
* `SentOnce` and `RecordHonest` close the circle: a job that may be popped is
  Queued, hence has sent nothing.

The step proof has one lemma per group of actions. For TerminalStable and the
refinement, `RecordStep` / `Transition` classify what any step may do to a
record and its paper, from which both theorems follow.

### The argument for admission

KeyUnique, AdmittedBound and AnswerHonest are about a check that is used later:
between the lookup and the save lie several writes. `AdmissionInv` adds what
stays true in between:

* `LockAt`: a handler from its check to its end holds the idempotency lock, so
  two of them are the same;
* `RecordAt`: a record has its hash only once its job is admitted, keeps it, and
  every state but "receiving" and "failed" has one (`Sound`);
* `SoleAt` and `RoomAt`: in the window from the passed check to the save
  (`Admitting`) no other job has this key and a hash, and fewer than the limit
  are admitted, the job itself left out, but for as many as records were `Skipped`
  so far: the check pays for those it passed over (`CheckSkips`), and the sum never
  shrinks (`SkippedStep`). That is why it does not matter that v1 counts itself and
  v2 does not;
* `ListedAt`: past Register the job is in the index.

Every step is classified: `Fits` bounds what it makes of a record (a hash, or an
active job with one, appears only within the window), and only a passed check
opens the window. Everything else a step may do
(workers, crashes, recovery) lowers the count or leaves it alone.

### The argument for queues

*CancelHonoured.* A step that confirms a cancellation is CancelDequeue without
a fault (`Confirmed`); the record was Cancelled before (`WorkerInv`) and the
queue held the job once (`QueueInv`). Afterwards the record is terminal, hence
stable, and a job comes into a queue only when it is Queued (`QueueGrowth`).

*PauseDurable* and *QueuedIsTracked* speak of behaviours without a disk fault so
far, QueuedIsTracked of those without a skipped record. `Within` makes that premise
usable: the budgets only shrink (`BudgetShrinks`), so if none is spent after a step, none was before, and no write of
that step failed (`NoFaultOk`). `NoRefusal` adds that a worker then refused no
job. `AtWorker` is the part of Tracked that belongs to the worker: other actors
only add to it (`OutsideKeeps`), the worker itself hands a job from channel to
queue to delivery (`WorkerKeeps`), and after a restart that skipped no record the
saved queue holds every Queued one (`RecoveredAll`).

### The argument for the media

`AccountInv` adds to NothingLost: `Serial` (main and the worker never work at
the same time), `UpToDate` (the state a thread is about to save was computed by
one debit, credit or new roll from the state it will replace: `Follows`), the
clock of rolls, and `Sums` with the bounds that keep the equation exact up to
the point of saturation. UpToDate rests on there being one worker; with two, after
a reconfiguration, it is false, which is what the run `registry_account` shows.

*ChargedOnce.* `ChargeInv` follows a job through the worker: it has no line
before it is delivered (`FreshAt`), it is asked for once (`InboxAt`; after a
restart because only queued jobs are asked for again), and only the worker, with
the job in hand, writes its line, once (`WorkAt`).

*BootCharged* and *BootSettled.* `BootInv` says what main's position tells: from
"mark" on the boot is `Paid`, a boot on file has been paid, and while main is
charging the agent has not served in this boot. A boot of the host makes the one
on file an older one, which is why `bootFile` never exceeds `host`.

*LossBounded.* A step either loses nothing or is `Losing`: it spends a crash or
a fault and lets one job go, the one in the worker's hand (`HandOf`).

*LedgerExplains.* Its lines are the last ones of their sequence number, since an
append that a crash separated from its save is repeated. `Explained` names them,
the `Page` of the state; `Prepared` says what a thread is about to save: a new
roll (an empty page), the same account under another definition (the same page),
or the next `Entry`, whose line is the last of its number by then. A crash leaves
at most a line beyond the page, which the next append of that number replaces. If
it cuts the line (`Torn`), the next append would spoil it: while the ledger is
`Intact`, no append has met an open line, so each one added a line (`WriteIntact`),
and open lines have no number and are on no page.
The premise `Countable` (no count above 2^63) is needed: `-(count as i64)` of a
larger one has the wrong sign.

### The argument for the counts

`ScanInv` says what `parse_pq` knows between two reads: the carry is the last
`CarrySize` characters of what was read, or all of it, and if every `^PQ` of the
text has a number, none lies wholly in what was read. That a
marker cut in two is found again needs the carry to hold a `^PQ`
(`LabelLimits`). Markers of the window are markers of the text, shifted by what
was dropped (`WindowMarkers`), so the first one of the window is the first one of
the text if each has a number. That a text with a marker has a first one is
`LeastExists`, from the fact that `<` on Nat is well-founded. The digits found are
followed in the window by something else or by its end, hence "cut short at most".

`LayInv` says that the pages checked passed every check, and that what is laid out
so far prints at least one label for each page, and exactly one unless the request
is a single copy with a `^PQ` of its own (`Alone`). There is no induction over pages
or digits: the machine takes a step for each, and the invariant does the rest.

### The argument for the settings

`AttemptInv` orders the numbers (`saved`, `applied` <= `number`), says that
between OpenAttempt and FinishAttempt the file is of the running attempt, that
^JUS has not been sent up to Arm, and that from Arm on the file says "unknown".
It needs nothing about transport or printer, so FileHonest holds on all of them.

What is saved does depend on them. `SettingsInv` adds `Traceless` (over TCP
a connection is closed with its query, so nothing is ever `late`) and three parts that
hold while no query was given up on a device (`~late`). A step forgets what was left only
when an operation begins on a silent link; then the three parts hold whatever
happened before (`Fresh`, `FreshInv`), and no other step does (`OnlyFresh`).
SavedUnlessLate and VerifiedUnlessLate follow on every transport; on a device the run
`settings_late` shows why they need their premise.

`WireInv` says what is on the way: a query is always the last message and somebody waits for it, so an answer is what is in
force and nothing else is on the way when it is heard; hence ^JUS leaves on an
empty wire and is always the first message there. `PowerInv` adds that, as long
as the printer has not lost power, the settings nobody asked to change are the
acknowledged ones from the revision check on, and after the readback all of them
are, so ^JUS finds what it is meant to save. `SavedInv` adds that after ^JUS the
settings in force are the saved ones or ^JUS is still on the way: a confirmed
readback finds the wire empty, so a power failure that took ^JUS along cannot go
unnoticed.

### The argument for the registry

`RegistryInv` has a part that always holds and one for each property; TLC checks
all of it on two instances (one printer and two, with and without it in the first
file).

* `BaseInv`, whatever races and pauses: `Bounded` (a printer gets a new generation only for
  a save, so generations do not run out), `AtRest` (a stopped process remembers
  nothing), `ThreadShape` (a generation in the map, or that a submission looked
  up, has a thread) and `Placed` (what a queue or a thread has is a job of its
  printer, handed over by its handler, and one that was begun is not Queued).
* `OnceInv`, while nothing is `straddled`, is what SentOnce needs. SentOnce alone
  is not inductive: two generations may have one job, or a replaced one may have
  some left. `AllClosed`: from the check to the swap no job of the printer is
  under way, which is what `has_open_jobs` establishes; a submission that looks
  the worker up in that window is one of the gaps. `HandlesCurrent`:
  a handler that has not enqueued holds the worker in the map. `OldFinished`: a
  replaced thread has nothing left but to charge its last job.
  `WaitingQueued`: whatever waits has a Queued record, and what is delivered a
  Writing one. `OnePlace`: a job waits once, in the queue or in the channel of one
  thread, and `queue.json` is what the current thread has in memory.
* `AgreeInv`, without overlap and disk faults: at most one request is between its
  save and its swap (`StepwiseAgreement`), and at each of its steps file, list and
  workers differ in exactly what it has yet to do.
* `UntilCrash` and `AfterCrash` are NobodyForgotten and what it becomes while the
  process is down: before the first crash a Queued job is with a thread, also with
  a replaced one, or was in the queue of a paused one that ended (`left`); outside the
  gaps it is always with a thread, because only a replaced thread ends and has nothing
  left (`OldFinished`), and while the process is down its printer is enabled in
  `printers.json`, so the next start finds a worker for it.

### The argument for the probes

*ReconnectCharged.* `AbsenceInv`: while the worker knows the printer, its
`disconnected_at` is as old as the first failed probe since the last success;
otherwise it is not set. Only a probe's end, the clock and a restart touch either.

*CapabilityHonest.* `ReplyInv` holds while a probe is `OnTrack`: over TCP always, on
a device while no reply was left behind. While a reply is awaited, what is due is
nothing or the reply to the query that is asked, which was not skipped; at any other
time nothing is due on a device, nor on a TCP connection that was not written to. A
query that ends, or a job, on a device leaves nothing due or leaves the track
(`NothingLeft`), and a new worker is on track only on a silent device. So the
connection a query may reuse is silent, and a fresh one is silent, too. Every
write either sets the flag or leaves a silent connection silent
(`WriteStreamFacts`, also for a write that got through in part). What the
snapshot takes from one answer is then that query's (`AnsweredQuery`), and every
other step makes it say no more (`Silent`).

### The argument for the logs

`Lagging` and `Pending` say that neither a readable event nor one that is about
to be written has a number above that of its line, which is all NumbersLag
needs: a value put behind an unfinished line makes that line unreadable, and the
file never gets shorter. LogsStayIntact adds who may be in the middle of a line:
for the index the one submission that holds the lock (`Held`, `IndexIntact`),
for the events the one writer of an append that nothing overlapped (`Numbered`).
For QueuedIsFirst, `Positions` says that a submission announces its job before
it is in a queue and is done announcing when it is, and that a job whose
`job_writing` is written or about to be written has begun; `LogOrder` is the
property with the line still open included. ListingComplete rests on `Extends`:
a line that can be read says what it said when it was read before. So does
FollowingIsExact: `PageExact` says that a page returns the entries on the lines
from the cursor to the new one, and `EntriesFollow` that entries on some lines and
those on lines behind them, one after the other, are the entries of both. That
rests on what `Nth` picks: the ranks of n lines are n different numbers, hence
each of 1..n is one (`NthExists`, by the pigeonhole principle instead of an
induction over the file).

### Only model-checked

The liveness properties QueuedSettles, SubmissionEnds, Recovers and AbsenceShown:
liveness under fairness and ENABLED are out of the prover's reach. Every other
property of a passing run is proved. Scans and layouts are steps of a machine here,
not recursive definitions, which is what makes them provable.
No module with a theorem declares or uses a RECURSIVE operator.

Assumptions of the theorems are the named ASSUMEs of the modules (finite sets of
jobs and printers, requests of the right shape, `None` different from all data, a
job's id none of the words the ledger uses for other reasons, queries that are
sequences of names);
TLC evaluates them in every run. The proofs rest on no other fact than the
library's theorems on finite sets, functions and sequences.

## 5. Where code and documents disagree

Each is a run that ends in a counterexample.

* **`jobs_incomplete`.** The test at `persist.rs:527` says a lookup by key
  ignores incomplete jobs; it does for v1. A v2 record carries key and hash from
  its creation (`api.rs:681`): a client that disconnects while the payload is
  written leaves it Receiving, and its retry is answered 202 with that job,
  which nobody will ever print and which the next start fails.
* **`registry_overlap`.** `README.md:195` says printer I/O is serialized by one
  worker per printer. A submission looks its worker up before its job has a
  record, so `has_open_jobs` (`api.rs:892`) does not see it; the worker is
  replaced, and the job goes to the replaced thread, which delivers it while the
  new one delivers others.
* **`registry_account`.** `README.md:106` says all media mutations are serialized
  with printing. A reconfiguration (`api.rs:913`) waits for open jobs only; the
  old worker may still be charging the job it has just recorded as accepted,
  while the new worker charges another to the same `media.json`. The later save
  wipes out the earlier one.
* **`settings_late`.** `README.md:72` says no job or poll can interleave. On a
  character device or USB endpoint a query that timed out is answered later
  (`transport.rs:308`), the next query reads that answer, the revision check
  passes on a stale configuration, and ^JUS saves settings changed in between.

## 6. What is not modelled

* **Configuration and agent identity**: validation of a file before anything
  runs, and an id that is created once.
* **mDNS, metrics, web interface, authorisation, hash, packaging, scripts**: I/O,
  rendering and static checks; they change no state another part depends on.
* **USB discovery** (`transport.rs:45`): a listing that nothing else reads.
* **The text of replies and labels**: the `^HH` and `~HS` formats, pixels and
  `^GF`, base64 and hashes. The models keep what a decision depends on: whose
  reply it is, whether two configurations or requests are equal, how many labels
  a page asks for.
* **The seeding of `printers.json`** at the first start, the lock of the data
  directory, spool files.
* Within modelled parts, the abstractions that section 2 lists.

## 7. The plan

Done, in this order: PrintJobs with JobPromise (the core: what reaches paper),
MediaLedger with RollAccount, SettingsSave and their proofs; then Registry,
EventLog, Probes and LabelCount; then the proofs about the logs, about admission,
about queues, about what is charged and what the ledger says of it, about
what a settings save saves, about probes, about the registry, about clients that
follow the events, about label counts, and about settings and probes on devices.

Next model: several printers in the boot accounting.

## 8. Running it

    tlc -config PrintJobsFaults.cfg MCPrintJobs     # and so on for each cfg
    tlapm PrintJobsProofs.tla

The runs take from seconds to about three minutes each on two cores; Registry is the
largest.
The longest proofs are RegistryProofs and PrintJobsProofs, a few minutes each;
AdmissionProofs builds on the latter.
