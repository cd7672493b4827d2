------------------------------- MODULE EventLog -------------------------------
(***************************************************************************)
(* The append-only logs of PrintAgent and the clients that page through    *)
(* them: jobs.ndjson, the index of jobs, written by the one submission     *)
(* that holds the idempotency lock, and events.ndjson, which submissions,  *)
(* workers and the printer registry write at the same time.                *)
(*                                                                         *)
(* append_ndjson writes a value and then a newline, through a file handle   *)
(* of its own and without a lock, so values of two writers can share a      *)
(* line; a crash or an error leaves a value in part or without its newline. *)
(* A reader parses line by line and gives up at a line it cannot parse.     *)
(***************************************************************************)
EXTENDS Naturals, Sequences, FiniteSets, SequencesExt

CONSTANTS
    Jobs,       \* submissions
    Worker,     \* a printer's worker thread
    Admins,     \* requests that save a printer
    Clients,    \* who follows a log: "jobs", "events", or a job whose events are read
    Limits,     \* what clients ask as page size
    MaxLimit,   \* the largest page (200 in the code)
    Torn,       \* a value that was written in part
    None,
    Budget      \* bounds: crashes and failed writes, records that cannot be read

Writers == Jobs \cup {Worker} \cup Admins

Events == [kind : {"none", "queued", "writing", "updated"}, job : Jobs \cup {None},
           sequence : Nat]

ASSUME IdsAssumption == /\ {Worker, Torn, None} \cap (Jobs \cup Admins) = {}
                        /\ Jobs \cap Admins = {} /\ Torn \notin {None} \cup Events
                        /\ IsFiniteSet(Jobs)
ASSUME ClientsAssumption == Clients \subseteq Jobs \cup {"jobs", "events"}
ASSUME LimitsAssumption == Limits \subseteq Nat /\ MaxLimit \in Nat \ {0}
ASSUME BudgetAssumption == Budget \in [stop : Nat, unreadable : Nat]

VARIABLES
    events, index,  \* the two files: [closed, open], lines and what follows the last newline
    job,            \* job -> "none", "queued", "begun": how far its record is
    up, lock, queue,
    pc,             \* writer -> where it stands
    event,          \* writer -> the event it is appending
    \* -- a client that follows one of the logs -------------------------------------
    client,         \* what it follows
    cursor,         \* the next_cursor it was given
    got, seen,      \* the events, the jobs it received
    skipped,        \* observer: jobs whose record could not be read when listed
    overlapped,     \* observer: an event was numbered while another was being appended
    budget

logVars     == <<events, index>>
processVars == <<job, up, lock, queue>>
clientVars  == <<client, cursor, got, seen, skipped>>
vars == <<logVars, processVars, pc, event, clientVars, overlapped, budget>>

Spend(kind, n) == budget[kind] >= n /\ budget' = [budget EXCEPT ![kind] = @ - n]

Empty    == [closed |-> <<>>, open |-> <<>>]
NoEvent  == [kind |-> "none", job |-> None, sequence |-> 0]

\* A log's lines as BufReader::lines returns them.
Lines(log) == log.closed \o (IF log.open = <<>> THEN <<>> ELSE <<log.open>>)

Put(log, value) == [log EXCEPT !.open = Append(@, value)]
EndLine(log)    == [closed |-> Append(log.closed, log.open), open |-> <<>>]

\* Does serde_json parse it?
Whole(line) == Len(line) = 1 /\ line[1] # Torn

\* Mutants: numbers start at 0; the next number is the one after next.
LineCount(log) == Len(Lines(log))
SequenceAfterNext(log) == Len(Lines(log)) + 2

NextSequence(log) == Len(Lines(log)) + 1

Init ==
    /\ events = Empty /\ index = Empty
    /\ job = [j \in Jobs |-> "none"]
    /\ up = TRUE /\ lock = None /\ queue = <<>>
    /\ pc = [x \in Writers |-> "idle"]
    /\ event = [x \in Writers |-> NoEvent]
    /\ client \in Clients
    /\ cursor = 0 /\ got = <<>> /\ seen = {} /\ skipped = {}
    /\ overlapped = FALSE
    /\ budget = Budget

-----------------------------------------------------------------------------
(* Appending to a log.                                                       *)

At(x, l) == pc' = [pc EXCEPT ![x] = l]
Appending == {x \in Writers : pc[x] \in {"event", "newline"}}

\* next_event: the number is counted before the append.
Number(x, kind, j) ==
    /\ event' = [event EXCEPT ![x] = [kind |-> kind, job |-> j,
                                      sequence |-> NextSequence(events)]]
    /\ overlapped' = (overlapped \/ Appending # {})
    /\ At(x, "event")

\* serde_json hands the value over in many small writes.  One step for them leaves
\* the same lines unreadable: a line with pieces of two values cannot be parsed, nor
\* one that is the rest of a value or empty.
WriteEvent(x) ==
    /\ pc[x] = "event"
    /\ events' = Put(events, event[x]) /\ At(x, "newline")
    /\ UNCHANGED <<index, processVars, event, clientVars, overlapped, budget>>

AfterEvent(x) == IF x \in Jobs THEN "enqueue" ELSE "idle"

WriteNewline(x) ==
    /\ pc[x] = "newline"
    /\ events' = EndLine(events) /\ At(x, AfterEvent(x))
    /\ UNCHANGED <<index, processVars, event, clientVars, overlapped, budget>>

\* A write fails, perhaps in the middle, or the sync after the last one.
Written(log, value) == {log, Put(log, Torn), EndLine(Put(log, value))}

-----------------------------------------------------------------------------
(* A submission: the tail of create_job and v2_create_job.                   *)

\* The lock is taken and the record is saved as Queued.
Acquire(j) ==
    /\ up /\ lock = None /\ pc[j] = "idle" /\ job[j] = "none"
    /\ lock' = j /\ job' = [job EXCEPT ![j] = "queued"]
    /\ At(j, "register")
    /\ UNCHANGED <<logVars, up, queue, event, clientVars, overlapped, budget>>

Register(j) ==
    /\ pc[j] = "register"
    /\ index' = Put(index, j) /\ At(j, "registered")
    /\ UNCHANGED <<events, processVars, event, clientVars, overlapped, budget>>

Registered(j) ==
    /\ pc[j] = "registered"
    /\ index' = EndLine(index) /\ At(j, "count")
    /\ UNCHANGED <<events, processVars, event, clientVars, overlapped, budget>>

\* Mutant: the job is handed to the worker before its event is written.
CountAndEnqueue(j) ==
    /\ pc[j] = "count"
    /\ Number(j, "queued", j)
    /\ queue' = Append(queue, j)
    /\ UNCHANGED <<logVars, job, up, lock, clientVars, budget>>

Count(j) ==
    /\ pc[j] = "count"
    /\ Number(j, "queued", j)
    /\ UNCHANGED <<logVars, processVars, clientVars, budget>>

Enqueue(j) ==
    /\ pc[j] = "enqueue"
    /\ queue' = Append(queue, j) /\ lock' = None /\ At(j, "idle")
    /\ UNCHANGED <<logVars, job, up, event, clientVars, overlapped, budget>>

\* An append fails: the request ends with an error, its job stays on disk.
SubmissionFails(j) ==
    /\ Spend("stop", 1)
    /\ \/ /\ pc[j] = "register" /\ index' \in Written(index, j) /\ UNCHANGED events
       \/ /\ pc[j] = "registered" /\ UNCHANGED logVars
       \/ /\ pc[j] = "event" /\ events' \in Written(events, event[j]) /\ UNCHANGED index
       \/ /\ pc[j] = "newline" /\ UNCHANGED logVars
    /\ lock' = None /\ At(j, "idle")
    /\ UNCHANGED <<job, up, queue, event, clientVars, overlapped>>

-----------------------------------------------------------------------------
(* The worker and the registry emit events; the worker ignores errors.       *)

Begin ==
    /\ pc[Worker] = "idle" /\ queue # <<>>
    /\ LET j == Head(queue) IN
       /\ job' = [job EXCEPT ![j] = "begun"]
       /\ Number(Worker, "writing", j)
    /\ queue' = Tail(queue)
    /\ UNCHANGED <<logVars, up, lock, clientVars, budget>>

Update(a) ==
    /\ up /\ pc[a] = "idle" /\ event[a] = NoEvent
    /\ Number(a, "updated", None)
    /\ UNCHANGED <<logVars, processVars, clientVars, budget>>

EmitFails(x) ==
    /\ Spend("stop", 1)
    /\ \/ pc[x] = "event" /\ events' \in Written(events, event[x])
       \/ pc[x] = "newline" /\ UNCHANGED events
    /\ At(x, "idle")
    /\ UNCHANGED <<index, processVars, event, clientVars, overlapped>>

-----------------------------------------------------------------------------
(* The end of the process tears what is being written; a start queues the    *)
(* jobs whose record is Queued.                                              *)

Crash ==
    /\ up /\ Spend("stop", 1)
    /\ up' = FALSE
    /\ events' \in {events} \cup
           (IF \E x \in Writers : pc[x] = "event" THEN {Put(events, Torn)} ELSE {})
    /\ index' \in {index} \cup
           (IF \E j \in Jobs : pc[j] = "register" THEN {Put(index, Torn)} ELSE {})
    /\ lock' = None /\ queue' = <<>>
    /\ pc' = [x \in Writers |-> "idle"]
    /\ UNCHANGED <<job, event, clientVars, overlapped>>

Start ==
    /\ ~up /\ up' = TRUE
    /\ queue' \in SetToSeqs({j \in Jobs : job[j] = "queued"})
    /\ UNCHANGED <<logVars, job, lock, pc, event, clientVars, overlapped, budget>>

-----------------------------------------------------------------------------
(* Reading pages.                                                            *)

Limit(n) == IF n < 1 THEN 1 ELSE IF n > MaxLimit THEN MaxLimit ELSE n

\* The n-th of a set of line numbers.
Rank(numbers, i) == Cardinality({k \in numbers : k <= i})
Nth(numbers, n)  == CHOOSE i \in numbers : Rank(numbers, i) = n

\* What stands on these lines, one after the other.
Entries(lines, numbers) ==
    [n \in 1..Cardinality(numbers) |-> lines[Nth(numbers, n)][1]]

\* The last line a page looks at: the one with its n-th entry, or the last of all.
Stop(found, lines, n) ==
    IF n <= Cardinality(found) THEN Nth(found, n) ELSE Len(lines)

Matches(line) == Whole(line) /\ (client = "events" \/ line[1].job = client)

\* Mutant: the cursor advances by the number of events returned.
NextCursorByCount(stop, count) == cursor + count

NextCursor(stop, count) == stop

\* read_ndjson_page; an error leaves the client where it was.
ReadEvents ==
    \E n \in Limits :
        LET lines == Lines(events)
            found == {i \in cursor + 1..Len(lines) : Matches(lines[i])}
            stop  == Stop(found, lines, Limit(n))
            page  == {i \in found : i <= stop}
        IN /\ up /\ client # "jobs" /\ cursor < Len(lines)
           /\ \A i \in cursor + 1..stop : Whole(lines[i])
           /\ got' = got \o Entries(lines, page)
           /\ cursor' = NextCursor(stop, Cardinality(page))
           /\ UNCHANGED <<logVars, processVars, pc, event, client, seen, skipped,
                          overlapped, budget>>

\* Mutant: the cursor advances by the size of the page asked for.
NextJobsByLimit(count, n) == cursor + n

NextJobs(count, n) == cursor + count

\* list_jobs_page; records that cannot be read are left out.
ListJobs ==
    \E n \in Limits, bad \in SUBSET Jobs :
        LET lines == Lines(index)
            Readable(line) == Whole(line) /\ line[1] \notin bad
            found == {i \in cursor + 1..Len(lines) : Readable(lines[i])}
            stop  == Stop(found, lines, Limit(n))
            page  == {i \in found : i <= stop}
        IN /\ up /\ client = "jobs" /\ cursor < Len(lines)
           /\ \A i \in cursor + 1..stop : Whole(lines[i])
           /\ bad \subseteq {lines[i][1] : i \in cursor + 1..stop}
           /\ Spend("unreadable", Cardinality(bad))
           /\ seen' = seen \cup {lines[i][1] : i \in page}
           /\ skipped' = skipped \cup bad
           /\ cursor' = NextJobs(Cardinality(page), Limit(n))
           /\ UNCHANGED <<logVars, processVars, pc, event, client, got, overlapped>>

-----------------------------------------------------------------------------
AppendStep(x) == WriteEvent(x) \/ WriteNewline(x)
SubmissionStep(j) == Register(j) \/ Registered(j) \/ Count(j) \/ Enqueue(j)

Next == \/ \E x \in Writers : AppendStep(x)
        \/ \E j \in Jobs : Acquire(j) \/ SubmissionStep(j) \/ SubmissionFails(j)
        \/ \E x \in {Worker} \cup Admins : EmitFails(x)
        \/ Begin
        \/ \E a \in Admins : Update(a)
        \/ Crash \/ Start
        \/ ReadEvents \/ ListJobs

Spec == Init /\ [][Next]_vars

-----------------------------------------------------------------------------
(* Properties *)

TypeOK ==
    /\ events.closed \in Seq(Seq(Events \cup {Torn})) /\ events.open \in Seq(Events \cup {Torn})
    /\ index.closed \in Seq(Seq(Jobs \cup {Torn})) /\ index.open \in Seq(Jobs \cup {Torn})
    /\ job \in [Jobs -> {"none", "queued", "begun"}]
    /\ up \in BOOLEAN /\ lock \in Jobs \cup {None} /\ queue \in Seq(Jobs)
    /\ pc \in [Writers -> {"idle", "register", "registered", "count", "event",
                           "newline", "enqueue"}]
    /\ \A j \in Jobs : pc[j] # "idle" => lock = j
    /\ event \in [Writers -> Events]
    /\ client \in Clients /\ cursor \in Nat /\ got \in Seq(Events)
    /\ seen \subseteq Jobs /\ skipped \subseteq Jobs
    /\ overlapped \in BOOLEAN
    /\ budget \in [stop : Nat, unreadable : Nat]

Undisturbed == budget.stop = Budget.stop

\* While nothing crashes and no write fails every line of the logs can be read.  The
\* appends of register_job never share a line, because they are made under the lock;
\* those of append_event share none, and number their events by line, as long as no
\* event is numbered while another one is being appended.  (With a crash a line may
\* be damaged, and every later page that reaches it fails: the readers have no way
\* past a line they cannot parse.)
LogsIntact ==
    Undisturbed =>
        /\ \A i \in DOMAIN index.closed : Whole(index.closed[i])
        /\ ~overlapped => \A i \in DOMAIN events.closed :
               Whole(events.closed[i]) /\ events.closed[i][1].sequence = i

\* Whatever overlaps, crashes and fails, the number in an event is never greater
\* than the number of its line: a client that goes on from the last sequence
\* number it knows may read events again but skips none (next_sequence counts
\* a line that is still being written, append_ndjson never starts a new one).
SequenceSafe ==
    \A i \in DOMAIN events.closed :
        Whole(events.closed[i]) => events.closed[i][1].sequence <= i

\* Who reads the log from the beginning meets a job's job_queued event before the
\* worker's job_writing, if both can be read: the handler appends before it
\* enqueues, and after a restart the worker appends behind it.
QueuedFirst ==
    LET c == events.closed
        Says(i, kind, j) == Whole(c[i]) /\ c[i][1].kind = kind /\ c[i][1].job = j
    IN \A j \in Jobs, i, k \in DOMAIN c :
           Says(i, "writing", j) /\ Says(k, "queued", j) => k < i

\* A client that follows next_cursor has received exactly the events of its job
\* on the lines up to its cursor, in their order, each once, as long as none of
\* these lines was damaged after it was read.
FollowerExact ==
    LET lines == Lines(events)
        kept  == {i \in 1..cursor : Matches(lines[i])}
    IN client # "jobs" /\ (\A i \in 1..cursor : Whole(lines[i])) =>
           got = Entries(lines, kept)

\* A client that lists the jobs page by page misses none: every job on a line
\* before its cursor was returned, or its record could not be read just then.
\* (next_cursor counts the jobs returned, so it lags behind after such a record
\* and some jobs are returned again.)
NoJobMissed ==
    client = "jobs" =>
        \A i \in DOMAIN Lines(index) :
            i <= cursor /\ Whole(Lines(index)[i]) => Lines(index)[i][1] \in seen \cup skipped

===============================================================================
