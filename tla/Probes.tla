--------------------------------- MODULE Probes ---------------------------------
(***************************************************************************)
(* A printer's worker thread and its transport, as far as they look at the  *)
(* printer: the queries of a probe, what the snapshot says afterwards, and  *)
(* the estimate that is charged when a printer comes back.  Jobs and         *)
(* maintenance commands use the same transport and can leave half a command *)
(* or an unread reply behind.                                                *)
(*                                                                         *)
(* The printer is external: it answers the queries its firmware knows, late  *)
(* or never, loses power and comes back.  A character or USB device is one   *)
(* channel for everything; over TCP every query has a connection to itself.  *)
(***************************************************************************)
EXTENDS Naturals, Sequences, FiniteSets

CONSTANTS
    BaseQueries, OptionalQueries,   \* names, in the order they are asked
    Odometer,       \* the optional query that hardware_counters may disable
    Firmwares,      \* sets of queries a printer may know
    Kinds,          \* of transport
    UsbDevices,     \* what else is attached to the host's USB
    UsbSerial,      \* the serial number in the configuration, or "unset"
    Budget          \* bounds: power failures, faults of the link or restarts, commands

Queries == BaseQueries \o OptionalQueries
Names(s) == {s[i] : i \in DOMAIN s}

ASSUME QueriesAssumption == /\ BaseQueries \in Seq(STRING) /\ OptionalQueries \in Seq(STRING)
                            /\ BaseQueries # <<>> /\ Odometer \in Names(OptionalQueries)
                            /\ "job" \notin Names(Queries)
ASSUME KindsAssumption == Kinds \subseteq {"tcp", "char", "usb", "usb_out"}
ASSUME DevicesAssumption ==
    /\ UsbDevices \subseteq [ids : BOOLEAN, serial : STRING, readable : BOOLEAN,
                              endpoints : SUBSET {"in", "out"}]
    /\ UsbSerial \in {"own", "unset"}
    /\ UsbSerial = "unset" => \A d \in UsbDevices : ~d.ids
    /\ \A d \in UsbDevices : d.serial # "own"
ASSUME BudgetAssumption == Budget \in [power : Nat, fault : Nat, command : Nat]

VARIABLES
    kind, disabled,     \* the transport; hardware_counters = "disabled"
    \* -- the printer and what is between it and the worker ------------------------
    firmware, power,
    owed,               \* replies that are due on the open channel, in their order
    half,               \* what the printer has received in part: nothing, a command, a job
    \* -- the worker ----------------------------------------------------------------
    transport,          \* the open transport, or Closed
    pc, at,             \* where it stands; the query it asks
    caps, any,          \* capabilities are probed as well; a base query was answered
    attempt,            \* of a delivery
    ever, away,         \* ever_connected; disconnected_at: "no", "recent", "old"
    \* -- the snapshot --------------------------------------------------------------
    present, open, up,  \* transport.present, .open, .protocol_up (FALSE: unknown, too)
    ready,              \* status.ready is true
    response,           \* the last raw_responses entry: its name, whose replies it has
    cap, feed,          \* capabilities, counters.manual_feed_detection
    \* -- observers -----------------------------------------------------------------
    late,               \* a device still owed something when nobody waited for it
    gap,                \* time since the first failed probe after the last success
    charged,            \* how often the reconnect loss was charged
    budget

configVars   == <<kind, disabled, firmware>>
lineVars     == <<owed, half, late>>
probeVars    == <<at, caps, any>>
absenceVars  == <<ever, away, gap, charged>>
presenceVars == <<present, open>>
answerVars   == <<up, ready, response, cap, feed>>
vars == <<configVars, power, lineVars, transport, pc, probeVars, attempt, absenceVars,
          presenceVars, answerVars, budget>>

Spend(thing, n) == budget[thing] >= n /\ budget' = [budget EXCEPT ![thing] = @ - n]

Tcp == kind = "tcp"

\* A transport that is closed; one that was just opened.  Only a TCP transport has a
\* stream that may be missing, and remembers whether it wrote since it connected.
Closed == [stream |-> "closed", wrote |-> FALSE]
Opened == [stream |-> "live", wrote |-> FALSE]
Streamless == [stream |-> "none", wrote |-> FALSE]

NoResponse == [query |-> "none", replies |-> {}]

Fresh == /\ transport = Closed /\ pc = "idle" /\ at = 1 /\ caps = FALSE /\ any = FALSE
         /\ attempt = 0 /\ ever = FALSE /\ away = "no" /\ gap = "no"
         /\ present = "unknown" /\ open = FALSE /\ up = FALSE /\ ready = FALSE /\ response = NoResponse
         /\ cap = [q \in Names(OptionalQueries) |-> "unknown"] /\ feed = "unknown"

Init == /\ kind \in Kinds /\ disabled \in BOOLEAN /\ firmware \in Firmwares
        /\ power \in BOOLEAN /\ owed = <<>> /\ half = "nothing" /\ late = FALSE
        /\ Fresh
        /\ charged = 0 /\ budget = Budget

-----------------------------------------------------------------------------
(* The transport: opening, closing and writing, as sets of outcomes.         *)

\* UsbBulkTransport::open looks for a device of the model; with a serial number to
\* compare it opens each of them and gives up if one cannot be opened.  There must
\* be exactly one, with an interface that has a bulk OUT endpoint.
Select(devices, serial) ==
    LET candidates == {d \in devices : d.ids}
        matching   == {d \in candidates : serial \in {"unset", d.serial}}
    IN IF \/ serial # "unset" /\ \E d \in candidates : ~d.readable
          \/ Cardinality(matching) # 1
       THEN {} ELSE {d \in matching : "out" \in d.endpoints /\ d.readable}

\* This printer, as a USB device.
Device == [ids |-> TRUE, serial |-> "own", readable |-> TRUE,
           endpoints |-> IF kind = "usb" THEN {"in", "out"} ELSE {"out"}]

\* TcpTransport::open and connect, CharDeviceTransport::open: the printer must be on.
Found == /\ power
         /\ kind \in {"usb", "usb_out"} =>
                Select(UsbDevices \cup {Device}, UsbSerial) = {Device}

\* transport::open; it may also fail as a fault of the link.
Opens == (IF Found THEN {[ok |-> TRUE, cost |-> 0]} ELSE {})
             \cup {[ok |-> FALSE, cost |-> IF Found THEN 1 ELSE 0]}

\* Mutant: a failure to open is not noted.
EnsureQuietly ==
    IF transport # Closed
    THEN {[ok |-> TRUE, cost |-> 0, transport |-> transport, present |-> present, open |-> open]}
    ELSE {[ok |-> o.ok, cost |-> o.cost,
           transport |-> IF o.ok THEN Opened ELSE Closed,
           present |-> IF o.ok THEN "yes" ELSE present,
           open |-> o.ok \/ open] : o \in Opens}

EnsureTransport ==
    IF transport # Closed
    THEN {[ok |-> TRUE, cost |-> 0, transport |-> transport, present |-> present, open |-> open]}
    ELSE {[ok |-> o.ok, cost |-> o.cost,
           transport |-> IF o.ok THEN Opened ELSE Closed,
           present |-> IF o.ok THEN "yes" ELSE "unavailable",
           open |-> o.ok] : o \in Opens}

\* What is on the way is lost with a TCP connection; a device keeps it.
Disconnected == IF Tcp THEN [owed |-> <<>>, half |-> "nothing"]
                       ELSE [owed |-> owed, half |-> half]

Close == /\ transport' = Closed
         /\ owed' = Disconnected.owed /\ half' = Disconnected.half

\* The reply to a query; half a command in front of it may swallow it.
Replies(q) == (IF q \in firmware THEN {<<q>>} ELSE {<<>>})
                  \cup (IF half # "nothing" THEN {<<>>} ELSE {})

\* Mutant: the flag that asks for a connection of one's own is never set.
WroteNever(t) == t

Wrote(t) == [t EXCEPT !.wrote = TRUE]

Outcome(done, cost, t, o, h) ==
    [done |-> done, cost |-> cost, transport |-> t, owed |-> o, half |-> h]

\* Writing bytes of some kind to a TCP transport, with the reply they ask for; all of
\* them are taken, some or none, and the kernel also takes them for a peer that is
\* gone.  A missing stream is connected first.
WriteStream(t, what, reply) ==
    LET connect == t.stream = "none"
        on == IF connect THEN Opened ELSE t
        o  == IF connect THEN <<>> ELSE owed
        h  == IF connect THEN "nothing" ELSE half
    IN IF connect /\ ~Found THEN {Outcome("none", 0, t, owed, half)}
       ELSE (IF connect THEN {Outcome("none", 1, t, owed, half)} ELSE {}) \cup
            IF on.stream = "live"
            THEN {Outcome("all", 0, Wrote(on), o \o reply, "nothing"),
                  Outcome("part", 1, on, o, what), Outcome("none", 1, on, o, h)}
            ELSE {Outcome("all", 0, Wrote(on), o, h), Outcome("none", 0, on, o, h)}

\* The same for a character device or a USB endpoint: the write stops at an error,
\* at zero bytes or at its deadline.
WriteDevice(t, what, reply) ==
    IF t.stream = "dead" THEN {Outcome("none", 0, t, owed, half)}
    ELSE {Outcome("all", 0, t, owed \o reply, "nothing"),
          Outcome("part", 1, t, owed, what), Outcome("none", 1, t, owed, half)}

Write(t, what, reply) == IF Tcp THEN WriteStream(t, what, reply)
                         ELSE WriteDevice(t, what, reply)

-----------------------------------------------------------------------------
(* A probe: ensure_transport, the queries, the snapshot.                     *)

\* Mutant: the absence is counted from the last failed probe.
AbsenceOfLast(a) == "recent"

Absence(a) == IF a = "no" THEN "recent" ELSE a

\* Mutant: a transport that does not answer is kept.
FailedKept == /\ away' = IF ever THEN Absence(away) ELSE away
              /\ gap' = IF gap = "no" THEN "recent" ELSE gap
              /\ UNCHANGED <<ever, charged, transport, lineVars>>

\* run, after a failed probe: the absence begins, the transport is given up; a
\* transport that never answered is kept.
Failed == /\ away' = IF ever THEN Absence(away) ELSE away
          /\ gap' = IF gap = "no" THEN "recent" ELSE gap
          /\ IF ever THEN Close /\ UNCHANGED late ELSE UNCHANGED <<transport, lineVars>>
          /\ UNCHANGED <<ever, charged>>

\* run, after a successful one: a long absence is charged.
Succeeded == /\ charged' = IF ever /\ away = "old" THEN charged + 1 ELSE charged
             /\ ever' = TRUE /\ away' = "no" /\ gap' = "no"
             /\ UNCHANGED <<transport, lineVars>>

BeginProbe(c) ==
    \E e \in EnsureTransport :
        /\ pc = "idle" /\ e.ok /\ Spend("fault", e.cost)
        /\ transport' = e.transport /\ present' = e.present /\ open' = e.open
        /\ pc' = "ask" /\ at' = 1 /\ caps' = c /\ any' = FALSE
        /\ UNCHANGED <<configVars, power, lineVars, attempt, absenceVars, answerVars>>

\* The probe returns before it looked at anything.
ProbeUnopened ==
    \E e \in EnsureTransport :
        /\ pc = "idle" /\ ~e.ok /\ Spend("fault", e.cost)
        /\ present' = e.present /\ open' = e.open
        /\ Failed
        /\ UNCHANGED <<configVars, power, pc, probeVars, attempt, answerVars>>

\* The first base query that fails ends the probe if none was answered before;
\* optional queries are asked only for capabilities.
Proceed(ok) ==
    /\ any' = (any \/ ok)
    /\ IF any' /\ at < (IF caps THEN Len(Queries) ELSE Len(BaseQueries))
       THEN at' = at + 1 /\ pc' = "ask"
       ELSE at' = 1 /\ pc' = "publish"
    /\ UNCHANGED <<caps, attempt>>

\* parse_known finds the status in the printer's own reply to the query for it.
Parsed(q, replies) == q = BaseQueries[1] /\ q \in replies

\* Query at ended with an answer (its bytes hold these replies), or an error.
Conclude(ok, replies, verdict) ==
    LET q == Queries[at] IN
    /\ response' = [query |-> q, replies |-> replies]
    /\ ready' = (ready \/ Parsed(q, replies))
    /\ cap' = IF at > Len(BaseQueries) THEN [cap EXCEPT ![q] = verdict] ELSE cap
    /\ Proceed(ok)
    /\ UNCHANGED <<configVars, power, absenceVars, presenceVars, up, feed>>

Skipped == disabled /\ Queries[at] = Odometer

SkipOdometer ==
    /\ pc = "ask" /\ Skipped
    /\ cap' = [cap EXCEPT ![Odometer] = "not_supported"]
    /\ Proceed(FALSE)
    /\ UNCHANGED <<configVars, power, lineVars, transport, absenceVars, presenceVars,
                   up, ready, response, feed, budget>>

\* TcpTransport::query: a connection that was written to is replaced.
AskTcp ==
    LET connect == transport.wrote \/ transport.stream = "none"
        live    == connect \/ transport.stream = "live"
        mixed   == ~connect /\ half # "nothing"
        own     == IF connect /\ Queries[at] \in firmware THEN {<<Queries[at]>>}
                   ELSE IF connect THEN {<<>>} ELSE {owed \o r : r \in Replies(Queries[at])}
    IN /\ pc = "ask" /\ ~Skipped /\ Tcp
       /\ transport' = Streamless /\ UNCHANGED late
       /\ \/ /\ (connect => Found) /\ pc' = "reply" /\ half' = "nothing"
             /\ owed' \in (IF live THEN own ELSE {<<>>})
             /\ UNCHANGED <<configVars, power, probeVars, attempt, absenceVars,
                            presenceVars, answerVars, budget>>
          \/ /\ Spend("fault", IF connect /\ Found THEN 1 ELSE 0) /\ (live => connect)
             /\ owed' = <<>> /\ half' = "nothing"
             /\ Conclude(FALSE, {}, "unavailable")

\* write_all of a command on a channel that stays; half of one may get through.
AskDevice ==
    \E r \in Replies(Queries[at]) : \E w \in WriteDevice(transport, "command", r) :
        /\ pc = "ask" /\ ~Skipped
        /\ Spend("fault", w.cost)
        /\ transport' = w.transport /\ owed' = w.owed /\ half' = w.half /\ UNCHANGED late
        /\ IF w.done = "all"
           THEN /\ pc' = "reply"
                /\ UNCHANGED <<configVars, power, probeVars, attempt, absenceVars,
                               presenceVars, answerVars>>
           ELSE Conclude(FALSE, {}, "unavailable")

AskChar == kind = "char" /\ AskDevice

\* A USB printer without a bulk IN endpoint is not even asked.
AskUsb ==
    \/ kind = "usb" /\ AskDevice
    \/ /\ pc = "ask" /\ ~Skipped /\ kind = "usb_out"
       /\ Conclude(FALSE, {}, "unavailable")
       /\ UNCHANGED <<transport, lineVars, budget>>

\* The connection of a TCP query ends with it, and with what is still to come.
Left(rest) == IF Tcp THEN <<>> ELSE rest

\* On a device it comes to whoever asks next.
LeaveDue == late' = (late \/ (~Tcp /\ owed' # <<>>))

\* The bytes that arrive until the line is idle: of the first reply due, or of more.
Answered ==
    /\ pc = "reply"
    /\ \E n \in 1..Len(owed) :
          /\ owed' = Left(SubSeq(owed, n + 1, Len(owed)))
          /\ Conclude(TRUE, Names(SubSeq(owed, 1, n)), "value")
    /\ LeaveDue
    /\ UNCHANGED <<transport, half, budget>>

\* No byte in time, or the connection is closed or breaks.
Unanswered ==
    /\ pc = "reply" /\ Spend("fault", IF owed = <<>> THEN 0 ELSE 1)
    /\ owed' = Left(owed) /\ LeaveDue
    /\ Conclude(FALSE, {}, "unavailable")
    /\ UNCHANGED <<transport, half>>

ReadTcp == Tcp /\ (Answered \/ Unanswered)

\* On a character device a late reply stays due; it may also be read as empty, which
\* counts as an answer.
ReadChar ==
    /\ kind = "char"
    /\ \/ Answered \/ Unanswered
       \/ /\ pc = "reply" /\ Spend("fault", 1)
          /\ Conclude(TRUE, {}, "not_supported")
          /\ UNCHANGED <<transport, owed, half>> /\ LeaveDue

ReadUsb == kind = "usb" /\ (Answered \/ Unanswered)

\* manual_feed_detection follows the capability, by its name here.
Publish ==
    /\ pc = "publish" /\ pc' = "idle"
    /\ feed' = IF caps THEN cap[Odometer] ELSE feed
    /\ up' = any
    /\ IF any THEN Succeeded ELSE Failed
    /\ at' = 1 /\ caps' = FALSE /\ any' = FALSE
    /\ UNCHANGED <<configVars, power, attempt, presenceVars, ready, response, cap, budget>>

-----------------------------------------------------------------------------
(* Maintenance commands and deliveries.                                      *)

Maintain ==
    /\ pc = "idle" /\ budget.command > 0
    /\ \E e \in EnsureTransport :
          /\ present' = e.present /\ open' = e.open
          /\ IF ~e.ok
             THEN /\ budget' = [budget EXCEPT !.command = @ - 1, !.fault = @ - e.cost]
                  /\ UNCHANGED <<transport, owed, half>>
             ELSE \E w \in Write(e.transport, "command", <<>>) :
                    /\ budget' = [budget EXCEPT !.command = @ - 1, !.fault = @ - w.cost]
                    /\ transport' = w.transport /\ owed' = w.owed /\ half' = w.half
    /\ budget'.fault >= 0
    /\ UNCHANGED <<late, configVars, power, pc, probeVars, attempt, absenceVars, answerVars>>

Deliver ==
    /\ pc = "idle" /\ Spend("command", 1)
    /\ pc' = "deliver" /\ attempt' = 1
    /\ UNCHANGED <<configVars, power, lineVars, transport, probeVars, absenceVars,
                   presenceVars, answerVars>>

\* Mutant: a delivery is tried once more than it may.
AttemptsOffByOne == 4

Attempts == 3

\* Of an attempt that failed: the transport is given up.
Settled(w) == /\ transport' = Closed
              /\ owed' = IF Tcp THEN <<>> ELSE w.owed
              /\ half' = IF Tcp THEN "nothing" ELSE w.half

\* One round of process_job's loop; the job may hold a query of its own.
Attempt ==
    /\ pc = "deliver"
    /\ \E e \in EnsureTransport, asks \in {<<>>, <<"job">>} :
       \E w \in IF e.ok THEN Write(e.transport, "job", asks)
                ELSE {[done |-> "none", cost |-> e.cost, transport |-> Closed,
                       owed |-> owed, half |-> half]} :
          /\ present' = e.present /\ open' = e.open
          /\ Spend("fault", w.cost)
          /\ IF w.done = "all"
             THEN transport' = w.transport /\ owed' = w.owed /\ half' = w.half
             ELSE Settled(w)
          /\ LeaveDue
          /\ IF w.done = "none" /\ attempt < Attempts
             THEN attempt' = attempt + 1 /\ UNCHANGED pc
             ELSE attempt' = 0 /\ pc' = "idle"
    /\ UNCHANGED <<configVars, power, probeVars, absenceVars, answerVars>>

-----------------------------------------------------------------------------
(* The printer, the clock and the process.                                   *)

PowerOff ==
    /\ power /\ Spend("power", 1)
    /\ power' = FALSE /\ owed' = <<>> /\ half' = "nothing" /\ UNCHANGED late
    /\ transport' = [transport EXCEPT !.stream = IF @ = "live" THEN "dead" ELSE @]
    /\ UNCHANGED <<configVars, pc, probeVars, attempt, absenceVars, presenceVars,
                   answerVars>>

PowerOn ==
    /\ ~power /\ power' = TRUE
    /\ UNCHANGED <<configVars, lineVars, transport, pc, probeVars, attempt, absenceVars,
                   presenceVars, answerVars, budget>>

\* The debounce period passes.
Elapse ==
    /\ "recent" \in {away, gap}
    /\ away' = (IF away = "recent" THEN "old" ELSE away)
    /\ gap' = (IF gap = "recent" THEN "old" ELSE gap)
    /\ UNCHANGED <<configVars, power, lineVars, transport, pc, probeVars, attempt, ever,
                   charged, presenceVars, answerVars, budget>>

\* A new worker knows nothing: its snapshot is new, and so is its idea of absence.  A
\* device may still owe what the one before had asked for.
Restart ==
    /\ Spend("fault", 1)
    /\ Close /\ late' = (~Tcp /\ owed # <<>>)
    /\ pc' = "idle" /\ at' = 1 /\ caps' = FALSE /\ any' = FALSE /\ attempt' = 0
    /\ ever' = FALSE /\ away' = "no" /\ gap' = "no"
    /\ present' = "unknown" /\ open' = FALSE /\ up' = FALSE /\ ready' = FALSE
    /\ response' = NoResponse
    /\ cap' = [q \in Names(OptionalQueries) |-> "unknown"] /\ feed' = "unknown"
    /\ UNCHANGED <<configVars, power, charged>>

-----------------------------------------------------------------------------
Poll == ProbeUnopened \/ \E c \in BOOLEAN : BeginProbe(c)
Work == \/ SkipOdometer \/ AskTcp \/ AskChar \/ AskUsb
        \/ ReadTcp \/ ReadChar \/ ReadUsb
        \/ Publish \/ Attempt

Next == \/ Poll \/ Work \/ Maintain \/ Deliver
        \/ PowerOff \/ PowerOn \/ Elapse \/ Restart

\* The timers of main poll for ever, and the worker's thread runs on.
Fairness == WF_vars(Poll) /\ WF_vars(Work)

Spec == Init /\ [][Next]_vars
FairSpec == Spec /\ Fairness

-----------------------------------------------------------------------------
(* Properties *)

Verdicts == {"unknown", "value", "not_supported", "unavailable"}

TypeOK ==
    /\ kind \in Kinds /\ disabled \in BOOLEAN /\ firmware \in Firmwares /\ power \in BOOLEAN
    /\ owed \in Seq(Names(Queries) \cup {"job"}) /\ half \in {"nothing", "command", "job"}
    /\ transport \in [stream : {"closed", "none", "live", "dead"}, wrote : BOOLEAN]
    /\ pc \in {"idle", "ask", "reply", "publish", "deliver"} /\ at \in DOMAIN Queries
    /\ caps \in BOOLEAN /\ any \in BOOLEAN
    /\ attempt \in 0..3 /\ (attempt > 0 <=> pc = "deliver")
    /\ ever \in BOOLEAN /\ {away, gap} \subseteq {"no", "recent", "old"}
    /\ present \in {"unknown", "yes", "unavailable"} /\ open \in BOOLEAN
    /\ up \in BOOLEAN /\ ready \in BOOLEAN
    /\ response.query \in Names(Queries) \cup {"none"}
    /\ response.replies \subseteq Names(Queries) \cup {"job"}
    /\ cap \in [Names(OptionalQueries) -> Verdicts] /\ feed \in Verdicts
    /\ charged \in Nat /\ late \in BOOLEAN
    /\ budget \in [power : Nat, fault : Nat, command : Nat]

\* "Reported as supported only after a response; an offline timeout remains
\* unavailable, not not_supported."  Over TCP, where every query has a connection to
\* itself, this is so on every way through a probe, and on a device until a reply is
\* left to whoever asks next (a query given up, a job that asks): what is recorded as
\* a response is the reply to that query, no late one and none that a delivered job
\* asked for; a capability has a value only if the printer knows the query and is
\* unsupported only if it was disabled, or was read as empty from a character device;
\* the status and the detection of manual feeds rest on the same replies.
CapabilityHonest ==
    Tcp \/ ~late =>
        /\ response.replies \subseteq {response.query}
        /\ ready => BaseQueries[1] \in firmware
        /\ \A q \in Names(OptionalQueries) :
              /\ cap[q] = "value" => q \in firmware
              /\ cap[q] = "not_supported" => (disabled /\ q = Odometer) \/ kind = "char"
        /\ feed = "value" => Odometer \in firmware /\ ~disabled

\* A probe that succeeds charges the reconnect loss exactly when the printer was
\* known, probes failed since, and the first of them did so more than the debounce
\* period ago: once for an outage, however often it was polled meanwhile.
ReconnectCharged ==
    [][pc = "publish" /\ any /\ pc' = "idle" /\ ever' =>
          charged' = charged + (IF ever /\ gap = "old" THEN 1 ELSE 0)]_vars

\* A printer that stays on, knows the first query and can answer is reported as up
\* in the end and stays so, whatever was broken before, if the transport opens per
\* query or the printer has answered since the worker began, and on USB no other
\* device of the model is closed to the agent.  (A device that was
\* opened but never answered is kept, even if it was unplugged since.)
Recovers ==
    <>[](/\ power /\ kind # "usb_out" /\ BaseQueries[1] \in firmware
         /\ \A d \in UsbDevices : d.ids => d.readable
         /\ Tcp \/ ever)
        => <>[]up

\* A printer that stays off is not shown as open and up for ever.  (Each of the two
\* may stay: protocol_up does when a delivery gave the transport up before a probe
\* failed, because a probe that cannot open returns before it publishes.)
AbsenceShown == <>[]~power => <>[]~(open /\ up)

=================================================================================
