---------------------------- MODULE EventLogProofs ----------------------------
(***************************************************************************)
(* What holds of the two logs for any number of writers, crashes and failed *)
(* writes: the numbers of events never run ahead of their lines, a job is   *)
(* announced as queued before it is announced as begun, a client that       *)
(* follows the events receives those of its job once and in order, and one  *)
(* that pages through the jobs misses none.  While nothing crashes and no   *)
(* write fails, the lines are whole as long as events are numbered one      *)
(* after the other.                                                         *)
(***************************************************************************)
EXTENDS EventLog, FiniteSetTheorems, TLAPS

Labels == {"idle", "register", "registered", "count", "event", "newline", "enqueue"}

\* The files that hold values of S, some of them torn.
Files(S)   == [closed : Seq(Seq(S \cup {Torn})), open : Seq(S \cup {Torn})]
EventFiles == Files(Events)
IndexFiles == Files(Jobs)

Typed ==
    /\ events \in EventFiles /\ index \in IndexFiles
    /\ queue \in Seq(Jobs)
    /\ pc \in [Writers -> Labels] /\ event \in [Writers -> Events]
    /\ DOMAIN budget = {"stop", "unreadable"} /\ budget.stop \in Nat
    /\ budget.stop <= Budget.stop

\* Who is inside a submission holds the idempotency lock.
Held == \A j \in Jobs : pc[j] # "idle" => lock = j

-----------------------------------------------------------------------------
(* Numbers and lines of one log.                                             *)

\* The number of an event that can be read is at most the number of its line.
Lagging(log) ==
    /\ \A i \in DOMAIN log.closed :
           Whole(log.closed[i]) => log.closed[i][1].sequence <= i
    /\ Whole(log.open) => log.open[1].sequence <= Len(log.closed) + 1

\* The event that is about to be written will not run ahead of its line.
Pending == \A x \in Writers :
               pc[x] = "event" => event[x].sequence <= Len(Lines(events)) + 1

LEMMA PutFile ==
    ASSUME NEW S, NEW log \in Files(S), NEW value \in S \cup {Torn}
    PROVE  /\ Put(log, value) = [closed |-> log.closed, open |-> Append(log.open, value)]
           /\ Put(log, value) \in Files(S)
  <1>1. /\ log.closed \in Seq(Seq(S \cup {Torn})) /\ log.open \in Seq(S \cup {Torn})
        /\ log = [closed |-> log.closed, open |-> log.open]
    BY DEF Files
  <1>2. Append(log.open, value) \in Seq(S \cup {Torn})
    BY <1>1
  <1> DEFINE o == Append(log.open, value)
  <1>3. Put(log, value) = [log EXCEPT !.open = o]
    BY DEF Put
  <1> HIDE DEF o
  <1>4. [log EXCEPT !.open = o] = [closed |-> log.closed, open |-> o]
    BY <1>1
  <1> QED BY <1>1, <1>2, <1>3, <1>4 DEF Files, o

LEMMA EndLineFile ==
    ASSUME NEW S, NEW log \in Files(S)
    PROVE  EndLine(log) \in Files(S)
  BY DEF Files, EndLine

LEMMA LinesLength ==
    ASSUME NEW S, NEW log \in Files(S)
    PROVE  /\ Lines(log) \in Seq(Seq(S \cup {Torn})) /\ Len(log.closed) \in Nat
           /\ log.open = <<>> => Len(Lines(log)) = Len(log.closed)
           /\ log.open # <<>> => Len(Lines(log)) = Len(log.closed) + 1
  <1>1. /\ log.closed \in Seq(Seq(S \cup {Torn})) /\ <<log.open>> \in Seq(Seq(S \cup {Torn}))
        /\ <<>> \in Seq(Seq(S \cup {Torn}))
    BY DEF Files
  <1>2. CASE log.open = <<>>
    <2>1. Lines(log) = log.closed \o <<>>
      BY <1>2 DEF Lines
    <2> QED BY <1>1, <1>2, <2>1
  <1>3. CASE log.open # <<>>
    <2>1. Lines(log) = log.closed \o <<log.open>>
      BY <1>3 DEF Lines
    <2>2. Len(Lines(log)) = Len(log.closed) + Len(<<log.open>>)
      BY <1>1, <2>1
    <2>3. Len(<<log.open>>) = 1 /\ Len(log.closed) \in Nat
      BY <1>1
    <2>4. Lines(log) \in Seq(Seq(S \cup {Torn}))
      BY <1>1, <2>1
    <2> QED BY <1>3, <2>2, <2>3, <2>4
  <1> QED BY <1>2, <1>3

\* What is written behind an unfinished line makes that line unreadable; what begins
\* a line was numbered for it or for an earlier one.
LEMMA PutLags ==
    ASSUME NEW log \in EventFiles, NEW value \in Events \cup {Torn}, Lagging(log),
           value # Torn => value.sequence <= Len(Lines(log)) + 1
    PROVE  /\ Put(log, value) \in EventFiles
           /\ Lagging(Put(log, value))
           /\ Len(Lines(log)) <= Len(Lines(Put(log, value)))
  <1> DEFINE new == Put(log, value)
  <1>0. /\ log.open = <<>> => Len(Lines(log)) = Len(log.closed)
        /\ log.open # <<>> => Len(Lines(log)) = Len(log.closed) + 1
    <2>1. log \in Files(Events)
      BY DEF EventFiles
    <2> QED BY <2>1, LinesLength
  <1>1. /\ log.closed \in Seq(Seq(Events \cup {Torn})) /\ log.open \in Seq(Events \cup {Torn})
        /\ new = [closed |-> log.closed, open |-> Append(log.open, value)]
    BY PutFile DEF EventFiles, Files
  <1>2. new \in EventFiles
    BY PutFile DEF EventFiles
  <1>3. Len(Append(log.open, value)) = Len(log.open) + 1
    BY <1>1
  <1>4. Whole(new.open) => new.open[1].sequence <= Len(new.closed) + 1
    <2> SUFFICES ASSUME Whole(new.open)
                 PROVE  new.open[1].sequence <= Len(log.closed) + 1
      BY <1>1
    <2>1. Len(log.open) = 0 /\ log.open = <<>>
      BY <1>1, <1>3 DEF Whole
    <2>2. new.open[1] = value
      BY <1>1, <2>1
    <2>3. Len(Lines(log)) = Len(log.closed)
      BY <1>0, <1>1, <2>1
    <2> QED BY <2>2, <2>3 DEF Whole
  <1>5. Lagging(new)
    BY <1>1, <1>4 DEF Lagging
  <1>6. Len(Lines(new)) = Len(log.closed) + 1
    <2>1. new \in Files(Events)
      BY <1>2 DEF EventFiles
    <2>2. /\ new.open = <<>> => Len(Lines(new)) = Len(new.closed)
          /\ new.open # <<>> => Len(Lines(new)) = Len(new.closed) + 1
      BY <2>1, LinesLength
    <2>3. Append(log.open, value) # <<>>
      <3>1. Len(log.open) \in Nat
        BY <1>1
      <3>2. Len(Append(log.open, value)) # Len(<<>>)
        BY <1>3, <3>1
      <3> QED BY <3>2
    <2>4. new.closed = log.closed /\ new.open # <<>>
      BY <1>1, <2>3
    <2> QED BY <2>2, <2>4
  <1>7. Len(Lines(log)) <= Len(log.closed) + 1
    BY <1>0, <1>1
  <1> QED BY <1>2, <1>5, <1>6, <1>7

\* A newline closes the line under the number it had.
LEMMA EndLineLags ==
    ASSUME NEW log \in EventFiles, Lagging(log)
    PROVE  /\ EndLine(log) \in EventFiles
           /\ Lagging(EndLine(log))
           /\ Len(Lines(log)) <= Len(Lines(EndLine(log)))
  <1> DEFINE new == EndLine(log)
  <1>0. /\ log.open = <<>> => Len(Lines(log)) = Len(log.closed)
        /\ log.open # <<>> => Len(Lines(log)) = Len(log.closed) + 1
    <2>1. log \in Files(Events)
      BY DEF EventFiles
    <2> QED BY <2>1, LinesLength
  <1>1. /\ log.closed \in Seq(Seq(Events \cup {Torn})) /\ log.open \in Seq(Events \cup {Torn})
        /\ new = [closed |-> Append(log.closed, log.open), open |-> <<>>]
    BY DEF EventFiles, Files, EndLine
  <1>2. new \in EventFiles
    BY EndLineFile DEF EventFiles
  <1>3. ~Whole(<<>>)
    BY DEF Whole
  <1>4. ASSUME NEW i \in DOMAIN new.closed, Whole(new.closed[i])
        PROVE  new.closed[i][1].sequence <= i
    <2>1. CASE i = Len(log.closed) + 1
      BY <1>1, <1>4, <2>1 DEF Lagging
    <2>2. CASE i # Len(log.closed) + 1
      <3>1. i \in DOMAIN log.closed /\ new.closed[i] = log.closed[i]
        BY <1>1, <2>2
      <3> QED BY <1>4, <3>1 DEF Lagging
    <2> QED BY <2>1, <2>2
  <1>5. Lagging(new)
    BY <1>1, <1>3, <1>4 DEF Lagging
  <1>6. Len(Lines(new)) = Len(log.closed) + 1
    <2>1. new \in Files(Events)
      BY <1>2 DEF EventFiles
    <2>2. /\ new.open = <<>> => Len(Lines(new)) = Len(new.closed)
          /\ new.open # <<>> => Len(Lines(new)) = Len(new.closed) + 1
      BY <2>1, LinesLength
    <2> QED BY <1>1, <2>2
  <1>7. Len(Lines(log)) <= Len(log.closed) + 1
    BY <1>0, <1>1
  <1> QED BY <1>2, <1>5, <1>6, <1>7

-----------------------------------------------------------------------------
(* Types, the lock and the budget.                                           *)

LEMMA WritersDistinct ==
    /\ Worker \in Writers /\ Jobs \subseteq Writers /\ Admins \subseteq Writers
    /\ \A x \in {Worker} \cup Admins : x \notin Jobs
  BY IdsAssumption DEF Writers

\* A budget that is spent on a stop is no longer whole.
LEMMA StopSpent ==
    ASSUME Typed, Spend("stop", 1)
    PROVE  /\ DOMAIN budget' = {"stop", "unreadable"} /\ budget'.stop \in Nat
           /\ budget'.stop < Budget.stop
  BY BudgetAssumption DEF Typed, Spend

LEMMA StopKept ==
    ASSUME Typed, NEW n, Spend("unreadable", n)
    PROVE  /\ DOMAIN budget' = {"stop", "unreadable"} /\ budget'.stop = budget.stop
  BY DEF Typed, Spend

\* A writer that numbers an event takes a number no greater than its line's.
LEMMA NumberPends ==
    ASSUME Typed, Pending, NEW x \in Writers, NEW j \in Jobs \cup {None},
           NEW kind \in {"queued", "writing", "updated"}, Number(x, kind, j),
           UNCHANGED events
    PROVE  /\ pc' \in [Writers -> Labels] /\ event' \in [Writers -> Events]
           /\ Pending'
  <1>1. Len(Lines(events)) \in Nat
    BY LinesLength DEF Typed, EventFiles, Files
  <1> DEFINE e == [kind |-> kind, job |-> j, sequence |-> NextSequence(events)]
  <1>2. e \in Events /\ e.sequence = Len(Lines(events)) + 1
    BY <1>1 DEF Events, NextSequence
  <1>3. event' = [event EXCEPT ![x] = e] /\ pc' = [pc EXCEPT ![x] = "event"]
    BY DEF Number, At
  <1>4. event' \in [Writers -> Events] /\ pc' \in [Writers -> Labels]
    BY <1>2, <1>3 DEF Typed, Labels
  <1>5. Lines(events)' = Lines(events)
    BY DEF Lines
  <1>6. ASSUME NEW y \in Writers, pc'[y] = "event"
        PROVE  event'[y].sequence <= Len(Lines(events)) + 1
    <2>1. CASE y = x
      BY <1>1, <1>2, <1>3, <2>1 DEF Typed
    <2>2. CASE y # x
      BY <1>3, <1>6, <2>2 DEF Typed, Pending
    <2> QED BY <2>1, <2>2
  <1> QED BY <1>4, <1>5, <1>6 DEF Pending

\* A step that numbers nothing leaves every number that is pending low enough.
LEMMA OthersPend ==
    ASSUME Typed, Pending, UNCHANGED event, events' \in EventFiles,
           Len(Lines(events)) <= Len(Lines(events')),
           \A y \in Writers : pc'[y] = "event" => pc[y] = "event"
    PROVE  Pending'
  <1>1. Len(Lines(events)) \in Nat /\ Len(Lines(events')) \in Nat
    BY LinesLength DEF Typed, EventFiles, Files
  <1>2. Lines(events)' = Lines(events')
    BY DEF Lines
  <1>3. ASSUME NEW y \in Writers, pc'[y] = "event"
        PROVE  event'[y].sequence <= Len(Lines(events')) + 1
    <2>1. event[y].sequence \in Nat
      BY DEF Typed, Events
    <2> QED BY <1>1, <1>3, <2>1 DEF Pending
  <1> QED BY <1>2, <1>3 DEF Pending

-----------------------------------------------------------------------------
(* What a step may write.                                                    *)

\* The outcomes of a write of an event that is pending.
LEMMA WrittenLags ==
    ASSUME Typed, Lagging(events), Pending, NEW x \in Writers, pc[x] = "event",
           events' \in Written(events, event[x]) \cup {Put(events, event[x])}
    PROVE  /\ events' \in EventFiles /\ Lagging(events')
           /\ Len(Lines(events)) <= Len(Lines(events'))
  <1>1. events \in EventFiles /\ event[x] \in Events
    BY DEF Typed
  <1>2. event[x].sequence <= Len(Lines(events)) + 1
    BY DEF Pending
  <1> DEFINE put == Put(events, event[x])
  <1>3. /\ put \in EventFiles /\ Lagging(put)
        /\ Len(Lines(events)) <= Len(Lines(put))
    BY <1>1, <1>2, PutLags
  <1>4. /\ EndLine(put) \in EventFiles /\ Lagging(EndLine(put))
        /\ Len(Lines(put)) <= Len(Lines(EndLine(put)))
    BY <1>3, EndLineLags
  <1>5. /\ Put(events, Torn) \in EventFiles /\ Lagging(Put(events, Torn))
        /\ Len(Lines(events)) <= Len(Lines(Put(events, Torn)))
    BY <1>1, PutLags
  <1>6. /\ Len(Lines(events)) \in Nat /\ Len(Lines(put)) \in Nat
        /\ Len(Lines(EndLine(put))) \in Nat
    BY <1>1, <1>3, <1>4, LinesLength DEF EventFiles, Files
  <1> QED BY <1>1, <1>3, <1>4, <1>5, <1>6 DEF Written
-----------------------------------------------------------------------------
(* The numbers of events never run ahead of their lines.                     *)

LagInv == Typed /\ Lagging(events) /\ Pending

LEMMA Moved ==
    ASSUME Typed, NEW x \in Writers, NEW l \in Labels, At(x, l)
    PROVE  /\ pc' \in [Writers -> Labels] /\ pc'[x] = l
           /\ \A y \in Writers : y # x => pc'[y] = pc[y]
  BY DEF Typed, At

\* What a submission may leave in the index is an index.
LEMMA IndexWritten ==
    ASSUME Typed, NEW j \in Jobs
    PROVE  /\ Put(index, j) \in IndexFiles /\ Put(index, Torn) \in IndexFiles
           /\ EndLine(index) \in IndexFiles /\ EndLine(Put(index, j)) \in IndexFiles
  <1>1. \A f \in IndexFiles, v \in Jobs \cup {Torn} : Put(f, v) \in IndexFiles
    BY PutFile DEF IndexFiles
  <1>2. \A f \in IndexFiles : EndLine(f) \in IndexFiles
    BY EndLineFile DEF IndexFiles
  <1> QED BY <1>1, <1>2 DEF Typed

\* A step that writes no event and numbers none.
LEMMA AsideLags ==
    ASSUME LagInv, UNCHANGED <<events, event>>, index' \in IndexFiles,
           queue' \in Seq(Jobs), pc' \in [Writers -> Labels],
           \A y \in Writers : pc'[y] = "event" => pc[y] = "event",
           DOMAIN budget' = {"stop", "unreadable"}, budget'.stop \in Nat,
           budget'.stop <= Budget.stop
    PROVE  LagInv'
  <1>1. Typed' /\ Lagging(events)'
    BY DEF LagInv, Typed, Lagging
  <1>2. Len(Lines(events)) <= Len(Lines(events'))
    BY LinesLength DEF LagInv, Typed, EventFiles, Files
  <1>3. Pending'
    BY <1>1, <1>2, OthersPend DEF LagInv, Typed
  <1> QED BY <1>1, <1>3 DEF LagInv

LEMMA WriteEventLags ==
    ASSUME LagInv, NEW x \in Writers, WriteEvent(x)
    PROVE  LagInv'
  <1>1. pc[x] = "event" /\ events' = Put(events, event[x])
    BY DEF WriteEvent
  <1>2. /\ events' \in EventFiles /\ Lagging(events')
        /\ Len(Lines(events)) <= Len(Lines(events'))
    BY <1>1, WrittenLags DEF LagInv
  <1>3. /\ pc' \in [Writers -> Labels]
        /\ \A y \in Writers : pc'[y] = "event" => pc[y] = "event"
    BY Moved DEF LagInv, WriteEvent, Labels
  <1>4. Typed'
    BY <1>2, <1>3 DEF LagInv, Typed, WriteEvent, processVars
  <1>5. Pending'
    BY <1>2, <1>3, OthersPend DEF LagInv, WriteEvent
  <1> QED BY <1>2, <1>4, <1>5 DEF LagInv, Lagging

LEMMA WriteNewlineLags ==
    ASSUME LagInv, NEW x \in Writers, WriteNewline(x)
    PROVE  LagInv'
  <1>1. events' = EndLine(events)
    BY DEF WriteNewline
  <1>2. /\ events' \in EventFiles /\ Lagging(events')
        /\ Len(Lines(events)) <= Len(Lines(events'))
    BY <1>1, EndLineLags DEF LagInv, Typed
  <1>3. /\ pc' \in [Writers -> Labels]
        /\ \A y \in Writers : pc'[y] = "event" => pc[y] = "event"
    BY Moved DEF LagInv, WriteNewline, AfterEvent, Labels
  <1>4. Typed'
    BY <1>2, <1>3 DEF LagInv, Typed, WriteNewline, processVars
  <1>5. Pending'
    BY <1>2, <1>3, OthersPend DEF LagInv, WriteNewline
  <1> QED BY <1>2, <1>4, <1>5 DEF LagInv, Lagging

LEMMA SubmissionLags ==
    ASSUME LagInv, NEW j \in Jobs, Acquire(j) \/ SubmissionStep(j)
    PROVE  LagInv'
  <1>1. j \in Writers
    BY DEF Writers
  <1>2. CASE Acquire(j)
    <2>1. /\ pc' \in [Writers -> Labels]
          /\ \A y \in Writers : pc'[y] = "event" => pc[y] = "event"
      BY <1>1, <1>2, Moved DEF LagInv, Acquire, Labels
    <2> QED BY <1>2, <2>1, AsideLags DEF LagInv, Typed, Acquire, logVars
  <1>3. CASE Register(j)
    <2>1. /\ pc' \in [Writers -> Labels]
          /\ \A y \in Writers : pc'[y] = "event" => pc[y] = "event"
      BY <1>1, <1>3, Moved DEF LagInv, Register, Labels
    <2>2. index' \in IndexFiles
      BY <1>3, IndexWritten DEF LagInv, Register
    <2> QED BY <1>3, <2>1, <2>2, AsideLags DEF LagInv, Typed, Register, processVars
  <1>4. CASE Registered(j)
    <2>1. /\ pc' \in [Writers -> Labels]
          /\ \A y \in Writers : pc'[y] = "event" => pc[y] = "event"
      BY <1>1, <1>4, Moved DEF LagInv, Registered, Labels
    <2>2. index' \in IndexFiles
      BY <1>4, IndexWritten DEF LagInv, Registered
    <2> QED BY <1>4, <2>1, <2>2, AsideLags DEF LagInv, Typed, Registered, processVars
  <1>5. CASE Count(j)
    <2>1. /\ pc' \in [Writers -> Labels] /\ event' \in [Writers -> Events]
          /\ Pending'
      BY <1>1, <1>5, NumberPends DEF LagInv, Count, logVars
    <2> QED BY <1>5, <2>1 DEF LagInv, Typed, Count, logVars, processVars, Lagging
  <1>6. CASE Enqueue(j)
    <2>1. /\ pc' \in [Writers -> Labels]
          /\ \A y \in Writers : pc'[y] = "event" => pc[y] = "event"
      BY <1>1, <1>6, Moved DEF LagInv, Enqueue, Labels
    <2>2. queue' \in Seq(Jobs)
      BY <1>6 DEF LagInv, Typed, Enqueue
    <2> QED BY <1>6, <2>1, <2>2, AsideLags DEF LagInv, Typed, Enqueue, logVars
  <1> QED BY <1>2, <1>3, <1>4, <1>5, <1>6 DEF SubmissionStep

\* An append that fails may leave a part of the event, or all of it.
LEMMA FailedEventLags ==
    ASSUME LagInv, NEW x \in Writers, pc[x] = "event", Spend("stop", 1),
           events' \in Written(events, event[x]), index' \in IndexFiles,
           At(x, "idle"), UNCHANGED <<queue, event>>
    PROVE  LagInv'
  <1>1. /\ events' \in EventFiles /\ Lagging(events')
        /\ Len(Lines(events)) <= Len(Lines(events'))
    BY WrittenLags DEF LagInv
  <1>2. /\ pc' \in [Writers -> Labels]
        /\ \A y \in Writers : pc'[y] = "event" => pc[y] = "event"
    BY Moved DEF LagInv, Labels
  <1>3. Typed'
    BY <1>1, <1>2, StopSpent, BudgetAssumption DEF LagInv, Typed
  <1>4. Pending'
    BY <1>1, <1>2, OthersPend DEF LagInv
  <1> QED BY <1>1, <1>3, <1>4 DEF LagInv, Lagging

LEMMA FailureLags ==
    ASSUME LagInv,
           \/ \E j \in Jobs : SubmissionFails(j)
           \/ \E x \in {Worker} \cup Admins : EmitFails(x)
    PROVE  LagInv'
  <1>1. ASSUME NEW j \in Jobs, SubmissionFails(j)
        PROVE  LagInv'
    <2>1. j \in Writers
      BY DEF Writers
    <2>2. Spend("stop", 1) /\ At(j, "idle") /\ UNCHANGED <<queue, event>>
      BY <1>1 DEF SubmissionFails
    <2>3. /\ pc' \in [Writers -> Labels]
          /\ \A y \in Writers : pc'[y] = "event" => pc[y] = "event"
      BY <2>1, <2>2, Moved DEF LagInv, Labels
    <2>4. CASE index' \in Written(index, j) /\ UNCHANGED events
      <3>1. index' \in IndexFiles
        BY <2>4, IndexWritten DEF LagInv, Typed, Written
      <3> QED BY <2>2, <2>3, <2>4, <3>1, AsideLags, StopSpent, BudgetAssumption
              DEF LagInv, Typed
    <2>5. CASE UNCHANGED logVars
      BY <2>2, <2>3, <2>5, AsideLags, StopSpent, BudgetAssumption
         DEF LagInv, Typed, logVars
    <2>6. CASE pc[j] = "event" /\ events' \in Written(events, event[j]) /\ UNCHANGED index
      BY <2>1, <2>2, <2>6, FailedEventLags DEF LagInv, Typed
    <2> QED BY <1>1, <2>4, <2>5, <2>6 DEF SubmissionFails
  <1>2. ASSUME NEW x \in {Worker} \cup Admins, EmitFails(x)
        PROVE  LagInv'
    <2>1. x \in Writers
      BY DEF Writers
    <2>2. /\ Spend("stop", 1) /\ At(x, "idle") /\ UNCHANGED <<index, queue, event>>
      BY <1>2 DEF EmitFails, processVars
    <2>3. CASE pc[x] = "event" /\ events' \in Written(events, event[x])
      BY <2>1, <2>2, <2>3, FailedEventLags DEF LagInv, Typed
    <2>4. CASE UNCHANGED events
      <3>1. /\ pc' \in [Writers -> Labels]
            /\ \A y \in Writers : pc'[y] = "event" => pc[y] = "event"
        BY <2>1, <2>2, Moved DEF LagInv, Labels
      <3> QED BY <2>2, <2>4, <3>1, AsideLags, StopSpent, BudgetAssumption
              DEF LagInv, Typed
    <2> QED BY <1>2, <2>3, <2>4 DEF EmitFails
  <1> QED BY <1>1, <1>2

\* The worker and the registry number an event of their own.
LEMMA EmitterLags ==
    ASSUME LagInv, Begin \/ (\E a \in Admins : Update(a))
    PROVE  LagInv'
  <1>1. CASE Begin
    <2>1. /\ queue # <<>> /\ queue' = Tail(queue) /\ Number(Worker, "writing", Head(queue))
          /\ UNCHANGED <<logVars, budget>>
      BY <1>1 DEF Begin
    <2>2. Head(queue) \in Jobs /\ Tail(queue) \in Seq(Jobs)
      BY <2>1 DEF LagInv, Typed
    <2>3. /\ pc' \in [Writers -> Labels] /\ event' \in [Writers -> Events]
          /\ Pending'
      BY <2>1, <2>2, WritersDistinct, NumberPends DEF LagInv, logVars
    <2> QED BY <2>1, <2>2, <2>3 DEF LagInv, Typed, logVars, Lagging
  <1>2. ASSUME NEW a \in Admins, Update(a)
        PROVE  LagInv'
    <2>1. /\ pc' \in [Writers -> Labels] /\ event' \in [Writers -> Events]
          /\ Pending'
      BY <1>2, WritersDistinct, NumberPends DEF LagInv, Update, logVars
    <2> QED BY <1>2, <2>1 DEF LagInv, Typed, Update, logVars, processVars, Lagging
  <1> QED BY <1>1, <1>2

LEMMA CrashLags ==
    ASSUME LagInv, Crash
    PROVE  LagInv'
  <1>1. events' \in {events, Put(events, Torn)} /\ index' \in {index, Put(index, Torn)}
    BY DEF Crash
  <1>2. events' \in EventFiles /\ Lagging(events')
    BY <1>1, PutLags DEF LagInv, Typed
  <1>3. index' \in IndexFiles
    BY <1>1, PutFile DEF LagInv, Typed, IndexFiles
  <1>4. Typed'
    BY <1>2, <1>3, StopSpent, BudgetAssumption DEF LagInv, Typed, Crash, Labels
  <1>5. Pending'
    BY DEF Crash, Pending
  <1> QED BY <1>2, <1>4, <1>5 DEF LagInv, Lagging

LEMMA StartLags ==
    ASSUME LagInv, Start
    PROVE  LagInv'
  <1>1. queue' \in Seq(Jobs)
    <2> DEFINE waiting == {j \in Jobs : job[j] = "queued"}
    <2>1. Cardinality(waiting) \in Nat
      BY IdsAssumption, FS_Subset, FS_CardinalityType
    <2>2. queue' \in [1..Cardinality(waiting) -> waiting]
      BY DEF Start, SetToSeqs
    <2>3. queue' \in [1..Cardinality(waiting) -> Jobs]
      BY <2>2
    <2>4. PICK n \in Nat : queue' \in [1..n -> Jobs]
      BY <2>1, <2>3
    <2> QED BY <2>4
  <1> QED BY <1>1, AsideLags DEF LagInv, Typed, Start, logVars

LEMMA ReaderLags ==
    ASSUME LagInv, ReadEvents \/ ListJobs
    PROVE  LagInv'
  <1>1. UNCHANGED <<logVars, queue, pc, event>>
    BY DEF ReadEvents, ListJobs, processVars
  <1>2. /\ DOMAIN budget' = {"stop", "unreadable"} /\ budget'.stop \in Nat
        /\ budget'.stop <= Budget.stop
    <2>1. CASE ReadEvents
      BY <2>1 DEF ReadEvents, LagInv, Typed
    <2>2. CASE ListJobs
      <3>1. PICK bad \in SUBSET Jobs : Spend("unreadable", Cardinality(bad))
        BY <2>2 DEF ListJobs
      <3> QED BY <3>1, StopKept DEF LagInv, Typed
    <2> QED BY <2>1, <2>2
  <1> QED BY <1>1, <1>2, AsideLags DEF LagInv, Typed, logVars

LEMMA InitLags == Init => LagInv
  <1> SUFFICES ASSUME Init PROVE LagInv
    OBVIOUS
  <1>1. NoEvent \in Events
    BY DEF NoEvent, Events
  <1>2. Empty \in EventFiles /\ Empty \in IndexFiles
    BY DEF Empty, EventFiles, IndexFiles, Files
  <1>3. Typed
    BY <1>1, <1>2, BudgetAssumption DEF Init, Typed, Labels
  <1>4. Lagging(events)
    BY DEF Init, Empty, Lagging, Whole
  <1>5. Pending
    BY DEF Init, Pending
  <1> QED BY <1>3, <1>4, <1>5 DEF LagInv

LEMMA StepLags == LagInv /\ [Next]_vars => LagInv'
  <1> SUFFICES ASSUME LagInv, [Next]_vars PROVE LagInv'
    OBVIOUS
  <1>1. CASE UNCHANGED vars
    BY <1>1 DEF vars, logVars, processVars, LagInv, Typed, Lagging, Pending, Lines
  <1>2. ASSUME NEW x \in Writers, AppendStep(x) PROVE LagInv'
    BY <1>2, WriteEventLags, WriteNewlineLags DEF AppendStep
  <1>3. ASSUME NEW j \in Jobs, Acquire(j) \/ SubmissionStep(j) PROVE LagInv'
    BY <1>3, SubmissionLags
  <1> QED BY <1>1, <1>2, <1>3, FailureLags, EmitterLags, CrashLags, StartLags, ReaderLags
          DEF Next

\* Whatever overlaps, crashes and fails, the number in an event that can be read is
\* at most the number of its line (persist.rs, next_sequence and append_ndjson).
THEOREM NumbersLag == Spec => []SequenceSafe
  <1>1. LagInv => SequenceSafe
    BY DEF LagInv, Lagging, SequenceSafe
  <1> QED BY <1>1, InitLags, StepLags, PTL DEF Spec
-----------------------------------------------------------------------------
(* The lines of the index are whole: one submission at a time writes there.  *)

\* Outside the two writes of register_job the index ends with a newline.
IndexIntact ==
    Undisturbed =>
        /\ \A i \in DOMAIN index.closed : Whole(index.closed[i])
        /\ \A j \in Jobs : pc[j] = "registered" => index.open = <<j>>
        /\ (\A j \in Jobs : pc[j] # "registered") => index.open = <<>>

\* Steps that leave the budget alone, or stop a writer.
LEMMA DisturbedStays ==
    ASSUME Typed, Undisturbed',
           UNCHANGED budget \/ Spend("stop", 1) \/ (\E n : Spend("unreadable", n))
    PROVE  Undisturbed /\ ~Spend("stop", 1)
  <1>1. ~Spend("stop", 1)
    BY StopSpent, BudgetAssumption DEF Undisturbed
  <1>2. budget'.stop = budget.stop
    BY <1>1, StopKept
  <1> QED BY <1>1, <1>2 DEF Undisturbed

LEMMA HeldStep ==
    ASSUME LagInv, Held, [Next]_vars
    PROVE  Held'
  <1> USE WritersDistinct
  <1>1. CASE UNCHANGED vars
    BY <1>1 DEF vars, processVars, Held
  <1>2. ASSUME NEW x \in Writers, AppendStep(x) PROVE Held'
    <2>1. lock' = lock /\ pc[x] # "idle"
      BY <1>2 DEF AppendStep, WriteEvent, WriteNewline, processVars
    <2>2. \A y \in Writers : y # x => pc'[y] = pc[y]
      BY <1>2, Moved DEF AppendStep, WriteEvent, WriteNewline, AfterEvent, LagInv, Labels
    <2> QED BY <2>1, <2>2 DEF Held
  <1>3. ASSUME NEW j \in Jobs, Acquire(j) PROVE Held'
    <2>1. lock = None /\ lock' = j
      BY <1>3 DEF Acquire
    <2>2. \A k \in Jobs : pc[k] = "idle"
      BY <2>1, IdsAssumption DEF Held
    <2>3. \A y \in Writers : y # j => pc'[y] = pc[y]
      BY <1>3, Moved DEF Acquire, LagInv, Labels
    <2> QED BY <2>1, <2>2, <2>3 DEF Held
  <1>4. ASSUME NEW j \in Jobs, Register(j) \/ Registered(j) \/ Count(j) PROVE Held'
    <2>1. lock' = lock /\ pc[j] # "idle"
      BY <1>4 DEF Register, Registered, Count, processVars
    <2>2. \A y \in Writers : y # j => pc'[y] = pc[y]
      BY <1>4, Moved DEF Register, Registered, Count, Number, LagInv, Labels
    <2> QED BY <2>1, <2>2 DEF Held
  <1>5. ASSUME NEW j \in Jobs, Enqueue(j) \/ SubmissionFails(j) PROVE Held'
    <2>1. pc[j] # "idle" /\ At(j, "idle")
      BY <1>5 DEF Enqueue, SubmissionFails
    <2>2. \A k \in Jobs : pc'[k] = "idle"
      BY <2>1, Moved DEF Held, LagInv, Labels
    <2> QED BY <2>2 DEF Held
  <1>6. ASSUME NEW x \in {Worker} \cup Admins, EmitFails(x) \/ Begin \/ Update(x)
        PROVE  Held'
    <2>1. lock' = lock
      BY <1>6 DEF EmitFails, Begin, Update, processVars
    <2>2. \A k \in Jobs : pc'[k] = pc[k]
      BY <1>6, Moved DEF EmitFails, Begin, Update, Number, LagInv, Labels
    <2> QED BY <2>1, <2>2 DEF Held
  <1>7. CASE Crash
    BY <1>7 DEF Crash, Held
  <1>8. CASE Start \/ ReadEvents \/ ListJobs
    BY <1>8 DEF Start, ReadEvents, ListJobs, processVars, Held
  <1> QED BY <1>1, <1>2, <1>3, <1>4, <1>5, <1>6, <1>7, <1>8 DEF Next, SubmissionStep

\* Steps that have nothing to do with the index.
LEMMA AsideIntact ==
    ASSUME IndexIntact, Undisturbed' => Undisturbed, UNCHANGED index,
           \A k \in Jobs : pc'[k] = "registered" <=> pc[k] = "registered"
    PROVE  IndexIntact'
  BY DEF IndexIntact

LEMMA IndexStep ==
    ASSUME LagInv, Held, IndexIntact, [Next]_vars
    PROVE  IndexIntact'
  <1> USE WritersDistinct
  <1>1. CASE UNCHANGED vars
    BY <1>1 DEF vars, logVars, IndexIntact, Undisturbed
  <1>2. ASSUME NEW x \in Writers, AppendStep(x) PROVE IndexIntact'
    <2>1. UNCHANGED <<index, budget>> /\ pc[x] \in {"event", "newline"}
      BY <1>2 DEF AppendStep, WriteEvent, WriteNewline
    <2>2. /\ pc'[x] # "registered"
          /\ \A y \in Writers : y # x => pc'[y] = pc[y]
      BY <1>2, Moved DEF AppendStep, WriteEvent, WriteNewline, AfterEvent, LagInv, Labels
    <2> QED BY <2>1, <2>2, AsideIntact DEF Undisturbed
  <1>3. ASSUME NEW j \in Jobs, Acquire(j) \/ Count(j) \/ Enqueue(j) PROVE IndexIntact'
    <2>1. UNCHANGED <<index, budget>> /\ pc[j] # "registered"
      BY <1>3 DEF Acquire, Count, Enqueue, logVars
    <2>2. /\ pc'[j] # "registered"
          /\ \A y \in Writers : y # j => pc'[y] = pc[y]
      BY <1>3, Moved DEF Acquire, Count, Enqueue, Number, LagInv, Labels
    <2> QED BY <2>1, <2>2, AsideIntact DEF Undisturbed
  <1>4. ASSUME NEW j \in Jobs, Register(j) PROVE IndexIntact'
    <2>1. pc[j] = "register" /\ index' = Put(index, j) /\ UNCHANGED budget
      BY <1>4 DEF Register
    <2>2. \A k \in Jobs : k # j => pc[k] = "idle"
      BY <2>1 DEF Held
    <2>3. /\ pc'[j] = "registered"
          /\ \A y \in Writers : y # j => pc'[y] = pc[y]
      BY <1>4, Moved DEF Register, LagInv, Labels
    <2>4. index' = [closed |-> index.closed, open |-> Append(index.open, j)]
      BY <2>1, PutFile DEF LagInv, Typed, IndexFiles
    <2>5. Undisturbed => index.open = <<>>
      BY <2>1, <2>2 DEF IndexIntact
    <2>6. Append(<<>>, j) = <<j>>
      OBVIOUS
    <2>7. index'.closed = index.closed /\ index'.open = Append(index.open, j)
      BY <2>4
    <2>8. \A k \in Jobs : pc'[k] = "registered" => k = j
      BY <2>2, <2>3
    <2>9. Undisturbed' => Undisturbed /\ index'.open = <<j>>
      BY <2>1, <2>5, <2>6, <2>7 DEF Undisturbed
    <2> QED BY <2>3, <2>7, <2>8, <2>9 DEF IndexIntact
  <1>5. ASSUME NEW j \in Jobs, Registered(j) PROVE IndexIntact'
    <2>1. pc[j] = "registered" /\ index' = EndLine(index) /\ UNCHANGED budget
      BY <1>5 DEF Registered
    <2>2. \A k \in Jobs : k # j => pc[k] = "idle"
      BY <2>1 DEF Held
    <2>3. /\ pc'[j] = "count"
          /\ \A y \in Writers : y # j => pc'[y] = pc[y]
      BY <1>5, Moved DEF Registered, LagInv, Labels
    <2>4. index' = [closed |-> Append(index.closed, index.open), open |-> <<>>]
      BY <2>1 DEF EndLine
    <2> SUFFICES ASSUME Undisturbed'
                 PROVE  /\ \A i \in DOMAIN index'.closed : Whole(index'.closed[i])
                        /\ \A k \in Jobs : pc'[k] # "registered"
                        /\ index'.open = <<>>
      BY DEF IndexIntact, Whole
    <2>5. Undisturbed
      BY <2>1 DEF Undisturbed
    <2>6. Whole(index.open)
      <3>1. index.open = <<j>> /\ j # Torn
        BY <2>1, <2>5, IdsAssumption DEF IndexIntact
      <3> QED BY <3>1 DEF Whole
    <2>7. index.closed \in Seq(Seq(Jobs \cup {Torn}))
      BY DEF LagInv, Typed, IndexFiles, Files
    <2>8. ASSUME NEW i \in DOMAIN Append(index.closed, index.open)
          PROVE  Whole(Append(index.closed, index.open)[i])
      <3>1. CASE i \in DOMAIN index.closed
        BY <2>5, <2>7, <3>1 DEF IndexIntact
      <3>2. CASE i \notin DOMAIN index.closed
        <4>1. Append(index.closed, index.open)[i] = index.open
          BY <2>7, <3>2
        <4> QED BY <2>6, <4>1
      <3> QED BY <3>1, <3>2
    <2> QED BY <2>2, <2>3, <2>4, <2>8
  <1>6. ASSUME Spend("stop", 1) PROVE IndexIntact'
    BY <1>6, DisturbedStays DEF IndexIntact, LagInv
  <1>7. ASSUME NEW x \in {Worker} \cup Admins, Begin \/ Update(x) PROVE IndexIntact'
    <2>1. UNCHANGED <<index, budget>>
      BY <1>7 DEF Begin, Update, logVars
    <2>2. \A k \in Jobs : pc'[k] = pc[k]
      BY <1>7, Moved DEF Begin, Update, Number, LagInv, Labels
    <2> QED BY <2>1, <2>2, AsideIntact DEF Undisturbed
  <1>8. CASE Start \/ ReadEvents \/ ListJobs
    <2>1. UNCHANGED <<index, pc>>
      BY <1>8 DEF Start, ReadEvents, ListJobs, logVars
    <2>2. UNCHANGED budget \/ (\E n : Spend("unreadable", n))
      BY <1>8 DEF Start, ReadEvents, ListJobs
    <2>3. Undisturbed' => Undisturbed
      BY <2>2, DisturbedStays DEF LagInv
    <2> QED BY <2>1, <2>3, AsideIntact
  <1> QED BY <1>1, <1>2, <1>3, <1>4, <1>5, <1>6, <1>7, <1>8
          DEF Next, SubmissionStep, SubmissionFails, EmitFails, Crash

-----------------------------------------------------------------------------
(* Events that were numbered one after the other are whole and in place.     *)

\* Only one event is being appended: its line is the next one and its own.
Numbered ==
    Undisturbed /\ ~overlapped =>
        /\ \A i \in DOMAIN events.closed :
               Whole(events.closed[i]) /\ events.closed[i][1].sequence = i
        /\ \A x, y \in Appending : x = y
        /\ \A x \in Appending : event[x].sequence = Len(events.closed) + 1
        /\ \A x \in Writers : pc[x] = "newline" => events.open = <<event[x]>>
        /\ (\A x \in Writers : pc[x] # "newline") => events.open = <<>>

LEMMA AsideNumbered ==
    ASSUME Numbered, Undisturbed' => Undisturbed, UNCHANGED <<events, event, overlapped>>,
           \A y \in Writers : pc'[y] = pc[y]
                              \/ {pc[y], pc'[y]} \cap {"event", "newline"} = {}
    PROVE  Numbered'
  <1>1. Appending' = Appending
    BY DEF Appending
  <1>2. \A y \in Writers : pc'[y] = "newline" <=> pc[y] = "newline"
    OBVIOUS
  <1> QED BY <1>1, <1>2 DEF Numbered

LEMMA NumberNumbered ==
    ASSUME LagInv, Numbered, NEW x \in Writers, pc[x] \notin {"event", "newline"},
           NEW j, NEW kind, Number(x, kind, j), UNCHANGED <<events, budget>>
    PROVE  Numbered'
  <1> SUFFICES ASSUME Undisturbed', ~overlapped'
               PROVE  /\ \A i \in DOMAIN events.closed :
                             Whole(events.closed[i]) /\ events.closed[i][1].sequence = i
                      /\ \A y, z \in Appending' : y = z
                      /\ \A y \in Appending' : event'[y].sequence = Len(events.closed) + 1
                      /\ \A y \in Writers : pc'[y] = "newline" => events.open = <<event'[y]>>
                      /\ (\A y \in Writers : pc'[y] # "newline") => events.open = <<>>
    BY DEF Numbered
  <1>1. Undisturbed /\ ~overlapped /\ Appending = {}
    BY DEF Undisturbed, Number
  <1>2. \A y \in Writers : pc[y] \notin {"event", "newline"}
    BY <1>1 DEF Appending
  <1>3. events.open = <<>>
    BY <1>1, <1>2 DEF Numbered
  <1>4. pc'[x] = "event" /\ \A y \in Writers : y # x => pc'[y] = pc[y]
    BY Moved DEF Number, LagInv, Labels
  <1>5. Appending' = {x}
    BY <1>2, <1>4 DEF Appending
  <1>6. Len(Lines(events)) = Len(events.closed)
    <2>1. events \in Files(Events)
      BY DEF LagInv, Typed, EventFiles
    <2>2. Len(events.closed) \in Nat
      BY <2>1 DEF Files
    <2>3. events.open = <<>> => Len(Lines(events)) = Len(events.closed)
      BY <2>1, LinesLength
    <2> QED BY <1>3, <2>2, <2>3
  <1>7. event'[x].sequence = Len(events.closed) + 1
    <2>1. event'[x] = [kind |-> kind, job |-> j, sequence |-> NextSequence(events)]
      BY DEF Number, LagInv, Typed
    <2> QED BY <1>6, <2>1 DEF NextSequence
  <1> QED BY <1>1, <1>2, <1>3, <1>4, <1>5, <1>7 DEF Numbered

LEMMA WriteEventNumbered ==
    ASSUME LagInv, Numbered, NEW x \in Writers, WriteEvent(x)
    PROVE  Numbered'
  <1> SUFFICES ASSUME Undisturbed, ~overlapped
               PROVE  Numbered'
    BY DEF Numbered, Undisturbed, WriteEvent
  <1>1. pc[x] = "event" /\ UNCHANGED event
    BY DEF WriteEvent
  <1>2. x \in Appending /\ \A y \in Appending : y = x
    BY <1>1 DEF Numbered, Appending
  <1>3. events.open = <<>>
    BY <1>1, <1>2 DEF Numbered, Appending
  <1>4. events' = [closed |-> events.closed, open |-> Append(events.open, event[x])]
    BY PutFile DEF LagInv, Typed, EventFiles, WriteEvent
  <1>5. Append(<<>>, event[x]) = <<event[x]>>
    OBVIOUS
  <1>6. events'.closed = events.closed /\ events'.open = <<event[x]>>
    BY <1>3, <1>4, <1>5
  <1>7. pc'[x] = "newline" /\ \A y \in Writers : y # x => pc'[y] = pc[y]
    BY Moved DEF WriteEvent, LagInv, Labels
  <1>8. Appending' = {x}
    BY <1>2, <1>7 DEF Appending
  <1>9. \A y \in Writers : pc'[y] = "newline" => y = x
    BY <1>8 DEF Appending
  <1> QED BY <1>1, <1>2, <1>6, <1>7, <1>8, <1>9 DEF Numbered

LEMMA WriteNewlineNumbered ==
    ASSUME LagInv, Numbered, NEW x \in Writers, WriteNewline(x)
    PROVE  Numbered'
  <1> SUFFICES ASSUME Undisturbed, ~overlapped
               PROVE  Numbered'
    BY DEF Numbered, Undisturbed, WriteNewline
  <1>1. pc[x] = "newline" /\ UNCHANGED event
    BY DEF WriteNewline
  <1>2. x \in Appending /\ \A y \in Appending : y = x
    BY <1>1 DEF Numbered, Appending
  <1>3. events.open = <<event[x]>> /\ event[x].sequence = Len(events.closed) + 1
    BY <1>1, <1>2 DEF Numbered
  <1>4. Whole(events.open)
    <2>1. event[x] # Torn
      BY IdsAssumption DEF LagInv, Typed
    <2> QED BY <1>3, <2>1 DEF Whole
  <1>5. events'.closed = Append(events.closed, events.open) /\ events'.open = <<>>
    BY DEF WriteNewline, EndLine
  <1>6. events.closed \in Seq(Seq(Events \cup {Torn}))
    BY DEF LagInv, Typed, EventFiles, Files
  <1>7. ASSUME NEW i \in DOMAIN Append(events.closed, events.open)
        PROVE  /\ Whole(Append(events.closed, events.open)[i])
               /\ Append(events.closed, events.open)[i][1].sequence = i
    <2>1. CASE i \in DOMAIN events.closed
      BY <1>6, <2>1 DEF Numbered
    <2>2. CASE i \notin DOMAIN events.closed
      <3>1. /\ i = Len(events.closed) + 1
            /\ Append(events.closed, events.open)[i] = events.open
        BY <1>6, <2>2
      <3>2. events.open[1] = event[x]
        BY <1>3
      <3> QED BY <1>3, <1>4, <3>1, <3>2
    <2> QED BY <2>1, <2>2
  <1>8. pc'[x] \notin {"event", "newline"} /\ \A y \in Writers : y # x => pc'[y] = pc[y]
    BY Moved DEF WriteNewline, AfterEvent, LagInv, Labels
  <1>9. Appending' = {}
    BY <1>2, <1>8 DEF Appending
  <1>10. \A y \in Writers : pc'[y] # "newline"
    BY <1>9 DEF Appending
  <1> QED BY <1>5, <1>7, <1>9, <1>10 DEF Numbered

LEMMA NumberedStep ==
    ASSUME LagInv, Numbered, [Next]_vars
    PROVE  Numbered'
  <1> USE WritersDistinct
  <1>1. CASE UNCHANGED vars
    BY <1>1, AsideNumbered DEF vars, logVars, Undisturbed
  <1>2. ASSUME NEW x \in Writers, AppendStep(x) PROVE Numbered'
    BY <1>2, WriteEventNumbered, WriteNewlineNumbered DEF AppendStep
  <1>3. ASSUME NEW j \in Jobs, Acquire(j) \/ Register(j) \/ Registered(j) \/ Enqueue(j)
        PROVE  Numbered'
    <2>1. UNCHANGED <<events, event, overlapped, budget>>
      BY <1>3 DEF Acquire, Register, Registered, Enqueue, logVars, clientVars
    <2>2. pc[j] \notin {"event", "newline"}
      BY <1>3 DEF Acquire, Register, Registered, Enqueue
    <2>3. /\ pc'[j] \notin {"event", "newline"}
          /\ \A y \in Writers : y # j => pc'[y] = pc[y]
      BY <1>3, Moved DEF Acquire, Register, Registered, Enqueue, LagInv, Labels
    <2> QED BY <2>1, <2>2, <2>3, AsideNumbered DEF Undisturbed
  <1>4. ASSUME NEW j \in Jobs, Count(j) PROVE Numbered'
    BY <1>4, NumberNumbered DEF Count, logVars
  <1>5. CASE Begin
    BY <1>5, NumberNumbered DEF Begin, logVars
  <1>6. ASSUME NEW a \in Admins, Update(a) PROVE Numbered'
    BY <1>6, NumberNumbered DEF Update, logVars
  <1>7. ASSUME Spend("stop", 1) PROVE Numbered'
    BY <1>7, DisturbedStays DEF Numbered, LagInv
  <1>8. CASE Start \/ ReadEvents \/ ListJobs
    <2>1. UNCHANGED <<events, event, overlapped, pc>>
      BY <1>8 DEF Start, ReadEvents, ListJobs, logVars
    <2>2. UNCHANGED budget \/ (\E n : Spend("unreadable", n))
      BY <1>8 DEF Start, ReadEvents, ListJobs
    <2>3. Undisturbed' => Undisturbed
      BY <2>2, DisturbedStays DEF LagInv
    <2> QED BY <2>1, <2>3, AsideNumbered
  <1> QED BY <1>1, <1>2, <1>3, <1>4, <1>5, <1>6, <1>7, <1>8
          DEF Next, SubmissionStep, SubmissionFails, EmitFails, Crash

\* Without crashes and failed writes every line of the index can be read, and every
\* line of the event log holds one event under its own number as long as the events
\* were numbered one after the other (register_job, append_event).
THEOREM LogsStayIntact == Spec => []LogsIntact
  <1> DEFINE IInv == LagInv /\ Held /\ IndexIntact /\ Numbered
  <1>1. Init => IInv
    <2> SUFFICES ASSUME Init PROVE IInv
      OBVIOUS
    <2>1. Held /\ IndexIntact
      BY WritersDistinct DEF Init, Empty, Held, IndexIntact
    <2>2. Numbered
      BY DEF Init, Empty, Numbered, Appending
    <2> QED BY <2>1, <2>2, InitLags
  <1>2. IInv /\ [Next]_vars => IInv'
    BY StepLags, HeldStep, IndexStep, NumberedStep
  <1>3. IInv => LogsIntact
    BY DEF IndexIntact, Numbered, LogsIntact
  <1> QED BY <1>1, <1>2, <1>3, PTL DEF Spec
-----------------------------------------------------------------------------
(* The n-th of a set of lines.                                               *)

\* The lines of a file that has m of them, and those up to one of them.
LEMMA LinesFinite ==
    ASSUME NEW m \in Nat, NEW numbers \in SUBSET (1..m)
    PROVE  IsFiniteSet(numbers) /\ Cardinality(numbers) \in Nat
  <1>1. IsFiniteSet(1..m)
    BY FS_Interval
  <1> QED BY <1>1, FS_Subset, FS_CardinalityType

LEMMA LinesUpTo ==
    ASSUME NEW m \in Nat, NEW numbers \in SUBSET (1..m), NEW i
    PROVE  /\ IsFiniteSet({k \in numbers : k <= i})
           /\ Rank(numbers, i) = Cardinality({k \in numbers : k <= i})
           /\ Rank(numbers, i) \in Nat /\ Rank(numbers, i) <= Cardinality(numbers)
  <1> DEFINE upto == {k \in numbers : k <= i}
  <1>1. upto \in SUBSET numbers
    OBVIOUS
  <1>2. IsFiniteSet(numbers)
    BY LinesFinite
  <1> HIDE DEF upto
  <1>3. IsFiniteSet(upto) /\ Cardinality(upto) <= Cardinality(numbers)
    BY <1>1, <1>2, FS_Subset
  <1>4. Cardinality(upto) \in Nat
    BY <1>3, FS_CardinalityType
  <1> QED BY <1>3, <1>4 DEF Rank, upto

LEMMA RankGrows ==
    ASSUME NEW m \in Nat, NEW numbers \in SUBSET (1..m),
           NEW i \in numbers, NEW k \in numbers, i < k
    PROVE  Rank(numbers, i) < Rank(numbers, k)
  <1> DEFINE below(n) == {x \in numbers : x <= n}
  <1>1. i \in Nat /\ k \in Nat
    OBVIOUS
  <1>2. /\ IsFiniteSet(below(k)) /\ Rank(numbers, k) = Cardinality(below(k))
        /\ Rank(numbers, i) = Cardinality(below(i))
        /\ Rank(numbers, i) \in Nat /\ Rank(numbers, k) \in Nat
    BY LinesUpTo
  <1>3. below(i) \in SUBSET below(k)
    <2> SUFFICES ASSUME NEW x \in numbers, x <= i PROVE x <= k
      OBVIOUS
    <2> QED BY <1>1
  <1>4. k \in below(k) /\ k \notin below(i)
    BY <1>1
  <1> HIDE DEF below
  <1>5. /\ Cardinality(below(i)) <= Cardinality(below(k))
        /\ Cardinality(below(k)) = Cardinality(below(i)) => below(k) = below(i)
    BY <1>2, <1>3, FS_Subset
  <1> QED BY <1>2, <1>4, <1>5

LEMMA RankRange ==
    ASSUME NEW m \in Nat, NEW numbers \in SUBSET (1..m), NEW i \in numbers
    PROVE  Rank(numbers, i) \in 1..Cardinality(numbers)
  <1> DEFINE upto == {k \in numbers : k <= i}
  <1>1. i \in Nat
    OBVIOUS
  <1>2. /\ IsFiniteSet(upto) /\ Rank(numbers, i) = Cardinality(upto)
        /\ Rank(numbers, i) \in Nat /\ Rank(numbers, i) <= Cardinality(numbers)
    BY LinesUpTo
  <1>5. Cardinality(numbers) \in Nat
    BY LinesFinite
  <1>3. i \in upto
    BY <1>1
  <1> HIDE DEF upto
  <1>4. Cardinality(upto) # 0
    BY <1>2, <1>3, FS_EmptySet
  <1> QED BY <1>2, <1>4, <1>5

\* Only one line is the n-th.
LEMMA NthIs ==
    ASSUME NEW m \in Nat, NEW numbers \in SUBSET (1..m), NEW i \in numbers
    PROVE  Nth(numbers, Rank(numbers, i)) = i
  <1>1. ASSUME NEW k \in numbers, Rank(numbers, k) = Rank(numbers, i)
        PROVE  k = i
    <2>1. Rank(numbers, i) \in Nat
      BY LinesUpTo
    <2>2. i < k => Rank(numbers, i) < Rank(numbers, k)
      BY RankGrows
    <2>3. k < i => Rank(numbers, k) < Rank(numbers, i)
      BY RankGrows
    <2>4. ~(i < k) /\ ~(k < i)
      BY <1>1, <2>1, <2>2, <2>3
    <2> QED BY <2>4
  <1>2. (CHOOSE k \in numbers : Rank(numbers, k) = Rank(numbers, i)) = i
    BY <1>1
  <1> QED BY <1>2 DEF Nth

\* There is an n-th line: the ranks of the lines are that many different numbers.
LEMMA NthExists ==
    ASSUME NEW m \in Nat, NEW numbers \in SUBSET (1..m),
           NEW n \in 1..Cardinality(numbers)
    PROVE  Nth(numbers, n) \in numbers /\ Rank(numbers, Nth(numbers, n)) = n
  <1> DEFINE S == 1..Cardinality(numbers)
             f == [i \in numbers |-> Rank(numbers, i)]
  <1>1. IsFiniteSet(numbers) /\ Cardinality(numbers) \in Nat
    BY LinesFinite
  <1>2. \E i \in numbers : Rank(numbers, i) = n
    <2> SUFFICES ASSUME \A i \in numbers : Rank(numbers, i) # n
                 PROVE  FALSE
      OBVIOUS
    <2>1. IsFiniteSet(S) /\ Cardinality(S) = Cardinality(numbers)
      BY <1>1, FS_Interval
    <2>2. /\ IsFiniteSet(S \ {n})
          /\ Cardinality(S \ {n}) = Cardinality(numbers) - 1
      BY <2>1, FS_RemoveElement
    <2>3. f \in [numbers -> S \ {n}]
      BY RankRange
    <2>4. Cardinality(S \ {n}) < Cardinality(numbers)
      BY <1>1, <2>2
    <2>5. \E i, k \in numbers : i # k /\ f[i] = f[k]
      <3> HIDE DEF f, S
      <3> QED BY <1>1, <2>2, <2>3, <2>4, FS_PigeonHole
    <2>6. PICK i \in numbers, k \in numbers :
              i # k /\ Rank(numbers, i) = Rank(numbers, k)
      BY <2>5
    <2> QED BY <2>6, NthIs
  <1> QED BY <1>2, NthIs

LEMMA DisjointUnion ==
    ASSUME NEW S, IsFiniteSet(S), NEW T, IsFiniteSet(T), S \cap T = {}
    PROVE  Cardinality(S \cup T) = Cardinality(S) + Cardinality(T)
  <1>1. Cardinality(S \cup T) = Cardinality(S) + Cardinality(T) - Cardinality(S \cap T)
    BY FS_Union
  <1>2. Cardinality(S \cap T) = 0
    BY FS_EmptySet
  <1>3. Cardinality(S) \in Nat /\ Cardinality(T) \in Nat
    BY FS_CardinalityType
  <1> QED BY <1>1, <1>2, <1>3

\* Lines behind others count on from them.
LEMMA RanksFollow ==
    ASSUME NEW m \in Nat, NEW before \in SUBSET (1..m), NEW behind \in SUBSET (1..m),
           \A i \in before, k \in behind : i < k
    PROVE  /\ \A i \in before : Rank(before \cup behind, i) = Rank(before, i)
           /\ \A i \in behind : Rank(before \cup behind, i) =
                                     Cardinality(before) + Rank(behind, i)
  <1>2. \A x \in before, y \in behind : x \in Int /\ y \in Int /\ x < y
    OBVIOUS
  <1>3. ASSUME NEW i \in before
        PROVE  Rank(before \cup behind, i) = Rank(before, i)
    <2>1. ASSUME NEW k \in behind PROVE ~(k <= i)
      BY <1>2
    <2>2. {k \in before \cup behind : k <= i} = {k \in before : k <= i}
      BY <2>1
    <2> QED BY <2>2 DEF Rank
  <1>4. ASSUME NEW i \in behind
        PROVE  Rank(before \cup behind, i) = Cardinality(before) + Rank(behind, i)
    <2> DEFINE rest == {k \in behind : k <= i}
    <2>1. ASSUME NEW k \in before PROVE k <= i /\ k \notin behind
      BY <1>2
    <2>2. {k \in before \cup behind : k <= i} = before \cup rest
      BY <2>1
    <2>3. before \cap rest = {}
      BY <2>1
    <2>5. IsFiniteSet(rest)
      BY LinesUpTo
    <2>6. IsFiniteSet(before)
      BY LinesFinite
    <2> HIDE DEF rest
    <2>7. Cardinality(before \cup rest) = Cardinality(before) + Cardinality(rest)
      BY <2>3, <2>5, <2>6, DisjointUnion
    <2> QED BY <2>2, <2>7 DEF Rank, rest
  <1> QED BY <1>3, <1>4

\* Lines, then lines behind them: the entries of the ones follow those of the others.
LEMMA EntriesFollow ==
    ASSUME NEW m \in Nat, NEW before \in SUBSET (1..m), NEW behind \in SUBSET (1..m),
           NEW lines, \A i \in before, k \in behind : i < k,
           \A i \in before : lines[i][1] \in Events,
           \A i \in behind : lines[i][1] \in Events
    PROVE  /\ Entries(lines, before) \in Seq(Events) /\ Entries(lines, behind) \in Seq(Events)
           /\ Entries(lines, before \cup behind) =
                  Entries(lines, before) \o Entries(lines, behind)
  <1> DEFINE all == before \cup behind
             b == Cardinality(before)
             e == Cardinality(behind)
  <1>1. all \in SUBSET (1..m) /\ before \cap behind = {}
    <2>1. \A i \in before : i \in Int /\ ~(i < i)
      OBVIOUS
    <2> QED BY <2>1
  <1>2. /\ IsFiniteSet(before) /\ IsFiniteSet(behind) /\ b \in Nat /\ e \in Nat
    BY <1>1, LinesFinite
  <1>3. Cardinality(all) = b + e
    BY <1>1, <1>2, DisjointUnion
  <1>4. /\ \A i \in before : Rank(all, i) = Rank(before, i)
        /\ \A i \in behind : Rank(all, i) = b + Rank(behind, i)
    BY RanksFollow
  <1>6. ASSUME NEW n \in 1..b
        PROVE  Nth(all, n) = Nth(before, n) /\ Nth(before, n) \in before
    <2>1. Nth(before, n) \in before /\ Rank(before, Nth(before, n)) = n
      BY <1>1, NthExists
    <2>2. Rank(all, Nth(before, n)) = n
      BY <1>4, <2>1
    <2>3. Nth(before, n) \in all
      BY <2>1
    <2> HIDE DEF all
    <2> QED BY <1>1, <2>1, <2>2, <2>3, NthIs
  <1>7. ASSUME NEW n \in 1..e
        PROVE  Nth(all, b + n) = Nth(behind, n) /\ Nth(behind, n) \in behind
    <2>1. Nth(behind, n) \in behind /\ Rank(behind, Nth(behind, n)) = n
      BY <1>1, NthExists
    <2>2. Rank(all, Nth(behind, n)) = b + n
      BY <1>4, <2>1
    <2>3. Nth(behind, n) \in all
      BY <2>1
    <2> HIDE DEF all
    <2> QED BY <1>1, <2>1, <2>2, <2>3, NthIs
  <1> DEFINE s == Entries(lines, before)
             t == Entries(lines, behind)
             u == Entries(lines, all)
  <1>8. /\ s = [n \in 1..b |-> lines[Nth(before, n)][1]]
        /\ t = [n \in 1..e |-> lines[Nth(behind, n)][1]]
        /\ u = [n \in 1..b + e |-> lines[Nth(all, n)][1]]
    BY <1>3 DEF Entries
  <1>9. /\ \A n \in 1..b : s[n] \in Events /\ u[n] = s[n]
        /\ \A n \in 1..e : t[n] \in Events /\ u[b + n] = t[n]
    <2>1. \A n \in 1..b : n \in 1..b + e
      BY <1>2
    <2>2. \A n \in 1..e : b + n \in 1..b + e
      BY <1>2
    <2> HIDE DEF s, t, u, b, e, all
    <2>3. \A n \in 1..b : s[n] \in Events /\ u[n] = s[n]
      BY <1>6, <1>8, <2>1
    <2>4. \A n \in 1..e : t[n] \in Events /\ u[b + n] = t[n]
      BY <1>7, <1>8, <2>2
    <2> QED BY <2>3, <2>4
  <1> HIDE DEF s, t, u, b, e, all
  <1>10. s \in Seq(Events) /\ t \in Seq(Events) /\ Len(s) = b /\ Len(t) = e
    <2>1. s \in [1..b -> Events] /\ t \in [1..e -> Events]
      BY <1>8, <1>9
    <2> QED BY <1>2, <2>1
  <1>11. \A n \in 1..b + e : u[n] \in Events /\ u[n] = (s \o t)[n]
    <2> SUFFICES ASSUME NEW n \in 1..b + e
                 PROVE  u[n] \in Events /\ u[n] = (s \o t)[n]
      OBVIOUS
    <2>1. CASE n <= b
      <3>1. n \in 1..b /\ (s \o t)[n] = s[n]
        BY <1>2, <1>10, <2>1
      <3> QED BY <1>9, <3>1
    <2>2. CASE ~(n <= b)
      <3>1. n - b \in 1..e /\ b + (n - b) = n /\ (s \o t)[n] = t[n - b]
        BY <1>2, <1>10, <2>2
      <3> QED BY <1>9, <3>1
    <2> QED BY <2>1, <2>2
  <1>12. u = s \o t
    <2>1. u \in [1..b + e -> Events] /\ b + e \in Nat
      BY <1>2, <1>8, <1>11
    <2>2. u \in Seq(Events) /\ Len(u) = b + e
      BY <2>1
    <2>3. s \o t \in Seq(Events) /\ Len(s \o t) = b + e
      BY <1>2, <1>10
    <2> QED BY <1>11, <2>2, <2>3
  <1> QED BY <1>10, <1>12 DEF s, t, u, all

-----------------------------------------------------------------------------
(* A client that pages through the index of jobs misses none.                *)

\* new has every line of log; one that can be read says what it said before.
Extends(log, new) ==
    /\ Len(Lines(log)) <= Len(Lines(new))
    /\ \A i \in 1..Len(Lines(log)) :
           Whole(Lines(new)[i]) => Lines(new)[i] = Lines(log)[i]

LEMMA LineAt ==
    ASSUME NEW S, NEW log \in Files(S)
    PROVE  /\ \A i \in 1..Len(log.closed) : Lines(log)[i] = log.closed[i]
           /\ log.open # <<>> => Lines(log)[Len(log.closed) + 1] = log.open
  <1>1. /\ log.closed \in Seq(Seq(S \cup {Torn})) /\ <<log.open>> \in Seq(Seq(S \cup {Torn}))
        /\ <<>> \in Seq(Seq(S \cup {Torn}))
    BY DEF Files
  <1>2. CASE log.open = <<>>
    <2>1. Lines(log) = log.closed \o <<>>
      BY <1>2 DEF Lines
    <2> QED BY <1>1, <1>2, <2>1
  <1>3. CASE log.open # <<>>
    <2>1. Lines(log) = log.closed \o <<log.open>>
      BY <1>3 DEF Lines
    <2>2. Len(<<log.open>>) = 1 /\ <<log.open>>[1] = log.open
      OBVIOUS
    <2> QED BY <1>1, <2>1, <2>2
  <1> QED BY <1>2, <1>3

LEMMA LengthIsNat ==
    ASSUME NEW S, NEW log \in Files(S)
    PROVE  Len(Lines(log)) \in Nat
  BY LinesLength

LEMMA PutExtends ==
    ASSUME NEW S, NEW log \in Files(S), NEW value \in S \cup {Torn}
    PROVE  Extends(log, Put(log, value))
  <1> DEFINE new == Put(log, value)
  <1>1. /\ new \in Files(S) /\ new.closed = log.closed
        /\ new.open = Append(log.open, value)
    BY PutFile
  <1>2. Len(log.closed) \in Nat /\ Len(log.open) \in Nat
    BY DEF Files
  <1>3. Len(new.open) = Len(log.open) + 1
    BY <1>1 DEF Files
  <1>4. new.open # <<>>
    BY <1>2, <1>3
  <1>5. /\ log.open = <<>> => Len(Lines(log)) = Len(log.closed)
        /\ log.open # <<>> => Len(Lines(log)) = Len(log.closed) + 1
    BY LinesLength
  <1>6. Len(Lines(new)) = Len(log.closed) + 1
    BY <1>1, <1>4, LinesLength
  <1>7. ASSUME NEW i \in 1..Len(Lines(log)), Whole(Lines(new)[i])
        PROVE  Lines(new)[i] = Lines(log)[i]
    <2>1. CASE i \in 1..Len(log.closed)
      BY <1>1, <2>1, LineAt
    <2>2. CASE i \notin 1..Len(log.closed)
      <3>1. i = Len(log.closed) + 1 /\ log.open # <<>>
        BY <1>2, <1>5, <2>2
      <3>2. Lines(new)[i] = new.open
        BY <1>1, <1>4, <3>1, LineAt
      <3>3. Len(log.open) # 0
        BY <3>1 DEF Files
      <3>4. Len(new.open) = 1
        BY <1>7, <3>2 DEF Whole
      <3>5. Len(log.open) + 1 # 1
        BY <1>2, <3>3
      <3> HIDE DEF new
      <3> QED BY <1>3, <3>4, <3>5
    <2> QED BY <2>1, <2>2
  <1> QED BY <1>2, <1>5, <1>6, <1>7 DEF Extends

LEMMA EndLineExtends ==
    ASSUME NEW S, NEW log \in Files(S)
    PROVE  Extends(log, EndLine(log))
  <1> DEFINE new == EndLine(log)
  <1>1. /\ new \in Files(S) /\ new.closed = Append(log.closed, log.open)
        /\ new.open = <<>>
    BY EndLineFile DEF EndLine
  <1>2. log.closed \in Seq(Seq(S \cup {Torn})) /\ log.open \in Seq(S \cup {Torn})
    BY DEF Files
  <1>3. Len(new.closed) = Len(log.closed) + 1 /\ Len(log.closed) \in Nat
    BY <1>1, <1>2
  <1>4. /\ log.open = <<>> => Len(Lines(log)) = Len(log.closed)
        /\ log.open # <<>> => Len(Lines(log)) = Len(log.closed) + 1
    BY LinesLength
  <1>5. Len(Lines(new)) = Len(new.closed)
    BY <1>1, <1>3, LinesLength
  <1>6. ASSUME NEW i \in 1..Len(Lines(log))
        PROVE  Lines(new)[i] = Lines(log)[i]
    <2>1. i \in 1..Len(new.closed)
      BY <1>3, <1>4
    <2>2. Lines(new)[i] = Append(log.closed, log.open)[i]
      BY <1>1, <2>1, LineAt
    <2>3. CASE i \in 1..Len(log.closed)
      BY <1>2, <2>2, <2>3, LineAt
    <2>4. CASE i \notin 1..Len(log.closed)
      <3>1. i = Len(log.closed) + 1 /\ log.open # <<>>
        BY <1>3, <1>4, <2>4
      <3> QED BY <1>2, <2>2, <3>1, LineAt
    <2> QED BY <2>3, <2>4
  <1> QED BY <1>3, <1>4, <1>5, <1>6 DEF Extends

LEMMA WritesExtend ==
    ASSUME NEW S, NEW log \in Files(S), NEW value \in S \cup {Torn}
    PROVE  /\ Extends(log, Put(log, value)) /\ Extends(log, EndLine(log))
           /\ Extends(log, EndLine(Put(log, value)))
  <1> DEFINE put == Put(log, value)
  <1>1. Extends(log, put) /\ put \in Files(S) /\ Extends(log, EndLine(log))
    BY PutExtends, PutFile, EndLineExtends
  <1>2. Extends(put, EndLine(put))
    BY <1>1, EndLineExtends
  <1>3. /\ Len(Lines(log)) \in Nat /\ Len(Lines(put)) \in Nat
        /\ Len(Lines(EndLine(put))) \in Nat
    BY <1>1, LengthIsNat, EndLineFile
  <1> HIDE DEF put
  <1>4. Extends(log, EndLine(put))
    BY <1>1, <1>2, <1>3 DEF Extends
  <1> QED BY <1>1, <1>4 DEF put

\* Every step extends the index or leaves it alone.
LEMMA IndexExtends ==
    ASSUME LagInv, LagInv', [Next]_vars
    PROVE  index' = index \/ Extends(index, index')
  <1>1. index \in Files(Jobs) /\ index' \in Files(Jobs)
    BY DEF LagInv, Typed, IndexFiles
  <1>2. ASSUME NEW j \in Jobs \cup {Torn}
        PROVE  /\ Extends(index, Put(index, j)) /\ Extends(index, EndLine(index))
               /\ Extends(index, EndLine(Put(index, j)))
    BY <1>1, WritesExtend
  <1>3. CASE UNCHANGED vars
    BY <1>3 DEF vars, logVars
  <1>4. ASSUME NEW x \in Writers, AppendStep(x) PROVE index' = index
    BY <1>4 DEF AppendStep, WriteEvent, WriteNewline
  <1>5. ASSUME NEW j \in Jobs, Acquire(j) \/ SubmissionStep(j) \/ SubmissionFails(j)
        PROVE  index' = index \/ Extends(index, index')
    <2>1. index' \in {index, Put(index, j), Put(index, Torn), EndLine(index),
                      EndLine(Put(index, j))}
      BY <1>5 DEF Acquire, SubmissionStep, Register, Registered, Count, Enqueue,
                  SubmissionFails, Written, logVars
    <2> QED BY <1>2, <2>1
  <1>6. ASSUME NEW x \in {Worker} \cup Admins, EmitFails(x) \/ Begin \/ Update(x)
        PROVE  index' = index
    BY <1>6 DEF EmitFails, Begin, Update, logVars
  <1>7. CASE Crash
    <2>1. index' \in {index, Put(index, Torn)}
      BY <1>7 DEF Crash
    <2> QED BY <1>2, <2>1
  <1>8. CASE Start \/ ReadEvents \/ ListJobs
    BY <1>8 DEF Start, ReadEvents, ListJobs, logVars
  <1> QED BY <1>3, <1>4, <1>5, <1>6, <1>7, <1>8 DEF Next

\* What the client knows of the lines before its cursor.
JobsKnown ==
    client = "jobs" =>
        /\ cursor \in Nat /\ cursor <= Len(Lines(index))
        /\ \A i \in 1..cursor : Whole(Lines(index)[i]) =>
               Lines(index)[i][1] \in seen \cup skipped

\* The cursor moves by the number of jobs returned, which is at most the number of
\* lines read.
LEMMA PageFits ==
    ASSUME NEW from \in Nat, NEW stop \in Nat, from <= stop,
           NEW page \in SUBSET (from + 1..stop)
    PROVE  /\ Cardinality(page) \in Nat
           /\ from + Cardinality(page) <= stop
  <1>1. IsFiniteSet(from + 1..stop) /\ Cardinality(from + 1..stop) <= stop - from
    <2>1. from + 1 \in Int /\ stop \in Int
      OBVIOUS
    <2>2. /\ IsFiniteSet(from + 1..stop)
          /\ Cardinality(from + 1..stop) =
                 IF from + 1 > stop THEN 0 ELSE stop - (from + 1) + 1
      BY <2>1, FS_Interval
    <2> QED BY <2>1, <2>2
  <1>2. IsFiniteSet(page) /\ Cardinality(page) <= Cardinality(from + 1..stop)
    BY <1>1, FS_Subset
  <1>3. Cardinality(page) \in Nat /\ Cardinality(from + 1..stop) \in Nat
    BY <1>1, <1>2, FS_CardinalityType
  <1> QED BY <1>1, <1>2, <1>3

LEMMA LimitIsPositive ==
    ASSUME NEW n \in Limits
    PROVE  Limit(n) \in Nat \ {0}
  BY LimitsAssumption DEF Limit

LEMMA StopBound ==
    ASSUME NEW lines, Len(lines) \in Nat, NEW found \in SUBSET (1..Len(lines)),
           NEW n \in Nat \ {0}
    PROVE  /\ Stop(found, lines, n) \in Nat /\ Stop(found, lines, n) <= Len(lines)
           /\ Stop(found, lines, n) \in found \cup {Len(lines)}
  <1>1. Cardinality(found) \in Nat
    BY LinesFinite
  <1>2. CASE n <= Cardinality(found)
    <2>1. n \in 1..Cardinality(found)
      BY <1>1, <1>2
    <2>2. Stop(found, lines, n) \in found
      BY <1>2, <2>1, NthExists DEF Stop
    <2> HIDE DEF Stop
    <2>3. \A i \in found : i \in Nat /\ i <= Len(lines)
      OBVIOUS
    <2> QED BY <2>2, <2>3
  <1>3. CASE ~(n <= Cardinality(found))
    BY <1>3 DEF Stop
  <1> QED BY <1>2, <1>3

LEMMA ListKnown ==
    ASSUME LagInv, JobsKnown, ListJobs
    PROVE  JobsKnown'
  <1> DEFINE lines == Lines(index)
  <1>1. Len(lines) \in Nat
    BY LengthIsNat DEF LagInv, Typed, IndexFiles
  <1>2. PICK n \in Limits, bad \in SUBSET Jobs :
            LET Readable(line) == Whole(line) /\ line[1] \notin bad
                found == {i \in cursor + 1..Len(lines) : Readable(lines[i])}
                stop  == Stop(found, lines, Limit(n))
                page  == {i \in found : i <= stop}
            IN /\ client = "jobs" /\ cursor < Len(lines)
               /\ seen' = seen \cup {lines[i][1] : i \in page}
               /\ skipped' = skipped \cup bad
               /\ cursor' = NextJobs(Cardinality(page), Limit(n))
    BY DEF ListJobs
  <1> DEFINE found == {i \in cursor + 1..Len(lines) :
                           Whole(lines[i]) /\ lines[i][1] \notin bad}
             stop  == Stop(found, lines, Limit(n))
             page  == {i \in found : i <= stop}
             reach == IF cursor <= stop THEN stop ELSE cursor
  <1>3. /\ seen' = seen \cup {lines[i][1] : i \in page}
        /\ skipped' = skipped \cup bad /\ cursor' = cursor + Cardinality(page)
    BY <1>2 DEF NextJobs
  <1>4. cursor \in Nat /\ cursor <= Len(lines)
    BY <1>2 DEF JobsKnown
  <1>5. stop \in Nat /\ stop <= Len(lines)
    <2>1. found \in SUBSET (1..Len(lines))
      BY <1>1, <1>4
    <2>2. Limit(n) \in Nat \ {0}
      BY LimitIsPositive
    <2> HIDE DEF found, lines
    <2> QED BY <1>1, <2>1, <2>2, StopBound
  <1>6. reach \in Nat /\ cursor <= reach /\ reach <= Len(lines)
    BY <1>1, <1>4, <1>5
  <1>7. page \in SUBSET (cursor + 1..reach)
    <2> SUFFICES ASSUME NEW i \in page PROVE i \in cursor + 1..reach
      OBVIOUS
    <2>1. i \in cursor + 1..Len(lines) /\ i <= stop
      OBVIOUS
    <2> HIDE DEF found, stop
    <2> QED BY <1>1, <1>4, <1>5, <2>1
  <1>8. cursor' \in Nat /\ cursor' <= reach
    <2> HIDE DEF found, stop, page, reach
    <2>1. Cardinality(page) \in Nat /\ cursor + Cardinality(page) <= reach
      <3>1. cursor \in Nat /\ reach \in Nat /\ cursor <= reach
        BY <1>4, <1>6
      <3> QED BY <3>1, <1>7, PageFits
    <2>2. cursor' = cursor + Cardinality(page) /\ cursor \in Nat
      BY <1>3, <1>4
    <2> QED BY <2>1, <2>2
  <1>9. UNCHANGED <<index, client>>
    BY DEF ListJobs, logVars
  <1>10. ASSUME NEW i \in 1..cursor', Whole(lines[i])
         PROVE  lines[i][1] \in seen' \cup skipped'
    <2>1. CASE i \in 1..cursor
      BY <1>2, <1>3, <1>10, <2>1 DEF JobsKnown
    <2>2. CASE i \notin 1..cursor /\ lines[i][1] \in bad
      BY <1>3, <2>2
    <2>3. CASE i \notin 1..cursor /\ lines[i][1] \notin bad
      <3>1. i \in cursor + 1..Len(lines) /\ i <= stop
        BY <1>1, <1>4, <1>5, <1>6, <1>8, <2>3
      <3>2. i \in page
        BY <1>10, <2>3, <3>1
      <3> QED BY <1>3, <3>2
    <2> QED BY <2>1, <2>2, <2>3
  <1>11. Lines(index)' = lines
    BY <1>9 DEF Lines
  <1> QED BY <1>1, <1>6, <1>8, <1>10, <1>11 DEF JobsKnown

LEMMA KnownStep ==
    ASSUME LagInv, LagInv', JobsKnown, [Next]_vars
    PROVE  JobsKnown'
  <1>1. CASE ListJobs
    BY <1>1, ListKnown
  <1>2. CASE ~ListJobs
    <2> SUFFICES ASSUME client' = "jobs"
                 PROVE  JobsKnown'
      BY DEF JobsKnown
    <2>1. UNCHANGED clientVars
      BY <1>2 DEF Next, vars, AppendStep, WriteEvent, WriteNewline, Acquire,
                  SubmissionStep, Register, Registered, Count, Enqueue, SubmissionFails,
                  EmitFails, Begin, Update, Crash, Start, ReadEvents, clientVars
    <2>2. client = "jobs" /\ UNCHANGED <<cursor, seen, skipped>>
      BY <2>1 DEF clientVars
    <2>3. /\ cursor \in Nat /\ cursor <= Len(Lines(index))
          /\ \A i \in 1..cursor : Whole(Lines(index)[i]) =>
                 Lines(index)[i][1] \in seen \cup skipped
      BY <2>2 DEF JobsKnown
    <2>4. Len(Lines(index)) \in Nat /\ Len(Lines(index')) \in Nat
      BY LengthIsNat DEF LagInv, Typed, IndexFiles
    <2>5. Lines(index)' = Lines(index')
      BY DEF Lines
    <2>6. CASE index' = index
      BY <2>2, <2>3, <2>5, <2>6 DEF JobsKnown
    <2>7. CASE Extends(index, index')
      <3>1. cursor <= Len(Lines(index'))
        BY <2>3, <2>4, <2>7 DEF Extends
      <3>2. ASSUME NEW i \in 1..cursor, Whole(Lines(index')[i])
            PROVE  Lines(index')[i][1] \in seen \cup skipped
        <4>1. i \in 1..Len(Lines(index))
          BY <2>3, <2>4
        <4>2. Lines(index')[i] = Lines(index)[i]
          BY <2>7, <3>2, <4>1 DEF Extends
        <4> QED BY <2>3, <3>2, <4>2
      <3> QED BY <2>2, <2>3, <2>5, <3>1, <3>2 DEF JobsKnown
    <2> QED BY <2>6, <2>7, IndexExtends
  <1> QED BY <1>1, <1>2

\* A client that follows next_cursor through the listing of jobs misses none,
\* whatever is torn and whatever record cannot be read (api.rs, jobs).
THEOREM ListingComplete == Spec => []NoJobMissed
  <1> DEFINE IInv == LagInv /\ JobsKnown
  <1>1. Init => IInv
    <2> SUFFICES ASSUME Init PROVE JobsKnown
      BY InitLags
    <2>1. cursor = 0 /\ Len(Lines(index)) \in Nat
      BY InitLags, LengthIsNat DEF Init, LagInv, Typed, IndexFiles
    <2> QED BY <2>1 DEF JobsKnown
  <1>2. IInv /\ [Next]_vars => IInv'
    BY StepLags, KnownStep
  <1>3. IInv => NoJobMissed
    <2> SUFFICES ASSUME IInv, client = "jobs", NEW i \in DOMAIN Lines(index), i <= cursor,
                        Whole(Lines(index)[i])
                 PROVE  Lines(index)[i][1] \in seen \cup skipped
      BY DEF NoJobMissed
    <2>1. i \in 1..cursor
      <3>1. Lines(index) \in Seq(Seq(Jobs \cup {Torn}))
        BY LinesLength DEF LagInv, Typed, IndexFiles
      <3> QED BY <3>1 DEF JobsKnown
    <2> QED BY <2>1 DEF JobsKnown
  <1> QED BY <1>1, <1>2, <1>3, PTL DEF Spec
-----------------------------------------------------------------------------
(* A client that follows the events gets each of its own once.               *)

\* Every step extends the events or leaves them alone.
LEMMA EventsExtend ==
    ASSUME LagInv, [Next]_vars
    PROVE  events' = events \/ Extends(events, events')
  <1> USE WritersDistinct
  <1>1. events \in Files(Events) /\ \A x \in Writers : event[x] \in Events
    BY DEF LagInv, Typed, EventFiles
  <1>2. ASSUME NEW x \in Writers,
               events' \in {events, Put(events, event[x]), Put(events, Torn),
                            EndLine(events), EndLine(Put(events, event[x]))}
        PROVE  events' = events \/ Extends(events, events')
    <2>1. event[x] \in Events \cup {Torn} /\ Torn \in Events \cup {Torn}
      BY <1>1
    <2> QED BY <1>1, <1>2, <2>1, WritesExtend
  <1>3. CASE UNCHANGED vars
    BY <1>3 DEF vars, logVars
  <1>4. ASSUME NEW x \in Writers, AppendStep(x)
        PROVE  events' = events \/ Extends(events, events')
    BY <1>2, <1>4 DEF AppendStep, WriteEvent, WriteNewline
  <1>5. ASSUME NEW j \in Jobs, Acquire(j) \/ SubmissionStep(j) PROVE events' = events
    BY <1>5 DEF Acquire, SubmissionStep, Register, Registered, Count, Enqueue, logVars
  <1>6. ASSUME NEW j \in Jobs, SubmissionFails(j)
        PROVE  events' = events \/ Extends(events, events')
    <2>1. events' = events \/ events' \in Written(events, event[j])
      BY <1>6 DEF SubmissionFails, logVars
    <2> QED BY <1>2, <2>1 DEF Written
  <1>7. ASSUME NEW x \in {Worker} \cup Admins, EmitFails(x)
        PROVE  events' = events \/ Extends(events, events')
    <2>1. events' = events \/ events' \in Written(events, event[x])
      BY <1>7 DEF EmitFails
    <2> QED BY <1>2, <2>1 DEF Written
  <1>8. CASE Begin \/ (\E a \in Admins : Update(a)) \/ Start \/ ReadEvents \/ ListJobs
    BY <1>8 DEF Begin, Update, Start, ReadEvents, ListJobs, logVars
  <1>9. CASE Crash
    <2>1. events' \in {events, Put(events, Torn)}
      BY <1>9 DEF Crash
    <2> QED BY <1>2, <2>1
  <1> QED BY <1>3, <1>4, <1>5, <1>6, <1>7, <1>8, <1>9 DEF Next

\* The client's cursor is on a line of the log.
Following == client # "jobs" => cursor \in Nat /\ cursor <= Len(Lines(events))

LEMMA KeptEvents ==
    ASSUME LagInv, NEW i \in 1..Len(Lines(events)), Matches(Lines(events)[i])
    PROVE  Lines(events)[i][1] \in Events
  <1>1. Lines(events) \in Seq(Seq(Events \cup {Torn}))
    BY LinesLength DEF LagInv, Typed, EventFiles
  <1>2. Lines(events)[i] \in Seq(Events \cup {Torn})
    BY <1>1
  <1>3. Len(Lines(events)[i]) = 1 /\ Lines(events)[i][1] # Torn
    BY DEF Matches, Whole
  <1>4. Lines(events)[i][1] \in Events \cup {Torn}
    BY <1>2, <1>3
  <1> QED BY <1>3, <1>4

\* A page: the cursor moves to the last line read, and what is returned are the
\* entries of the lines up to there.
LEMMA PageExact ==
    ASSUME LagInv, Following, ReadEvents
    PROVE  /\ client # "jobs" /\ UNCHANGED <<events, client>>
           /\ cursor' \in Nat /\ cursor < cursor' /\ cursor' <= Len(Lines(events))
           /\ got' = got \o Entries(Lines(events), {i \in cursor + 1..cursor' :
                                                        Matches(Lines(events)[i])})
  <1> DEFINE lines == Lines(events)
  <1>1. PICK n \in Limits :
            LET found == {i \in cursor + 1..Len(lines) : Matches(lines[i])}
                stop  == Stop(found, lines, Limit(n))
                page  == {i \in found : i <= stop}
            IN /\ client # "jobs" /\ cursor < Len(lines)
               /\ got' = got \o Entries(lines, page)
               /\ cursor' = NextCursor(stop, Cardinality(page))
    BY DEF ReadEvents
  <1> DEFINE found == {i \in cursor + 1..Len(lines) : Matches(lines[i])}
             stop  == Stop(found, lines, Limit(n))
             page  == {i \in found : i <= stop}
  <1>2. Len(lines) \in Nat /\ cursor \in Nat /\ cursor < Len(lines)
    BY <1>1, LengthIsNat DEF LagInv, Typed, EventFiles, Following
  <1>3. found \in SUBSET (1..Len(lines)) /\ \A i \in found : cursor < i
    BY <1>2
  <1>4. /\ stop \in Nat /\ stop <= Len(lines) /\ cursor < stop
    <2>1. Limit(n) \in Nat \ {0}
      BY LimitIsPositive
    <2> HIDE DEF found, lines
    <2>2. /\ stop \in Nat /\ stop <= Len(lines)
          /\ stop \in found \cup {Len(lines)}
      BY <1>2, <1>3, <2>1, StopBound
    <2> HIDE DEF stop
    <2> QED BY <1>2, <1>3, <2>2
  <1>5. page = {i \in cursor + 1..stop : Matches(lines[i])}
    <2> HIDE DEF stop, lines
    <2> QED BY <1>2, <1>4
  <1>6. /\ cursor' = stop /\ got' = got \o Entries(lines, page) /\ client # "jobs"
    BY <1>1 DEF NextCursor
  <1>7. UNCHANGED <<events, client>>
    BY DEF ReadEvents, logVars
  <1> HIDE DEF stop, page, found
  <1> QED BY <1>4, <1>5, <1>6, <1>7

\* Only a page of events moves a client that follows events.
LEMMA FollowerAside ==
    ASSUME [Next]_vars, ~ReadEvents
    PROVE  UNCHANGED client /\ (client # "jobs" => UNCHANGED <<cursor, got>>)
  BY DEF Next, vars, AppendStep, WriteEvent, WriteNewline, Acquire, SubmissionStep,
         Register, Registered, Count, Enqueue, SubmissionFails, EmitFails, Begin, Update,
         Crash, Start, ListJobs, clientVars

LEMMA FollowingStep ==
    ASSUME LagInv, LagInv', Following, [Next]_vars
    PROVE  Following'
  <1>1. Lines(events)' = Lines(events')
    BY DEF Lines
  <1>2. CASE ReadEvents
    <2>1. Lines(events)' = Lines(events)
      BY <1>2, <1>1, PageExact
    <2> QED BY <1>2, <2>1, PageExact DEF Following
  <1>3. CASE ~ReadEvents
    <2>1. UNCHANGED client /\ (client # "jobs" => UNCHANGED cursor)
      BY <1>3, FollowerAside
    <2>2. Len(Lines(events)) \in Nat /\ Len(Lines(events')) \in Nat
      BY LengthIsNat DEF LagInv, Typed, EventFiles
    <2>3. Len(Lines(events)) <= Len(Lines(events'))
      BY <2>2, EventsExtend DEF Extends
    <2> QED BY <1>1, <2>1, <2>2, <2>3 DEF Following
  <1> QED BY <1>2, <1>3

LEMMA FollowerStep ==
    ASSUME LagInv, LagInv', Following, FollowerExact, [Next]_vars
    PROVE  FollowerExact'
  <1> DEFINE old == Lines(events)
             new == Lines(events')
             kept == {i \in 1..cursor : Matches(old[i])}
  <1>1. Lines(events)' = new
    BY DEF Lines
  <1>2. Len(old) \in Nat /\ Len(new) \in Nat
    BY LengthIsNat DEF LagInv, Typed, EventFiles
  <1>3. client' = client
    BY PageExact, FollowerAside
  <1> SUFFICES ASSUME client # "jobs", \A i \in 1..cursor' : Whole(new[i])
               PROVE  got' = Entries(new, {i \in 1..cursor' : Matches(new[i])})
    BY <1>1, <1>3 DEF FollowerExact, Matches
  <1>4. CASE ReadEvents
    <2> DEFINE behind == {i \in cursor + 1..cursor' : Matches(old[i])}
    <2>1. /\ client # "jobs" /\ UNCHANGED <<events, client>>
          /\ cursor' \in Nat /\ cursor < cursor' /\ cursor' <= Len(old)
          /\ got' = got \o Entries(old, behind)
      BY <1>4, PageExact
    <2>2. cursor \in Nat
      BY <2>1 DEF Following
    <2>3. \A i \in 1..cursor' : Whole(old[i])
      BY <2>1
    <2>4. {i \in 1..cursor' : Matches(old[i])} = kept \cup behind
      <3> HIDE DEF old
      <3> QED BY <2>1, <2>2
    <2>5. got = Entries(old, kept)
      BY <2>1, <2>2, <2>3 DEF FollowerExact
    <2>6. /\ kept \in SUBSET (1..cursor') /\ behind \in SUBSET (1..cursor')
          /\ \A i \in kept, k \in behind : i < k
      BY <2>1, <2>2
    <2>7. /\ \A i \in kept : old[i][1] \in Events
          /\ \A i \in behind : old[i][1] \in Events
      BY <1>2, <2>1, <2>2, KeptEvents
    <2> HIDE DEF kept, behind, old
    <2>8. Entries(old, kept \cup behind) = Entries(old, kept) \o Entries(old, behind)
      BY <2>1, <2>6, <2>7, EntriesFollow
    <2>9. new = old
      BY <2>1 DEF old
    <2> HIDE DEF new
    <2> QED BY <2>1, <2>4, <2>5, <2>8, <2>9
  <1>5. CASE ~ReadEvents
    <2>1. UNCHANGED client /\ UNCHANGED <<cursor, got>>
      BY <1>5, FollowerAside
    <2>2. cursor \in Nat /\ cursor <= Len(old)
      BY <2>1 DEF Following
    <2>3. \A i \in 1..cursor : new[i] = old[i]
      BY <1>2, <2>1, <2>2, EventsExtend DEF Extends
    <2>4. \A i \in 1..cursor : Whole(old[i])
      BY <2>1, <2>3
    <2>5. {i \in 1..cursor' : Matches(new[i])} = kept
      BY <2>1, <2>3
    <2>6. got = Entries(old, kept)
      BY <2>4 DEF FollowerExact
    <2>7. kept \in SUBSET (1..cursor)
      OBVIOUS
    <2> HIDE DEF kept, old, new
    <2>8. \A n \in 1..Cardinality(kept) : new[Nth(kept, n)] = old[Nth(kept, n)]
      BY <2>2, <2>3, <2>7, NthExists
    <2>9. Entries(new, kept) = Entries(old, kept)
      BY <2>8 DEF Entries
    <2> QED BY <2>1, <2>5, <2>6, <2>9
  <1> QED BY <1>4, <1>5

\* A client that follows the events receives those it asked for, in the order of the
\* log and each once (persist.rs, read_ndjson_page).
THEOREM FollowingIsExact == Spec => []FollowerExact
  <1> DEFINE IInv == LagInv /\ Following /\ FollowerExact
  <1>1. Init => IInv
    <2> SUFFICES ASSUME Init PROVE Following /\ FollowerExact
      BY InitLags
    <2>1. cursor = 0 /\ got = <<>> /\ Len(Lines(events)) \in Nat
      BY InitLags, LengthIsNat DEF Init, LagInv, Typed, EventFiles
    <2>2. {i \in 1..cursor : Matches(Lines(events)[i])} = {}
      BY <2>1
    <2>3. Entries(Lines(events), {}) = <<>>
      BY FS_EmptySet DEF Entries
    <2> QED BY <2>1, <2>2, <2>3 DEF Following, FollowerExact
  <1>2. IInv /\ [Next]_vars => IInv'
    BY StepLags, FollowingStep, FollowerStep
  <1> QED BY <1>1, <1>2, PTL DEF Spec

-----------------------------------------------------------------------------
(* A job is announced as queued before it is announced as begun.             *)

Says(i, kind, j) == LET line == Lines(events)[i] IN
                    Whole(line) /\ line[1].kind = kind /\ line[1].job = j

\* What can be read of new was there before, or is the value in a line of its own.
Adds(log, new, value) ==
    \A i \in 1..Len(Lines(new)) :
        Whole(Lines(new)[i]) =>
            \/ i <= Len(Lines(log)) /\ Lines(new)[i] = Lines(log)[i]
            \/ i > Len(Lines(log)) /\ Lines(new)[i][1] = value

\* A submission announces its job before it hands it over; the worker announces what
\* it took from its queue.
Positions ==
    /\ job \in [Jobs -> {"none", "queued", "begun"}]
    /\ \A j \in Jobs : pc[j] # "idle" => job[j] = "queued"
    /\ \A n \in 1..Len(queue) : pc[queue[n]] = "idle" /\ job[queue[n]] # "none"
    /\ ~up => queue = <<>> /\ \A j \in Jobs : pc[j] = "idle"
    /\ \A x \in Writers : pc[x] = "event" /\ event[x].kind = "queued" =>
           x \in Jobs /\ event[x].job = x
    /\ \A x \in Writers, j \in Jobs :
           pc[x] = "event" /\ event[x].kind = "writing" /\ event[x].job = j =>
               job[j] = "begun"

LogOrder ==
    \A j \in Jobs, i \in 1..Len(Lines(events)) :
        Says(i, "writing", j) =>
            /\ job[j] = "begun"
            /\ \A k \in 1..Len(Lines(events)) : Says(k, "queued", j) => k < i

LEMMA PutAdds ==
    ASSUME NEW S, NEW log \in Files(S), NEW value \in S \cup {Torn}
    PROVE  Adds(log, Put(log, value), value)
  <1> DEFINE new == Put(log, value)
  <1>1. /\ new \in Files(S) /\ new.closed = log.closed
        /\ new.open = Append(log.open, value)
    BY PutFile
  <1>2. Len(log.closed) \in Nat /\ log.open \in Seq(S \cup {Torn})
    BY DEF Files
  <1>3. /\ log.open = <<>> => Len(Lines(log)) = Len(log.closed)
        /\ log.open # <<>> => Len(Lines(log)) = Len(log.closed) + 1
    BY LinesLength
  <1>4. Len(new.open) = Len(log.open) + 1 /\ Len(log.open) \in Nat
    BY <1>1, <1>2
  <1>5. new.open # <<>>
    BY <1>4
  <1>6. Len(Lines(new)) = Len(log.closed) + 1
    BY <1>1, <1>5, LinesLength
  <1>7. Extends(log, new)
    BY PutExtends
  <1> HIDE DEF new
  <1> SUFFICES ASSUME NEW i \in 1..Len(Lines(new)), Whole(Lines(new)[i]),
                      ~(i <= Len(Lines(log)) /\ Lines(new)[i] = Lines(log)[i])
               PROVE  i > Len(Lines(log)) /\ Lines(new)[i][1] = value
    BY DEF Adds, new
  <1>8. i > Len(Lines(log))
    BY <1>2, <1>3, <1>6, <1>7 DEF Extends
  <1>9. log.open = <<>> /\ i = Len(log.closed) + 1
    BY <1>2, <1>3, <1>6, <1>8
  <1>10. Lines(new)[i] = new.open
    BY <1>1, <1>5, <1>9, LineAt
  <1>11. new.open[1] = value
    BY <1>1, <1>2, <1>9
  <1> QED BY <1>8, <1>10, <1>11

LEMMA EndLineAdds ==
    ASSUME NEW S, NEW log \in Files(S), NEW value
    PROVE  Adds(log, EndLine(log), value)
  <1> DEFINE new == EndLine(log)
  <1>1. /\ new \in Files(S) /\ new.closed = Append(log.closed, log.open)
        /\ new.open = <<>>
    BY EndLineFile DEF EndLine
  <1>2. log.closed \in Seq(Seq(S \cup {Torn})) /\ Len(log.closed) \in Nat
    BY DEF Files
  <1>3. /\ log.open = <<>> => Len(Lines(log)) = Len(log.closed)
        /\ log.open # <<>> => Len(Lines(log)) = Len(log.closed) + 1
    BY LinesLength
  <1>4. log.open \in Seq(S \cup {Torn})
    BY DEF Files
  <1>5. Len(new.closed) = Len(log.closed) + 1
    BY <1>1, <1>2, <1>4
  <1>6. Len(Lines(new)) = Len(log.closed) + 1
    BY <1>1, <1>5, LinesLength
  <1>7. Extends(log, new)
    BY EndLineExtends
  <1> HIDE DEF new
  <1> SUFFICES ASSUME NEW i \in 1..Len(Lines(new)), Whole(Lines(new)[i])
               PROVE  i <= Len(Lines(log)) /\ Lines(new)[i] = Lines(log)[i]
    BY DEF Adds, new
  <1>8. CASE log.open # <<>>
    BY <1>2, <1>3, <1>6, <1>7, <1>8 DEF Extends
  <1>9. CASE log.open = <<>> /\ i <= Len(log.closed)
    BY <1>2, <1>3, <1>7, <1>9 DEF Extends
  <1>10. CASE log.open = <<>> /\ i > Len(log.closed)
    <2>1. i = Len(log.closed) + 1
      BY <1>2, <1>6, <1>10
    <2>2. Lines(new)[i] = new.closed[i]
      BY <1>1, <1>2, <1>5, <2>1, LineAt
    <2>3. new.closed[i] = <<>>
      BY <1>1, <1>2, <1>4, <1>10, <2>1
    <2> QED BY <2>2, <2>3 DEF Whole
  <1> QED BY <1>2, <1>8, <1>9, <1>10

LEMMA WrittenAdds ==
    ASSUME NEW S, NEW log \in Files(S), NEW value \in S,
           NEW new \in Written(log, value)
    PROVE  Adds(log, new, value) \/ Adds(log, new, Torn)
  <1>1. CASE new = log
    <2>1. Len(Lines(log)) \in Nat
      BY LengthIsNat
    <2> QED BY <1>1, <2>1 DEF Adds
  <1>2. CASE new = Put(log, Torn)
    BY <1>2, PutAdds
  <1>3. CASE new = EndLine(Put(log, value))
    <2> DEFINE put == Put(log, value)
    <2>1. put \in Files(S) /\ Adds(log, put, value)
      BY PutFile, PutAdds
    <2>2. Adds(put, EndLine(put), value) /\ EndLine(put) \in Files(S)
      BY <2>1, EndLineAdds, EndLineFile
    <2>3. /\ Len(Lines(log)) \in Nat /\ Len(Lines(put)) \in Nat
          /\ Len(Lines(EndLine(put))) \in Nat
      BY <2>1, <2>2, LengthIsNat
    <2>4. Len(Lines(log)) <= Len(Lines(put))
      BY PutExtends DEF Extends
    <2> HIDE DEF put
    <2>5. Adds(log, EndLine(put), value)
      BY <2>1, <2>2, <2>3, <2>4 DEF Adds
    <2> QED BY <1>3, <2>5 DEF put
  <1> QED BY <1>1, <1>2, <1>3 DEF Written

\* Every step adds the event of one writer to the log, or nothing that can be read.
LEMMA StepAdds ==
    ASSUME LagInv, [Next]_vars
    PROVE  \/ Adds(events, events', Torn)
           \/ \E x \in Writers : pc[x] = "event" /\ Adds(events, events', event[x])
  <1> USE WritersDistinct
  <1>1. events \in Files(Events) /\ \A x \in Writers : event[x] \in Events
    BY DEF LagInv, Typed, EventFiles
  <1>2. CASE events' = events
    <2>1. Len(Lines(events)) \in Nat
      BY <1>1, LengthIsNat
    <2> QED BY <1>2, <2>1 DEF Adds
  <1>3. ASSUME NEW x \in Writers, pc[x] = "event",
               events' \in Written(events, event[x]) \cup {Put(events, event[x])}
        PROVE  Adds(events, events', Torn) \/ Adds(events, events', event[x])
    BY <1>1, <1>3, PutAdds, WrittenAdds
  <1>4. CASE UNCHANGED vars
    BY <1>2, <1>4 DEF vars, logVars
  <1>5. ASSUME NEW x \in Writers, WriteEvent(x)
        PROVE  \E y \in Writers : pc[y] = "event" /\ Adds(events, events', event[y])
    BY <1>1, <1>5, PutAdds DEF WriteEvent
  <1>6. ASSUME NEW x \in Writers, WriteNewline(x)
        PROVE  Adds(events, events', Torn)
    BY <1>1, <1>6, EndLineAdds DEF WriteNewline
  <1>7. ASSUME NEW j \in Jobs, Acquire(j) \/ SubmissionStep(j)
        PROVE  events' = events
    BY <1>7 DEF Acquire, SubmissionStep, Register, Registered, Count, Enqueue, logVars
  <1>8. ASSUME NEW j \in Jobs, SubmissionFails(j)
        PROVE  \/ events' = events
               \/ pc[j] = "event" /\ events' \in Written(events, event[j])
    BY <1>8 DEF SubmissionFails, logVars
  <1>9. ASSUME NEW x \in {Worker} \cup Admins, EmitFails(x)
        PROVE  \/ events' = events
               \/ pc[x] = "event" /\ events' \in Written(events, event[x])
    BY <1>9 DEF EmitFails
  <1>10. CASE Begin \/ (\E a \in Admins : Update(a)) \/ Start \/ ReadEvents \/ ListJobs
    BY <1>2, <1>10 DEF Begin, Update, Start, ReadEvents, ListJobs, logVars
  <1>11. CASE Crash
    <2>1. events' = events \/ events' = Put(events, Torn)
      BY <1>11 DEF Crash
    <2> QED BY <1>1, <1>2, <2>1, PutAdds
  <1> QED BY <1>2, <1>3, <1>4, <1>5, <1>6, <1>7, <1>8, <1>9, <1>10, <1>11
          DEF Next, AppendStep

\* A job that has begun stays so.
LEMMA BegunStays ==
    ASSUME Positions, [Next]_vars
    PROVE  \A j \in Jobs : job[j] = "begun" => job'[j] = "begun"
  BY DEF Positions, Next, vars, AppendStep, WriteEvent, WriteNewline, Acquire,
         SubmissionStep, Register, Registered, Count, Enqueue, SubmissionFails, EmitFails,
         Begin, Update, Crash, Start, ReadEvents, ListJobs, processVars

LEMMA LogOrderStep ==
    ASSUME LagInv, LagInv', Positions, LogOrder, [Next]_vars
    PROVE  LogOrder'
  <1> DEFINE old == Lines(events)
             new == Lines(events')
  <1>1. Len(old) \in Nat /\ Len(new) \in Nat
    BY LengthIsNat DEF LagInv, Typed, EventFiles
  <1>2. PICK v : /\ Adds(events, events', v)
                 /\ v = Torn \/ \E x \in Writers : pc[x] = "event" /\ v = event[x]
    BY StepAdds
  <1>3. \A i \in 1..Len(new) : Whole(new[i]) =>
            \/ i <= Len(old) /\ new[i] = old[i]
            \/ i > Len(old) /\ new[i][1] = v /\ v # Torn
    BY <1>2 DEF Adds, Whole
  <1>4. Lines(events)' = new
    BY DEF Lines
  <1> HIDE DEF new
  <1> SUFFICES ASSUME NEW j \in Jobs, NEW i \in 1..Len(new), Whole(new[i]),
                      new[i][1].kind = "writing", new[i][1].job = j
               PROVE  /\ job'[j] = "begun"
                      /\ \A k \in 1..Len(new) :
                            Whole(new[k]) /\ new[k][1].kind = "queued" /\ new[k][1].job = j
                                => k < i
    BY <1>4 DEF LogOrder, Says
  <1>5. job[j] = "begun"
    <2>1. CASE i <= Len(old) /\ new[i] = old[i]
      BY <1>1, <2>1 DEF LogOrder, Says
    <2>2. CASE i > Len(old) /\ new[i][1] = v /\ v # Torn
      BY <1>2, <2>2 DEF Positions
    <2> QED BY <1>3, <2>1, <2>2
  <1>6. ASSUME NEW k \in 1..Len(new), Whole(new[k]), new[k][1].kind = "queued",
               new[k][1].job = j
        PROVE  k < i
    <2>1. CASE k > Len(old) /\ new[k][1] = v /\ v # Torn
      <3>1. PICK x \in Writers : pc[x] = "event" /\ v = event[x]
        BY <1>2, <2>1
      <3>2. x = j /\ pc[j] = "event"
        BY <1>6, <2>1, <3>1 DEF Positions
      <3> QED BY <1>5, <3>2 DEF Positions
    <2>2. CASE k <= Len(old) /\ new[k] = old[k]
      <3>1. CASE i <= Len(old) /\ new[i] = old[i]
        BY <1>1, <1>6, <2>2, <3>1 DEF LogOrder, Says
      <3>2. CASE i > Len(old)
        BY <1>1, <2>2, <3>2
      <3> QED BY <1>3, <3>1, <3>2
    <2> QED BY <1>3, <1>6, <2>1, <2>2
  <1> QED BY <1>5, <1>6, BegunStays

\* A writer goes on with what it appends, and the jobs and the queue stay.
LEMMA AsidePositions ==
    ASSUME LagInv, Positions, UNCHANGED <<job, queue, up, event>>,
           \A y \in Writers : pc'[y] = pc[y] \/ (pc[y] # "idle" /\ pc'[y] # "event")
    PROVE  Positions'
  <1> USE WritersDistinct
  <1>1. \A n \in 1..Len(queue) : queue[n] \in Jobs
    BY DEF LagInv, Typed
  <1>2. \A y \in Writers : /\ pc'[y] # "idle" => pc[y] # "idle"
                           /\ pc'[y] = "event" => pc[y] = "event"
    OBVIOUS
  <1>3. \A n \in 1..Len(queue) : pc'[queue[n]] = "idle" /\ job[queue[n]] # "none"
    BY <1>1, <1>2 DEF Positions
  <1> QED BY <1>2, <1>3 DEF Positions

\* A submission counts and announces its own job; a registry request announces none.
LEMMA NumberPositions ==
    ASSUME LagInv, Positions, NEW x \in Writers, UNCHANGED <<job, queue, up>>,
           \/ x \in Jobs /\ pc[x] = "count" /\ Number(x, "queued", x)
           \/ x \notin Jobs /\ up /\ Number(x, "updated", None)
    PROVE  Positions'
  <1> USE WritersDistinct
  <1>1. pc'[x] = "event" /\ \A y \in Writers : y # x => pc'[y] = pc[y]
    BY Moved DEF Number, LagInv, Labels
  <1>2. \A y \in Writers : y # x => event'[y] = event[y]
    BY DEF Number, LagInv, Typed
  <1>3. /\ x \in Jobs => event'[x].kind = "queued" /\ event'[x].job = x
        /\ x \notin Jobs => event'[x].kind = "updated"
    BY DEF Number, LagInv, Typed
  <1>4. \A n \in 1..Len(queue) : queue[n] \in Jobs
    BY DEF LagInv, Typed
  <1>5. \A n \in 1..Len(queue) : pc'[queue[n]] = "idle" /\ job[queue[n]] # "none"
    BY <1>1, <1>4 DEF Positions
  <1>6. \A j \in Jobs : pc'[j] # "idle" => pc[j] # "idle"
    BY <1>1
  <1>7. \A y \in Writers : pc'[y] = "event" /\ event'[y].kind = "queued" =>
            y \in Jobs /\ event'[y].job = y
    BY <1>1, <1>2, <1>3 DEF Positions
  <1>8. \A y \in Writers, j \in Jobs :
            pc'[y] = "event" /\ event'[y].kind = "writing" /\ event'[y].job = j =>
                job[j] = "begun"
    BY <1>1, <1>2, <1>3 DEF Positions
  <1> QED BY <1>5, <1>6, <1>7, <1>8 DEF Positions

LEMMA AcquirePositions ==
    ASSUME LagInv, Positions, NEW j \in Jobs, Acquire(j)
    PROVE  Positions'
  <1> USE WritersDistinct
  <1>1. /\ up /\ pc[j] = "idle" /\ job[j] = "none" /\ UNCHANGED <<queue, up, event>>
        /\ job' = [job EXCEPT ![j] = "queued"]
    BY DEF Acquire
  <1>2. pc'[j] = "register" /\ \A y \in Writers : y # j => pc'[y] = pc[y]
    BY Moved DEF Acquire, LagInv, Labels
  <1>3. /\ job' \in [Jobs -> {"none", "queued", "begun"}] /\ job'[j] = "queued"
        /\ \A k \in Jobs : k # j => job'[k] = job[k]
    BY <1>1 DEF Positions
  <1>4. \A n \in 1..Len(queue) : queue[n] \in Jobs /\ queue[n] # j
    BY <1>1 DEF LagInv, Typed, Positions
  <1>5. \A n \in 1..Len(queue) : pc'[queue[n]] = "idle" /\ job'[queue[n]] # "none"
    BY <1>2, <1>3, <1>4 DEF Positions
  <1>6. \A y \in Writers, k \in Jobs :
            pc'[y] = "event" /\ event[y].kind = "writing" /\ event[y].job = k =>
                job'[k] = "begun"
    BY <1>1, <1>2, <1>3 DEF Positions
  <1>7. \A y \in Writers : pc'[y] = "event" => pc[y] = "event"
    BY <1>2
  <1>8. \A k \in Jobs : pc'[k] # "idle" => job'[k] = "queued"
    BY <1>2, <1>3 DEF Positions
  <1> QED BY <1>1, <1>3, <1>5, <1>6, <1>7, <1>8 DEF Positions

LEMMA EnqueuePositions ==
    ASSUME LagInv, Positions, NEW j \in Jobs, Enqueue(j)
    PROVE  Positions'
  <1> USE WritersDistinct
  <1>1. /\ pc[j] = "enqueue" /\ queue' = Append(queue, j) /\ UNCHANGED <<job, up, event>>
    BY DEF Enqueue
  <1>2. pc'[j] = "idle" /\ \A y \in Writers : y # j => pc'[y] = pc[y]
    BY Moved DEF Enqueue, LagInv, Labels
  <1>3. job[j] = "queued" /\ up
    BY <1>1 DEF Positions
  <1>4. queue \in Seq(Jobs) /\ \A n \in 1..Len(queue) : queue[n] \in Jobs
    BY DEF LagInv, Typed
  <1>5. ASSUME NEW n \in 1..Len(queue')
        PROVE  pc'[queue'[n]] = "idle" /\ job[queue'[n]] # "none"
    <2>1. CASE n \in 1..Len(queue)
      <3>1. queue'[n] = queue[n]
        BY <1>1, <1>4, <2>1
      <3> QED BY <1>2, <1>4, <2>1, <3>1 DEF Positions
    <2>2. CASE n \notin 1..Len(queue)
      <3>1. queue'[n] = j
        BY <1>1, <1>4, <2>2
      <3> QED BY <1>2, <1>3, <3>1
    <2> QED BY <2>1, <2>2
  <1>6. \A y \in Writers : pc'[y] = "event" => pc[y] = "event"
    BY <1>2
  <1>7. \A k \in Jobs : pc'[k] # "idle" => pc[k] # "idle"
    BY <1>2
  <1> QED BY <1>1, <1>3, <1>5, <1>6, <1>7 DEF Positions

LEMMA BeginPositions ==
    ASSUME LagInv, Positions, Begin
    PROVE  Positions'
  <1> USE WritersDistinct
  <1> DEFINE j == Head(queue)
  <1>1. /\ queue # <<>> /\ queue' = Tail(queue) /\ UNCHANGED up
        /\ job' = [job EXCEPT ![j] = "begun"] /\ Number(Worker, "writing", j)
    BY DEF Begin
  <1>2. queue \in Seq(Jobs) /\ j \in Jobs /\ j = queue[1] /\ 1 \in 1..Len(queue)
    BY <1>1 DEF LagInv, Typed
  <1>3. up /\ pc[j] = "idle"
    BY <1>1, <1>2 DEF Positions
  <1> HIDE DEF j
  <1>4. pc'[Worker] = "event" /\ \A y \in Writers : y # Worker => pc'[y] = pc[y]
    BY <1>1, Moved DEF Number, LagInv, Labels
  <1>5. /\ job' \in [Jobs -> {"none", "queued", "begun"}] /\ job'[j] = "begun"
        /\ \A k \in Jobs : k # j => job'[k] = job[k]
    BY <1>1, <1>2 DEF Positions
  <1>6. /\ event'[Worker].kind = "writing" /\ event'[Worker].job = j
        /\ \A y \in Writers : y # Worker => event'[y] = event[y]
    BY <1>1 DEF Number, LagInv, Typed
  <1>7. ASSUME NEW n \in 1..Len(queue')
        PROVE  pc'[queue'[n]] = "idle" /\ job'[queue'[n]] # "none"
    <2>1. n + 1 \in 1..Len(queue) /\ queue'[n] = queue[n + 1]
      BY <1>1, <1>2
    <2>2. queue[n + 1] \in Jobs
      BY <1>2, <2>1
    <2> QED BY <1>4, <1>5, <2>1, <2>2 DEF Positions
  <1>8. \A k \in Jobs : pc'[k] # "idle" => job'[k] = "queued"
    BY <1>3, <1>4, <1>5 DEF Positions
  <1>9. \A y \in Writers : pc'[y] = "event" /\ event'[y].kind = "queued" =>
            y \in Jobs /\ event'[y].job = y
    BY <1>4, <1>6 DEF Positions
  <1>10. \A y \in Writers, k \in Jobs :
             pc'[y] = "event" /\ event'[y].kind = "writing" /\ event'[y].job = k =>
                 job'[k] = "begun"
    BY <1>4, <1>5, <1>6 DEF Positions
  <1> QED BY <1>1, <1>3, <1>5, <1>7, <1>8, <1>9, <1>10 DEF Positions

LEMMA StartPositions ==
    ASSUME LagInv, LagInv', Positions, Start
    PROVE  Positions'
  <1> DEFINE waiting == {j \in Jobs : job[j] = "queued"}
  <1>1. UNCHANGED <<job, pc, event>> /\ up' /\ \A j \in Jobs : pc[j] = "idle"
    BY DEF Start, Positions
  <1>2. queue' \in [1..Cardinality(waiting) -> waiting]
    BY DEF Start, SetToSeqs
  <1>3. Cardinality(waiting) \in Nat
    BY IdsAssumption, FS_Subset, FS_CardinalityType
  <1>4. queue' \in Seq(Jobs)
    BY DEF LagInv, Typed
  <1>5. \A n \in 1..Len(queue') : queue'[n] \in waiting
    <2>1. DOMAIN queue' = 1..Len(queue')
      BY <1>4
    <2> QED BY <1>2, <2>1
  <1>6. \A n \in 1..Len(queue') : pc'[queue'[n]] = "idle" /\ job'[queue'[n]] # "none"
    BY <1>1, <1>5
  <1> QED BY <1>1, <1>6 DEF Positions

LEMMA PositionsStep ==
    ASSUME LagInv, LagInv', Positions, [Next]_vars
    PROVE  Positions'
  <1> USE WritersDistinct
  <1>1. CASE UNCHANGED vars
    BY <1>1, AsidePositions DEF vars, processVars
  <1>2. ASSUME NEW x \in Writers, AppendStep(x) PROVE Positions'
    <2>1. UNCHANGED <<job, queue, up, event>> /\ pc[x] # "idle"
      BY <1>2 DEF AppendStep, WriteEvent, WriteNewline, processVars
    <2>2. pc'[x] # "event" /\ \A y \in Writers : y # x => pc'[y] = pc[y]
      BY <1>2, Moved DEF AppendStep, WriteEvent, WriteNewline, AfterEvent, LagInv, Labels
    <2> QED BY <2>1, <2>2, AsidePositions
  <1>3. ASSUME NEW j \in Jobs, Register(j) \/ Registered(j) \/ SubmissionFails(j)
        PROVE  Positions'
    <2>1. UNCHANGED <<job, queue, up, event>> /\ pc[j] # "idle"
      BY <1>3 DEF Register, Registered, SubmissionFails, processVars
    <2>2. pc'[j] # "event" /\ \A y \in Writers : y # j => pc'[y] = pc[y]
      BY <1>3, Moved DEF Register, Registered, SubmissionFails, LagInv, Labels
    <2> QED BY <2>1, <2>2, AsidePositions
  <1>4. ASSUME NEW x \in {Worker} \cup Admins, EmitFails(x) PROVE Positions'
    <2>1. UNCHANGED <<job, queue, up, event>> /\ pc[x] # "idle"
      BY <1>4 DEF EmitFails, processVars
    <2>2. pc'[x] # "event" /\ \A y \in Writers : y # x => pc'[y] = pc[y]
      BY <1>4, Moved DEF EmitFails, LagInv, Labels
    <2> QED BY <2>1, <2>2, AsidePositions
  <1>5. ASSUME NEW j \in Jobs, Count(j) PROVE Positions'
    BY <1>5, NumberPositions DEF Count, processVars
  <1>6. ASSUME NEW a \in Admins, Update(a) PROVE Positions'
    BY <1>6, NumberPositions DEF Update, processVars
  <1>7. CASE Crash
    BY <1>7 DEF Crash, Positions
  <1>8. CASE ReadEvents \/ ListJobs
    BY <1>8, AsidePositions DEF ReadEvents, ListJobs, processVars
  <1> QED BY <1>1, <1>2, <1>3, <1>4, <1>5, <1>6, <1>7, <1>8, AcquirePositions,
             EnqueuePositions, BeginPositions, StartPositions DEF Next, SubmissionStep

\* Who reads the event log from the beginning meets a job's job_queued before its
\* job_writing (create_job appends before it enqueues).
THEOREM QueuedIsFirst == Spec => []QueuedFirst
  <1> DEFINE IInv == LagInv /\ Positions /\ LogOrder
  <1>1. Init => IInv
    <2> SUFFICES ASSUME Init PROVE Positions /\ LogOrder
      BY InitLags
    <2>1. Positions
      BY WritersDistinct DEF Init, Positions
    <2>2. LogOrder
      <3>1. Lines(events) = <<>>
        BY DEF Init, Empty, Lines
      <3> QED BY <3>1 DEF LogOrder
    <2> QED BY <2>1, <2>2
  <1>2. IInv /\ [Next]_vars => IInv'
    BY StepLags, PositionsStep, LogOrderStep
  <1>3. IInv => QueuedFirst
    <2> SUFFICES ASSUME IInv, NEW j \in Jobs, NEW i \in DOMAIN events.closed,
                        NEW k \in DOMAIN events.closed,
                        Whole(events.closed[i]), events.closed[i][1].kind = "writing",
                        events.closed[i][1].job = j,
                        Whole(events.closed[k]), events.closed[k][1].kind = "queued",
                        events.closed[k][1].job = j
                 PROVE  k < i
      BY DEF QueuedFirst
    <2>1. events \in Files(Events)
      BY DEF LagInv, Typed, EventFiles
    <2>2. i \in 1..Len(events.closed) /\ k \in 1..Len(events.closed)
      BY <2>1 DEF Files
    <2>3. Lines(events)[i] = events.closed[i] /\ Lines(events)[k] = events.closed[k]
      BY <2>1, <2>2, LineAt
    <2>4. i \in 1..Len(Lines(events)) /\ k \in 1..Len(Lines(events))
      <3>1. /\ Len(events.closed) \in Nat /\ Len(Lines(events)) \in Nat
            /\ \/ Len(Lines(events)) = Len(events.closed)
               \/ Len(Lines(events)) = Len(events.closed) + 1
        BY <2>1, LinesLength, LengthIsNat
      <3> QED BY <2>2, <3>1
    <2> QED BY <2>3, <2>4 DEF LogOrder, Says
  <1> QED BY <1>1, <1>2, <1>3, PTL DEF Spec
-----------------------------------------------------------------------------
(* The types of what the lemmas above did not need.                          *)

Rest ==
    /\ up \in BOOLEAN /\ lock \in Jobs \cup {None} /\ overlapped \in BOOLEAN
    /\ client \in Clients /\ cursor \in Nat /\ got \in Seq(Events)
    /\ seen \subseteq Jobs /\ skipped \subseteq Jobs
    /\ budget \in [stop : Nat, unreadable : Nat]

LEMMA SpendTyped ==
    ASSUME NEW kind \in {"stop", "unreadable"}, NEW n \in Nat, Spend(kind, n),
           budget \in [stop : Nat, unreadable : Nat]
    PROVE  budget' \in [stop : Nat, unreadable : Nat]
  <1>1. budget[kind] \in Nat /\ budget[kind] >= n
    BY DEF Spend
  <1>2. budget[kind] - n \in Nat
    BY <1>1
  <1>3. budget' = [budget EXCEPT ![kind] = budget[kind] - n]
    BY DEF Spend
  <1> DEFINE left == budget[kind] - n
  <1> HIDE DEF left
  <1> QED BY <1>2, <1>3 DEF left

\* What a page of events or of jobs consists of.
LEMMA ReadTyped ==
    ASSUME LagInv, Following, Rest, ReadEvents
    PROVE  cursor' \in Nat /\ got' \in Seq(Events)
  <1> DEFINE lines == Lines(events)
             page  == {i \in cursor + 1..cursor' : Matches(lines[i])}
  <1>1. /\ cursor' \in Nat /\ cursor' <= Len(lines) /\ got' = got \o Entries(lines, page)
        /\ Len(lines) \in Nat /\ cursor \in Nat
    BY PageExact, LengthIsNat DEF LagInv, Typed, EventFiles, Rest
  <1>2. page \in SUBSET (1..Len(lines))
    BY <1>1
  <1>3. \A i \in page : lines[i][1] \in Events
    BY <1>2, KeptEvents
  <1> HIDE DEF page, lines
  <1>4. Entries(lines, page) \in Seq(Events)
    <2>1. Cardinality(page) \in Nat
      BY <1>1, <1>2, LinesFinite
    <2>2. \A n \in 1..Cardinality(page) : Nth(page, n) \in page
      BY <1>1, <1>2, NthExists
    <2>3. Entries(lines, page) \in [1..Cardinality(page) -> Events]
      BY <1>3, <2>2 DEF Entries
    <2> QED BY <2>1, <2>3
  <1>5. got \in Seq(Events)
    BY DEF Rest
  <1> QED BY <1>1, <1>4, <1>5

LEMMA ListTyped ==
    ASSUME LagInv, JobsKnown, JobsKnown', Rest, ListJobs
    PROVE  /\ cursor' \in Nat /\ seen' \subseteq Jobs /\ skipped' \subseteq Jobs
           /\ budget' \in [stop : Nat, unreadable : Nat]
  <1> DEFINE lines == Lines(index)
  <1>1. Len(lines) \in Nat /\ lines \in Seq(Seq(Jobs \cup {Torn})) /\ cursor \in Nat
    BY LengthIsNat, LinesLength DEF LagInv, Typed, IndexFiles, Rest
  <1>2. client = "jobs" /\ client' = "jobs"
    BY DEF ListJobs
  <1>3. PICK n \in Limits, bad \in SUBSET Jobs :
            LET Readable(line) == Whole(line) /\ line[1] \notin bad
                found == {i \in cursor + 1..Len(lines) : Readable(lines[i])}
                stop  == Stop(found, lines, Limit(n))
                page  == {i \in found : i <= stop}
            IN /\ bad \subseteq {lines[i][1] : i \in cursor + 1..stop}
               /\ Spend("unreadable", Cardinality(bad))
               /\ seen' = seen \cup {lines[i][1] : i \in page}
               /\ skipped' = skipped \cup bad
    BY DEF ListJobs
  <1>4. cursor' \in Nat
    BY <1>2 DEF JobsKnown
  <1>5. skipped' \subseteq Jobs
    BY <1>3 DEF Rest
  <1>6. budget' \in [stop : Nat, unreadable : Nat]
    <2>1. Cardinality(bad) \in Nat
      BY IdsAssumption, FS_Subset, FS_CardinalityType
    <2>2. Spend("unreadable", Cardinality(bad))
      BY <1>3
    <2> QED BY <2>1, <2>2, SpendTyped DEF Rest
  <1>7. ASSUME NEW i \in cursor + 1..Len(lines), Whole(lines[i])
        PROVE  lines[i][1] \in Jobs
    <2>1. lines[i] \in Seq(Jobs \cup {Torn})
      BY <1>1
    <2>2. Len(lines[i]) = 1 /\ lines[i][1] # Torn
      BY <1>7 DEF Whole
    <2>3. lines[i][1] \in Jobs \cup {Torn}
      BY <2>1, <2>2
    <2> QED BY <2>2, <2>3
  <1>8. seen' \subseteq Jobs
    <2> DEFINE found == {i \in cursor + 1..Len(lines) :
                             Whole(lines[i]) /\ lines[i][1] \notin bad}
               page  == {i \in found : i <= Stop(found, lines, Limit(n))}
    <2>1. seen' = seen \cup {lines[i][1] : i \in page}
      BY <1>3
    <2>2. \A i \in page : i \in cursor + 1..Len(lines) /\ Whole(lines[i])
      OBVIOUS
    <2> HIDE DEF page, lines
    <2> QED BY <1>7, <2>1, <2>2 DEF Rest
  <1> QED BY <1>4, <1>5, <1>6, <1>8

LEMMA RestStep ==
    ASSUME LagInv, Following, JobsKnown, JobsKnown', Rest, [Next]_vars
    PROVE  Rest'
  <1> USE WritersDistinct
  <1>1. CASE UNCHANGED vars
    BY <1>1 DEF vars, processVars, clientVars, Rest
  <1>2. ASSUME NEW x \in Writers, AppendStep(x) PROVE Rest'
    BY <1>2 DEF AppendStep, WriteEvent, WriteNewline, processVars, clientVars, Rest
  <1>3. ASSUME NEW j \in Jobs, Acquire(j) \/ SubmissionStep(j) PROVE Rest'
    BY <1>3 DEF Acquire, SubmissionStep, Register, Registered, Count, Enqueue, Number,
                processVars, clientVars, Rest
  <1>4. CASE Begin \/ \E a \in Admins : Update(a)
    BY <1>4 DEF Begin, Update, Number, processVars, clientVars, Rest
  <1>5. ASSUME Spend("stop", 1)
        PROVE  budget' \in [stop : Nat, unreadable : Nat]
    BY <1>5, SpendTyped DEF Rest
  <1>6. ASSUME NEW j \in Jobs, SubmissionFails(j) PROVE Rest'
    BY <1>5, <1>6 DEF SubmissionFails, clientVars, Rest
  <1>7. ASSUME NEW x \in {Worker} \cup Admins, EmitFails(x) PROVE Rest'
    BY <1>5, <1>7 DEF EmitFails, processVars, clientVars, Rest
  <1>8. CASE Crash
    BY <1>5, <1>8 DEF Crash, clientVars, Rest
  <1>9. CASE Start
    BY <1>9 DEF Start, clientVars, Rest
  <1>10. CASE ReadEvents
    BY <1>10, ReadTyped DEF ReadEvents, processVars, Rest
  <1>11. CASE ListJobs
    BY <1>11, ListTyped DEF ListJobs, processVars, Rest
  <1> QED BY <1>1, <1>2, <1>3, <1>4, <1>6, <1>7, <1>8, <1>9, <1>10, <1>11 DEF Next

\* Every variable of logs, writers and client keeps its type, and a submission that
\* is appending holds the idempotency lock (api.rs, create_job).
THEOREM LogsTyped == Spec => []TypeOK
  <1> DEFINE IInv == LagInv /\ Held /\ Positions /\ JobsKnown /\ Following /\ Rest
  <1>1. Init => IInv
    <2> SUFFICES ASSUME Init PROVE IInv
      OBVIOUS
    <2>1. LagInv /\ Len(Lines(index)) \in Nat /\ Len(Lines(events)) \in Nat
      BY InitLags, LengthIsNat DEF LagInv, Typed, EventFiles, IndexFiles
    <2>2. Held
      BY WritersDistinct DEF Init, Held
    <2>3. Positions
      BY WritersDistinct DEF Init, Positions
    <2>4. JobsKnown /\ Following
      BY <2>1 DEF Init, JobsKnown, Following
    <2>5. Rest
      <3>1. got \in Seq(Events)
        BY DEF Init
      <3> QED BY <3>1, BudgetAssumption DEF Init, Rest
    <2> QED BY <2>1, <2>2, <2>3, <2>4, <2>5
  <1>2. IInv /\ [Next]_vars => IInv'
    BY StepLags, HeldStep, PositionsStep, KnownStep, FollowingStep, RestStep
  <1>3. IInv => TypeOK
    BY DEF LagInv, Typed, EventFiles, IndexFiles, Files, Labels, Held, Positions, Rest,
           TypeOK
  <1> QED BY <1>1, <1>2, <1>3, PTL DEF Spec
===============================================================================
