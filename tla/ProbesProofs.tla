------------------------------ MODULE ProbesProofs ------------------------------
(***************************************************************************)
(* What the snapshot of a printer rests on and what its return costs, for    *)
(* any queries, firmware, transports and number of failures.                 *)
(***************************************************************************)
EXTENDS Probes, SequenceTheorems, TLAPS

Transports == [stream : {"closed", "none", "live", "dead"}, wrote : BOOLEAN]
Replied    == Names(Queries) \cup {"job"}
Half       == {"nothing", "command", "job"}

LineOk == owed \in Seq(Replied) /\ half \in Half /\ transport \in Transports

PlaceOk ==
    /\ pc \in {"idle", "ask", "reply", "publish", "deliver"} /\ at \in DOMAIN Queries
    /\ caps \in BOOLEAN /\ any \in BOOLEAN
    /\ attempt \in 0..3 /\ (attempt > 0 <=> pc = "deliver")

AbsenceOk == ever \in BOOLEAN /\ {away, gap} \subseteq {"no", "recent", "old"} /\ charged \in Nat

PresenceOk == present \in {"unknown", "yes", "unavailable"} /\ open \in BOOLEAN

AnswerOk ==
    /\ up \in BOOLEAN /\ ready \in BOOLEAN
    /\ response.query \in Names(Queries) \cup {"none"}
    /\ response.replies \subseteq Replied
    /\ cap \in [Names(OptionalQueries) -> Verdicts] /\ feed \in Verdicts

ConfigOk == kind \in Kinds /\ disabled \in BOOLEAN /\ firmware \in Firmwares
BudgetOk == budget \in [power : Nat, fault : Nat, command : Nat]

\* Everything but the observer of late replies.
Typed == /\ ConfigOk /\ power \in BOOLEAN /\ LineOk /\ PlaceOk /\ AbsenceOk /\ PresenceOk
         /\ AnswerOk /\ BudgetOk

LEMMA TypeParts ==
    Typed <=> /\ ConfigOk /\ power \in BOOLEAN /\ LineOk /\ PlaceOk /\ AbsenceOk /\ PresenceOk
              /\ AnswerOk /\ BudgetOk
  BY DEF Typed

LEMMA TypePartsNext ==
    ConfigOk' /\ power' \in BOOLEAN /\ LineOk' /\ PlaceOk' /\ AbsenceOk' /\ PresenceOk'
    /\ AnswerOk' /\ BudgetOk' => Typed'
  BY DEF Typed

LateOk == late \in BOOLEAN

LEMMA TypedAll == Typed /\ LateOk => TypeOK
  BY DEF TypeOK, LateOk, Typed, ConfigOk, LineOk, PlaceOk, AbsenceOk, PresenceOk, AnswerOk, BudgetOk,
         Transports, Replied, Half

\* Parts a step leaves alone.
LEMMA Unchanged ==
    /\ ConfigOk /\ UNCHANGED configVars => ConfigOk'
    /\ LineOk /\ UNCHANGED <<owed, half, transport>> => LineOk'
    /\ LineOk /\ UNCHANGED <<lineVars, transport>> => LineOk'
    /\ PlaceOk /\ UNCHANGED <<pc, probeVars, attempt>> => PlaceOk'
    /\ AbsenceOk /\ UNCHANGED absenceVars => AbsenceOk'
    /\ PresenceOk /\ UNCHANGED presenceVars => PresenceOk'
    /\ AnswerOk /\ UNCHANGED answerVars => AnswerOk'
    /\ BudgetOk /\ UNCHANGED budget => BudgetOk'
  <1>1. ConfigOk /\ UNCHANGED configVars => ConfigOk'
    BY DEF ConfigOk, configVars
  <1>2. LineOk /\ UNCHANGED <<owed, half, transport>> => LineOk'
    BY DEF LineOk
  <1>0. LineOk /\ UNCHANGED <<lineVars, transport>> => LineOk'
    BY <1>2 DEF lineVars
  <1>3. PlaceOk /\ UNCHANGED <<pc, probeVars, attempt>> => PlaceOk'
    BY DEF PlaceOk, probeVars
  <1>4. AbsenceOk /\ UNCHANGED absenceVars => AbsenceOk'
    BY DEF AbsenceOk, absenceVars
  <1>5. PresenceOk /\ UNCHANGED presenceVars => PresenceOk'
    BY DEF PresenceOk, presenceVars
  <1>6. AnswerOk /\ UNCHANGED answerVars => AnswerOk'
    BY DEF AnswerOk, answerVars
  <1>7. BudgetOk /\ UNCHANGED budget => BudgetOk'
    BY DEF BudgetOk
  <1> QED BY <1>0, <1>1, <1>2, <1>3, <1>4, <1>5, <1>6, <1>7

LEMMA SpendType ==
    ASSUME BudgetOk, NEW thing \in {"power", "fault", "command"}, NEW n \in Nat, Spend(thing, n)
    PROVE  BudgetOk'
  BY DEF BudgetOk, Spend

-----------------------------------------------------------------------------
(* The queries.                                                              *)

LEMMA QueryFacts ==
    /\ Queries \in Seq(STRING) /\ Len(Queries) \in Nat /\ DOMAIN Queries = 1..Len(Queries)
    /\ Len(BaseQueries) \in Nat /\ Len(BaseQueries) >= 1
    /\ Len(Queries) = Len(BaseQueries) + Len(OptionalQueries) /\ Len(OptionalQueries) \in Nat
    /\ \A i \in 1..Len(Queries) :
          /\ Queries[i] \in Names(Queries)
          /\ i > Len(BaseQueries) => Queries[i] \in Names(OptionalQueries)
  <1>1. /\ BaseQueries \in Seq(STRING) /\ OptionalQueries \in Seq(STRING) /\ BaseQueries # <<>>
    BY QueriesAssumption
  <1>2. /\ Len(BaseQueries) \in Nat /\ Len(BaseQueries) >= 1 /\ Len(OptionalQueries) \in Nat
    BY <1>1, EmptySeq
  <1>3. /\ Queries \in Seq(STRING)
        /\ Len(Queries) = Len(BaseQueries) + Len(OptionalQueries)
        /\ \A i \in 1..Len(BaseQueries) + Len(OptionalQueries) :
               Queries[i] = IF i <= Len(BaseQueries) THEN BaseQueries[i]
                            ELSE OptionalQueries[i - Len(BaseQueries)]
    BY <1>1, ConcatProperties DEF Queries
  <1>4. DOMAIN Queries = 1..Len(Queries) /\ DOMAIN OptionalQueries = 1..Len(OptionalQueries)
    BY <1>1, <1>3, LenProperties
  <1>5. ASSUME NEW i \in 1..Len(Queries)
        PROVE  /\ Queries[i] \in Names(Queries)
               /\ i > Len(BaseQueries) => Queries[i] \in Names(OptionalQueries)
    <2>1. Queries[i] \in Names(Queries)
      BY <1>4 DEF Names
    <2>2. ASSUME i > Len(BaseQueries) PROVE Queries[i] \in Names(OptionalQueries)
      <3>1. i - Len(BaseQueries) \in 1..Len(OptionalQueries)
        BY <1>2, <1>3, <2>2
      <3>2. Queries[i] = OptionalQueries[i - Len(BaseQueries)]
        BY <1>2, <1>3, <2>2
      <3> QED BY <1>4, <3>1, <3>2 DEF Names
    <2> QED BY <2>1, <2>2
  <1> QED BY <1>2, <1>3, <1>4, <1>5

-----------------------------------------------------------------------------
(* The charge for a return.                                                  *)

\* The worker's idea of an absence is the time since the first failed probe, as
\* long as it knows the printer.
AbsenceInv == (ever => away = gap) /\ (~ever => away = "no") /\ charged \in Nat

LEMMA AbsenceStep == AbsenceInv /\ [Next]_vars => AbsenceInv'
  <1> SUFFICES ASSUME AbsenceInv, [Next]_vars PROVE AbsenceInv'
    OBVIOUS
  <1>1. CASE UNCHANGED absenceVars
    BY <1>1 DEF AbsenceInv, absenceVars
  <1>2. CASE Failed
    BY <1>2 DEF AbsenceInv, Failed, Absence
  <1>3. CASE Succeeded
    BY <1>3 DEF AbsenceInv, Succeeded
  <1>4. CASE Elapse
    BY <1>4 DEF AbsenceInv, Elapse
  <1>5. CASE Restart
    BY <1>5 DEF AbsenceInv, Restart
  <1>6. CASE Publish
    BY <1>2, <1>3, <1>6 DEF Publish
  <1>7. CASE Poll
    BY <1>1, <1>2, <1>7 DEF Poll, ProbeUnopened, BeginProbe
  <1>8. CASE SkipOdometer \/ Attempt
    BY <1>1, <1>8 DEF SkipOdometer, Attempt
  <1>9. CASE AskTcp \/ AskChar \/ AskUsb
    BY <1>1, <1>9 DEF AskTcp, AskChar, AskUsb, AskDevice, Conclude
  <1>10. CASE ReadTcp \/ ReadChar \/ ReadUsb
    BY <1>1, <1>10 DEF ReadTcp, ReadChar, ReadUsb, Answered, Unanswered, Conclude
  <1>11. CASE Maintain \/ Deliver \/ PowerOff \/ PowerOn
    BY <1>1, <1>11 DEF Maintain, Deliver, PowerOff, PowerOn
  <1>12. CASE UNCHANGED vars
    BY <1>1, <1>12 DEF vars
  <1> QED BY <1>4, <1>5, <1>6, <1>7, <1>8, <1>9, <1>10, <1>11, <1>12 DEF Next, Work

\* A probe that succeeds charges the loss of a reconnect exactly when the printer
\* was known and the first probe that failed since did so more than the debounce
\* period ago.
THEOREM ReturnsAreCharged == Spec => ReconnectCharged
  <1>1. Init => AbsenceInv
    BY DEF Init, Fresh, AbsenceInv
  <1>2. ASSUME AbsenceInv, [Next]_vars, pc = "publish", any, pc' = "idle", ever'
        PROVE  charged' = charged + (IF ever /\ gap = "old" THEN 1 ELSE 0)
    <2>1. ~Restart
      BY <1>2 DEF Restart
    <2>2. Publish
      BY <1>2, <2>1 DEF Next, Poll, Work, ProbeUnopened, BeginProbe, SkipOdometer, Attempt, AskTcp,
         AskChar, AskUsb, AskDevice, ReadTcp, ReadChar, ReadUsb, Answered, Unanswered, Maintain,
         Deliver, PowerOff, PowerOn, Elapse, vars
    <2>3. charged' = IF ever /\ away = "old" THEN charged + 1 ELSE charged
      BY <1>2, <2>2 DEF Publish, Succeeded
    <2> QED BY <1>2, <2>3 DEF AbsenceInv
  <1>3. AbsenceInv /\ [Next]_vars =>
          [pc = "publish" /\ any /\ pc' = "idle" /\ ever' =>
              charged' = charged + (IF ever /\ gap = "old" THEN 1 ELSE 0)]_vars
    BY <1>2
  <1> QED BY <1>1, <1>3, AbsenceStep, PTL DEF Spec, ReconnectCharged

-----------------------------------------------------------------------------
(* Opening, writing and closing.                                             *)

LEMMA OpensFacts == \A o \in Opens : o.ok \in BOOLEAN /\ o.cost \in Nat
  <1> SUFFICES ASSUME NEW o \in Opens PROVE o.ok \in BOOLEAN /\ o.cost \in Nat
    OBVIOUS
  <1>1. o = [ok |-> TRUE, cost |-> 0] \/ o = [ok |-> FALSE, cost |-> IF Found THEN 1 ELSE 0]
    BY DEF Opens
  <1>2. CASE o = [ok |-> TRUE, cost |-> 0]
    BY <1>2
  <1>3. CASE o = [ok |-> FALSE, cost |-> IF Found THEN 1 ELSE 0]
    <2>1. (IF Found THEN 1 ELSE 0) \in {0, 1}
      OBVIOUS
    <2> QED BY <1>3, <2>1
  <1> QED BY <1>1, <1>2, <1>3

LEMMA EnsureFacts ==
    ASSUME LineOk, PresenceOk, NEW e \in EnsureTransport
    PROVE  /\ e.ok \in BOOLEAN /\ e.cost \in Nat /\ e.transport \in Transports
           /\ e.present \in {"unknown", "yes", "unavailable"} /\ e.open \in BOOLEAN
           /\ e.transport = transport \/ (transport = Closed /\ e.transport = Opened)
           /\ ~e.ok => transport = Closed /\ e.transport = Closed
  <1>1. Closed \in Transports /\ Opened \in Transports
    BY DEF Closed, Opened, Transports
  <1>2. CASE transport # Closed
    <2>1. e = [ok |-> TRUE, cost |-> 0, transport |-> transport, present |-> present,
               open |-> open]
      BY <1>2 DEF EnsureTransport
    <2> QED BY <1>2, <2>1 DEF LineOk, PresenceOk
  <1>3. CASE transport = Closed
    <2>1. PICK o \in Opens :
              e = [ok |-> o.ok, cost |-> o.cost,
                   transport |-> IF o.ok THEN Opened ELSE Closed,
                   present |-> IF o.ok THEN "yes" ELSE "unavailable", open |-> o.ok]
      BY <1>3 DEF EnsureTransport
    <2> QED BY <1>1, <1>3, <2>1, OpensFacts
  <1> QED BY <1>2, <1>3

\* An outcome of a write.
WriteOk(w) ==
    /\ w.done \in {"all", "part", "none"} /\ w.cost \in Nat
    /\ w.transport \in Transports /\ w.owed \in Seq(Replied) /\ w.half \in Half

LEMMA OutcomeOk ==
    ASSUME NEW done \in {"all", "part", "none"}, NEW cost \in Nat, NEW t \in Transports,
           NEW o \in Seq(Replied), NEW h \in Half
    PROVE  WriteOk(Outcome(done, cost, t, o, h))
  BY DEF WriteOk, Outcome

LEMMA WroteType == \A t \in Transports : Wrote(t) \in Transports /\ Wrote(t).wrote
  BY DEF Transports, Wrote

LEMMA WriteDeviceFacts ==
    ASSUME LineOk, NEW t \in Transports, NEW what \in {"command", "job"},
           NEW reply \in Seq(Replied), NEW w \in WriteDevice(t, what, reply)
    PROVE  WriteOk(w)
  <1>1. owed \in Seq(Replied) /\ half \in Half /\ owed \o reply \in Seq(Replied)
    BY ConcatProperties DEF LineOk
  <1>2. what \in Half /\ "nothing" \in Half
    BY DEF Half
  <1> QED BY <1>1, <1>2, OutcomeOk DEF WriteDevice

LEMMA WriteStreamFacts ==
    ASSUME LineOk, NEW t \in Transports, NEW what \in {"command", "job"},
           NEW reply \in Seq(Replied), NEW w \in WriteStream(t, what, reply)
    PROVE  /\ WriteOk(w)
           /\ (~t.wrote => owed = <<>>) => (~w.transport.wrote => w.owed = <<>>)
  <1> DEFINE connect == t.stream = "none"
             on == IF connect THEN Opened ELSE t
             o  == IF connect THEN <<>> ELSE owed
             h  == IF connect THEN "nothing" ELSE half
  <1>1. /\ on \in Transports /\ o \in Seq(Replied) /\ h \in Half
        /\ (~t.wrote => owed = <<>>) => (~on.wrote => o = <<>>)
        /\ o \o reply \in Seq(Replied) /\ what \in Half /\ "nothing" \in Half
    <2>1. <<>> \in Seq(Replied)
      BY EmptySeq
    <2>2. /\ on \in Transports /\ o \in Seq(Replied) /\ h \in Half
          /\ (~t.wrote => owed = <<>>) => (~on.wrote => o = <<>>)
      BY <2>1 DEF LineOk, Opened, Transports, Half
    <2> QED BY <2>2, ConcatProperties DEF Half
  <1>2. \/ w = Outcome("none", 0, t, owed, half) \/ w = Outcome("none", 1, t, owed, half)
        \/ w = Outcome("all", 0, Wrote(on), o \o reply, "nothing")
        \/ w = Outcome("part", 1, on, o, what) \/ w = Outcome("none", 1, on, o, h)
        \/ w = Outcome("all", 0, Wrote(on), o, h) \/ w = Outcome("none", 0, on, o, h)
    BY DEF WriteStream
  <1>3. WriteOk(w)
    <2> HIDE DEF on, o, h
    <2>1. owed \in Seq(Replied) /\ half \in Half
      BY DEF LineOk
    <2>2. Wrote(on) \in Transports
      BY <1>1, WroteType
    <2> QED BY <1>1, <1>2, <2>1, <2>2, OutcomeOk
  <1>4. ASSUME ~t.wrote => owed = <<>> PROVE ~w.transport.wrote => w.owed = <<>>
    <2> HIDE DEF on, o, h
    <2>1. Wrote(on).wrote
      BY <1>1, WroteType
    <2> QED BY <1>1, <1>2, <1>4, <2>1 DEF Outcome
  <1> QED BY <1>3, <1>4

LEMMA CloseType ==
    ASSUME LineOk, Close
    PROVE  LineOk'
  <1>1. <<>> \in Seq(Replied)
    BY EmptySeq
  <1> QED BY <1>1 DEF LineOk, Close, Disconnected, Closed, Transports, Half

LEMMA WriteFacts ==
    ASSUME LineOk, NEW t \in Transports, NEW what \in {"command", "job"},
           NEW reply \in Seq(Replied), NEW w \in Write(t, what, reply)
    PROVE  /\ WriteOk(w)
           /\ Tcp /\ (~t.wrote => owed = <<>>) => (~w.transport.wrote => w.owed = <<>>)
  BY WriteStreamFacts, WriteDeviceFacts DEF Write

LEMMA RepliesType == \A q \in Names(Queries) : \A r \in Replies(q) : r \in Seq(Replied)
  <1> SUFFICES ASSUME NEW q \in Names(Queries), NEW r \in Replies(q) PROVE r \in Seq(Replied)
    OBVIOUS
  <1>1. q \in Replied
    BY DEF Replied
  <1>2. r = <<q>> \/ r = <<>>
    BY DEF Replies
  <1>3. <<q>> \in Seq(Replied) /\ <<>> \in Seq(Replied)
    BY <1>1, EmptySeq
  <1> QED BY <1>2, <1>3

-----------------------------------------------------------------------------
(* Types. *)

\* At the first query again.
LEMMA RestartedType ==
    ASSUME at' = 1, caps' \in BOOLEAN, any' \in BOOLEAN, attempt' = 0,
           pc' \in {"idle", "ask", "publish"}
    PROVE  PlaceOk'
  <1>1. 1 \in DOMAIN Queries
    BY QueryFacts
  <1>2. at' \in DOMAIN Queries /\ attempt' \in 0..3
    BY <1>1
  <1> QED BY <1>2 DEF PlaceOk

LEMMA Unattempted == PlaceOk /\ pc # "deliver" => attempt = 0
  BY DEF PlaceOk

LEMMA ProceedType ==
    ASSUME PlaceOk, pc \in {"ask", "reply"}, NEW ok \in BOOLEAN, Proceed(ok)
    PROVE  PlaceOk' /\ pc' \in {"ask", "publish"}
  <1>1. any' = (any \/ ok) /\ caps' = caps /\ attempt' = attempt /\ any \in BOOLEAN
    BY DEF Proceed, PlaceOk
  <1>2. any' \in BOOLEAN
    BY <1>1, Zenon
  <1>3. at \in 1..Len(Queries) /\ Len(Queries) \in Nat /\ Len(BaseQueries) \in Nat
        /\ Len(BaseQueries) <= Len(Queries)
    BY QueryFacts DEF PlaceOk
  <1>4. at' \in 1..Len(Queries) /\ pc' \in {"ask", "publish"}
    BY <1>3 DEF Proceed
  <1> QED BY <1>1, <1>2, <1>4, QueryFacts DEF PlaceOk

LEMMA ConcludeType ==
    ASSUME Typed, pc \in {"ask", "reply"}, NEW ok \in BOOLEAN, NEW replies \in SUBSET Replied,
           NEW verdict \in Verdicts, Conclude(ok, replies, verdict)
    PROVE  /\ ConfigOk' /\ power' \in BOOLEAN /\ PlaceOk' /\ AbsenceOk' /\ PresenceOk' /\ AnswerOk'
           /\ pc' \in {"ask", "publish"}
  <1> USE TypeParts
  <1>1. /\ UNCHANGED <<configVars, power, absenceVars, presenceVars, up, feed>> /\ Proceed(ok)
        /\ response' = [query |-> Queries[at], replies |-> replies]
        /\ ready' = (ready \/ Parsed(Queries[at], replies))
        /\ cap' = IF at > Len(BaseQueries) THEN [cap EXCEPT ![Queries[at]] = verdict] ELSE cap
    BY DEF Conclude
  <1>2. at \in 1..Len(Queries)
    BY QueryFacts DEF PlaceOk
  <1>3. PlaceOk' /\ pc' \in {"ask", "publish"}
    BY <1>1, ProceedType
  <1>4. AnswerOk'
    <2>1. ready' \in BOOLEAN
      BY <1>1, Zenon DEF AnswerOk, Parsed
    <2>2. cap' \in [Names(OptionalQueries) -> Verdicts]
      BY <1>1, <1>2, QueryFacts DEF AnswerOk
    <2>3. response'.query \in Names(Queries) /\ response'.replies \subseteq Replied
      BY <1>1, <1>2, QueryFacts
    <2> QED BY <1>1, <2>1, <2>2, <2>3 DEF AnswerOk
  <1> QED BY <1>1, <1>3, <1>4, Unchanged

LEMMA FailedType ==
    ASSUME Typed, Failed
    PROVE  AbsenceOk' /\ LineOk'
  <1> USE TypeParts
  <1>1. AbsenceOk'
    BY DEF AbsenceOk, Failed, Absence
  <1>2. LineOk'
    BY CloseType, Unchanged DEF Failed
  <1> QED BY <1>1, <1>2

LEMMA SucceededType ==
    ASSUME Typed, Succeeded
    PROVE  AbsenceOk' /\ LineOk'
  <1> USE TypeParts
  <1>1. AbsenceOk'
    BY DEF AbsenceOk, Succeeded
  <1>2. LineOk'
    BY Unchanged DEF Succeeded
  <1> QED BY <1>1, <1>2

LEMMA PollType ==
    ASSUME Typed, Poll
    PROVE  Typed'
  <1> USE TypeParts, TypePartsNext
  <1>1. ASSUME NEW c \in BOOLEAN, BeginProbe(c) PROVE Typed'
    <2>1. PICK e \in EnsureTransport :
            /\ pc = "idle" /\ e.ok /\ Spend("fault", e.cost)
            /\ transport' = e.transport /\ present' = e.present /\ open' = e.open
            /\ pc' = "ask" /\ at' = 1 /\ caps' = c /\ any' = FALSE
            /\ UNCHANGED <<configVars, power, lineVars, attempt, absenceVars, answerVars>>
      BY <1>1 DEF BeginProbe
    <2>2. LineOk' /\ PresenceOk' /\ BudgetOk'
      BY <2>1, EnsureFacts, SpendType DEF LineOk, PresenceOk, lineVars
    <2>3. PlaceOk'
      BY <2>1, RestartedType, Unattempted
    <2> QED BY <2>1, <2>2, <2>3, Unchanged
  <1>2. CASE ProbeUnopened
    <2>1. PICK e \in EnsureTransport :
            /\ Spend("fault", e.cost)
            /\ present' = e.present /\ open' = e.open
            /\ Failed
            /\ UNCHANGED <<configVars, power, pc, probeVars, attempt, answerVars>>
      BY <1>2 DEF ProbeUnopened
    <2>2. PresenceOk' /\ BudgetOk'
      BY <2>1, EnsureFacts, SpendType DEF PresenceOk
    <2> QED BY <2>1, <2>2, FailedType, Unchanged
  <1> QED BY <1>1, <1>2 DEF Poll

LEMMA AskType ==
    ASSUME Typed, AskTcp \/ AskChar \/ AskUsb
    PROVE  Typed'
  <1> USE TypeParts, TypePartsNext
  <1>1. /\ <<>> \in Seq(Replied) /\ {} \in SUBSET Replied /\ "unavailable" \in Verdicts
        /\ FALSE \in BOOLEAN /\ at \in 1..Len(Queries) /\ Queries[at] \in Names(Queries)
    BY EmptySeq, QueryFacts DEF Verdicts, PlaceOk
  <1>2. ASSUME pc = "ask", pc' = "reply", UNCHANGED <<probeVars, attempt>> PROVE PlaceOk'
    BY <1>2 DEF PlaceOk, probeVars
  <1>3. CASE AskTcp
    <2>1. pc = "ask" /\ transport' = Streamless /\ half' = "nothing"
      BY <1>3 DEF AskTcp
    <2>2. owed' \in Seq(Replied)
      <3>1. \A r \in Replies(Queries[at]) : owed \o r \in Seq(Replied)
        BY <1>1, RepliesType, ConcatProperties DEF LineOk
      <3>2. <<Queries[at]>> \in Seq(Replied)
        BY <1>1 DEF Replied
      <3>3. \/ owed' = <<>> \/ owed' = <<Queries[at]>>
            \/ \E r \in Replies(Queries[at]) : owed' = owed \o r
        BY <1>3 DEF AskTcp
      <3> QED BY <1>1, <3>1, <3>2, <3>3
    <2>3. LineOk'
      BY <2>1, <2>2 DEF LineOk, Streamless, Transports, Half
    <2>4. \/ /\ pc' = "reply"
             /\ UNCHANGED <<configVars, power, probeVars, attempt, absenceVars,
                            presenceVars, answerVars, budget>>
          \/ /\ \E n \in {0, 1} : Spend("fault", n)
             /\ Conclude(FALSE, {}, "unavailable")
      BY <1>3 DEF AskTcp
    <2>5. CASE /\ pc' = "reply"
               /\ UNCHANGED <<configVars, power, probeVars, attempt, absenceVars,
                              presenceVars, answerVars, budget>>
      BY <1>2, <2>1, <2>3, <2>5, Unchanged
    <2>6. CASE /\ \E n \in {0, 1} : Spend("fault", n)
               /\ Conclude(FALSE, {}, "unavailable")
      BY <1>1, <2>1, <2>3, <2>6, ConcludeType, SpendType
    <2> QED BY <2>4, <2>5, <2>6
  <1>4. CASE AskDevice
    <2>0. PICK r \in Replies(Queries[at]) :
            \E w \in WriteDevice(transport, "command", r) :
              /\ pc = "ask" /\ Spend("fault", w.cost)
              /\ transport' = w.transport /\ owed' = w.owed /\ half' = w.half
              /\ IF w.done = "all"
                 THEN /\ pc' = "reply"
                      /\ UNCHANGED <<configVars, power, probeVars, attempt, absenceVars,
                                     presenceVars, answerVars>>
                 ELSE Conclude(FALSE, {}, "unavailable")
      BY <1>4 DEF AskDevice
    <2>1. PICK w \in WriteDevice(transport, "command", r) :
            /\ pc = "ask" /\ Spend("fault", w.cost)
            /\ transport' = w.transport /\ owed' = w.owed /\ half' = w.half
            /\ IF w.done = "all"
               THEN /\ pc' = "reply"
                    /\ UNCHANGED <<configVars, power, probeVars, attempt, absenceVars,
                                   presenceVars, answerVars>>
               ELSE Conclude(FALSE, {}, "unavailable")
      BY <2>0
    <2>2. WriteOk(w)
      BY <1>1, RepliesType, WriteDeviceFacts DEF LineOk
    <2>3. LineOk' /\ BudgetOk'
      BY <2>1, <2>2, SpendType DEF WriteOk, LineOk
    <2>4. CASE w.done = "all"
      BY <1>2, <2>1, <2>3, <2>4, Unchanged
    <2>5. CASE w.done # "all"
      BY <1>1, <2>1, <2>3, <2>5, ConcludeType
    <2> QED BY <2>4, <2>5
  <1>5. CASE /\ pc = "ask" /\ Conclude(FALSE, {}, "unavailable")
             /\ UNCHANGED <<transport, lineVars, budget>>
    BY <1>1, <1>5, ConcludeType, Unchanged
  <1> QED BY <1>3, <1>4, <1>5 DEF AskChar, AskUsb

LEMMA ReadType ==
    ASSUME Typed, ReadTcp \/ ReadChar \/ ReadUsb
    PROVE  Typed'
  <1> USE TypeParts, TypePartsNext
  <1>1. /\ <<>> \in Seq(Replied) /\ {} \in SUBSET Replied /\ owed \in Seq(Replied)
        /\ {"unavailable", "not_supported", "value"} \subseteq Verdicts
    BY EmptySeq DEF Verdicts, LineOk
  <1>2. CASE Answered
    <2>1. PICK n \in 1..Len(owed) :
            /\ pc = "reply" /\ owed' = Left(SubSeq(owed, n + 1, Len(owed)))
            /\ Conclude(TRUE, Names(SubSeq(owed, 1, n)), "value")
            /\ UNCHANGED <<transport, half, budget>>
      BY <1>2 DEF Answered
    <2>2. n \in Nat /\ Len(owed) \in Nat /\ n <= Len(owed)
          /\ \A i \in 1..Len(owed) : owed[i] \in Replied
      BY <1>1
    <2>3. SubSeq(owed, n + 1, Len(owed)) \in Seq(Replied) /\ SubSeq(owed, 1, n) \in Seq(Replied)
      BY <2>2
    <2>4. Names(SubSeq(owed, 1, n)) \in SUBSET Replied
      BY <2>3 DEF Names
    <2>5. LineOk'
      BY <1>1, <2>1, <2>3 DEF LineOk, Left
    <2> QED BY <1>1, <2>1, <2>4, <2>5, ConcludeType, Unchanged
  <1>3. CASE Unanswered
    <2>1. /\ pc = "reply" /\ \E n \in {0, 1} : Spend("fault", n)
          /\ owed' = Left(owed) /\ Conclude(FALSE, {}, "unavailable")
          /\ UNCHANGED <<transport, half>>
      BY <1>3 DEF Unanswered
    <2>2. LineOk'
      BY <1>1, <2>1 DEF LineOk, Left
    <2> QED BY <1>1, <2>1, <2>2, ConcludeType, SpendType
  <1>4. CASE /\ pc = "reply" /\ Spend("fault", 1) /\ Conclude(TRUE, {}, "not_supported")
             /\ UNCHANGED <<transport, owed, half>>
    BY <1>1, <1>4, ConcludeType, SpendType, Unchanged
  <1> QED BY <1>2, <1>3, <1>4 DEF ReadTcp, ReadChar, ReadUsb

LEMMA SkipType ==
    ASSUME Typed, SkipOdometer
    PROVE  Typed'
  <1> USE TypeParts, TypePartsNext
  <1>1. /\ Proceed(FALSE) /\ pc = "ask"
        /\ UNCHANGED <<configVars, power, lineVars, transport, absenceVars, presenceVars,
                       up, ready, response, feed, budget>>
    BY DEF SkipOdometer
  <1>2. cap' \in [Names(OptionalQueries) -> Verdicts]
    BY DEF SkipOdometer, AnswerOk, Verdicts
  <1>3. AnswerOk'
    BY <1>1, <1>2 DEF AnswerOk
  <1> QED BY <1>1, <1>3, ProceedType, Unchanged

LEMMA PublishType ==
    ASSUME Typed, Publish
    PROVE  Typed'
  <1> USE TypeParts, TypePartsNext
  <1>1. /\ pc = "publish" /\ pc' = "idle" /\ up' = any
        /\ Succeeded \/ Failed
        /\ at' = 1 /\ caps' = FALSE /\ any' = FALSE
        /\ UNCHANGED <<configVars, power, attempt, presenceVars, ready, response, cap, budget>>
    BY DEF Publish
  <1>2. feed' \in Verdicts
    BY QueriesAssumption DEF Publish, AnswerOk
  <1>3. AnswerOk'
    BY <1>1, <1>2 DEF AnswerOk, PlaceOk
  <1>4. PlaceOk'
    BY <1>1, RestartedType, Unattempted
  <1> QED BY <1>1, <1>3, <1>4, SucceededType, FailedType, Unchanged

LEMMA WorkType ==
    ASSUME Typed, Maintain \/ Deliver \/ Attempt
    PROVE  Typed'
  <1> USE TypeParts, TypePartsNext
  <1>1. <<>> \in Seq(Replied) /\ <<"job">> \in Seq(Replied)
    BY EmptySeq DEF Replied
  <1>2. CASE Maintain
    <2>1. PICK e \in EnsureTransport :
            /\ present' = e.present /\ open' = e.open
            /\ IF ~e.ok
               THEN /\ budget' = [budget EXCEPT !.command = @ - 1, !.fault = @ - e.cost]
                    /\ UNCHANGED <<transport, owed, half>>
               ELSE \E w \in Write(e.transport, "command", <<>>) :
                      /\ budget' = [budget EXCEPT !.command = @ - 1, !.fault = @ - w.cost]
                      /\ transport' = w.transport /\ owed' = w.owed /\ half' = w.half
      BY <1>2 DEF Maintain
    <2>2. /\ budget.command > 0 /\ budget'.fault >= 0
          /\ UNCHANGED <<configVars, power, pc, probeVars, attempt, absenceVars, answerVars>>
      BY <1>2 DEF Maintain
    <2>3. PresenceOk'
      BY <2>1, EnsureFacts DEF PresenceOk
    <2>4. ASSUME NEW cost \in Nat,
                 budget' = [budget EXCEPT !.command = @ - 1, !.fault = @ - cost]
          PROVE  BudgetOk'
      <3>1. budget.power \in Nat /\ budget.fault \in Nat /\ budget.command \in Nat
        BY DEF BudgetOk
      <3>2. budget' = [power |-> budget.power, fault |-> budget.fault - cost,
                       command |-> budget.command - 1]
        BY <2>4 DEF BudgetOk
      <3>3. budget.fault - cost \in Nat /\ budget.command - 1 \in Nat
        BY <2>2, <3>1, <3>2
      <3> QED BY <3>1, <3>2, <3>3 DEF BudgetOk
    <2>5. LineOk' /\ BudgetOk'
      <3>1. CASE ~e.ok
        BY <2>1, <2>4, <3>1, EnsureFacts, Unchanged
      <3>2. CASE e.ok
        <4>1. PICK w \in Write(e.transport, "command", <<>>) :
                /\ budget' = [budget EXCEPT !.command = @ - 1, !.fault = @ - w.cost]
                /\ transport' = w.transport /\ owed' = w.owed /\ half' = w.half
          BY <2>1, <3>2
        <4>2. WriteOk(w)
          BY <1>1, EnsureFacts, WriteFacts
        <4> QED BY <2>4, <4>1, <4>2 DEF WriteOk, LineOk
      <3> QED BY <3>1, <3>2, EnsureFacts
    <2> QED BY <2>2, <2>3, <2>5, Unchanged
  <1>3. CASE Deliver
    <2>1. PlaceOk'
      BY <1>3 DEF Deliver, PlaceOk, probeVars
    <2> QED BY <1>3, <2>1, SpendType, Unchanged DEF Deliver
  <1>4. CASE Attempt
    <2>1. PICK e \in EnsureTransport, asks \in {<<>>, <<"job">>} :
            \E w \in IF e.ok THEN Write(e.transport, "job", asks)
                     ELSE {[done |-> "none", cost |-> e.cost, transport |-> Closed,
                            owed |-> owed, half |-> half]} :
               /\ present' = e.present /\ open' = e.open
               /\ Spend("fault", w.cost)
               /\ IF w.done = "all"
                  THEN transport' = w.transport /\ owed' = w.owed /\ half' = w.half
                  ELSE Settled(w)
               /\ IF w.done = "none" /\ attempt < Attempts
                  THEN attempt' = attempt + 1 /\ UNCHANGED pc
                  ELSE attempt' = 0 /\ pc' = "idle"
      BY <1>4 DEF Attempt
    <2>2. PICK w \in IF e.ok THEN Write(e.transport, "job", asks)
                     ELSE {[done |-> "none", cost |-> e.cost, transport |-> Closed,
                            owed |-> owed, half |-> half]} :
               /\ present' = e.present /\ open' = e.open
               /\ Spend("fault", w.cost)
               /\ IF w.done = "all"
                  THEN transport' = w.transport /\ owed' = w.owed /\ half' = w.half
                  ELSE Settled(w)
               /\ IF w.done = "none" /\ attempt < Attempts
                  THEN attempt' = attempt + 1 /\ UNCHANGED pc
                  ELSE attempt' = 0 /\ pc' = "idle"
      BY <2>1
    <2>3. /\ pc = "deliver"
          /\ UNCHANGED <<configVars, power, probeVars, absenceVars, answerVars>>
      BY <1>4 DEF Attempt
    <2>4. WriteOk(w)
      <3>1. CASE e.ok
        BY <1>1, <2>2, <3>1, EnsureFacts, WriteFacts
      <3>2. CASE ~e.ok
        <4>1. w = [done |-> "none", cost |-> e.cost, transport |-> Closed,
                   owed |-> owed, half |-> half]
          BY <2>2, <3>2
        <4>2. Closed \in Transports /\ e.cost \in Nat /\ owed \in Seq(Replied) /\ half \in Half
          BY EnsureFacts DEF LineOk, Closed, Transports
        <4> QED BY <4>1, <4>2 DEF WriteOk
      <3> QED BY <3>1, <3>2, EnsureFacts
    <2>5. LineOk'
      <3>1. CASE w.done = "all"
        BY <2>2, <2>4, <3>1 DEF WriteOk, LineOk
      <3>2. CASE w.done # "all"
        <4>1. Settled(w)
          BY <2>2, <3>2
        <4>2. Closed \in Transports /\ "nothing" \in Half
          BY DEF Closed, Transports, Half
        <4>3. owed' \in {<<>>, w.owed} /\ half' \in {"nothing", w.half} /\ transport' = Closed
          BY <4>1 DEF Settled
        <4> QED BY <1>1, <2>4, <4>2, <4>3 DEF LineOk, WriteOk
      <3> QED BY <3>1, <3>2
    <2>6. BudgetOk' /\ PresenceOk'
      BY <2>2, <2>4, EnsureFacts, SpendType DEF WriteOk, PresenceOk
    <2>7. PlaceOk'
      BY <2>2, <2>3 DEF PlaceOk, probeVars, Attempts
    <2> QED BY <2>3, <2>5, <2>6, <2>7, Unchanged
  <1> QED BY <1>2, <1>3, <1>4

LEMMA OutsideType ==
    ASSUME Typed, PowerOff \/ PowerOn \/ Elapse \/ Restart
    PROVE  Typed'
  <1> USE TypeParts, TypePartsNext
  <1>1. CASE PowerOff
    <2>1. LineOk'
      BY <1>1, EmptySeq DEF PowerOff, LineOk, Transports, Half
    <2> QED BY <1>1, <2>1, SpendType, Unchanged DEF PowerOff
  <1>2. CASE PowerOn
    BY <1>2, Unchanged DEF PowerOn
  <1>3. CASE Elapse
    <2>1. AbsenceOk'
      BY <1>3 DEF Elapse, AbsenceOk
    <2> QED BY <1>3, <2>1, Unchanged DEF Elapse
  <1>4. CASE Restart
    <2>1. PlaceOk'
      BY <1>4, RestartedType DEF Restart
    <2>2. AbsenceOk' /\ PresenceOk'
      BY <1>4 DEF Restart, AbsenceOk, PresenceOk
    <2>3. AnswerOk'
      BY <1>4 DEF Restart, AnswerOk, NoResponse, Verdicts
    <2> QED BY <1>4, <2>1, <2>2, <2>3, CloseType, SpendType, Unchanged DEF Restart
  <1> QED BY <1>1, <1>2, <1>3, <1>4

LEMMA TypeInit == Init => Typed
  <1> SUFFICES ASSUME Init PROVE Typed
    OBVIOUS
  <1>1. LineOk
    BY EmptySeq DEF Init, Fresh, LineOk, Closed, Transports, Half
  <1>2. 1 \in DOMAIN Queries
    BY QueryFacts
  <1>3. PlaceOk
    <2>1. pc = "idle" /\ at = 1 /\ caps = FALSE /\ any = FALSE /\ attempt = 0
      BY DEF Init, Fresh
    <2>2. attempt \in 0..3 /\ ~(attempt > 0) /\ at \in DOMAIN Queries
      BY <1>2, <2>1
    <2> QED BY <2>1, <2>2 DEF PlaceOk
  <1>5. AbsenceOk /\ PresenceOk
    BY DEF Init, Fresh, AbsenceOk, PresenceOk
  <1>4. AnswerOk
    BY DEF Init, Fresh, AnswerOk, NoResponse, Verdicts
  <1> QED BY <1>1, <1>3, <1>4, <1>5, BudgetAssumption, TypeParts DEF Init, ConfigOk, BudgetOk

LEMMA TypeStep == Typed /\ [Next]_vars => Typed'
  <1> SUFFICES ASSUME Typed, [Next]_vars PROVE Typed'
    OBVIOUS
  <1>1. CASE UNCHANGED vars
    BY <1>1, TypeParts, TypePartsNext, Unchanged DEF vars
  <1>2. CASE Work
    BY <1>2, SkipType, AskType, ReadType, PublishType, WorkType DEF Work
  <1> QED BY <1>1, <1>2, PollType, WorkType, OutsideType DEF Next

\* What a step can make of the observer of late replies.
Renewed == late' = (~Tcp /\ owed # <<>>)

LEMMA LateSteps == [Next]_vars => UNCHANGED late \/ LeaveDue \/ (Restart /\ Renewed)
  <1> SUFFICES ASSUME [Next]_vars PROVE UNCHANGED late \/ LeaveDue \/ (Restart /\ Renewed)
    OBVIOUS
  <1>1. CASE Failed \/ Succeeded
    BY <1>1 DEF Failed, Succeeded, lineVars
  <1>2. CASE Publish
    BY <1>1, <1>2 DEF Publish
  <1>3. CASE Poll
    BY <1>1, <1>3 DEF Poll, ProbeUnopened, BeginProbe, lineVars
  <1>4. CASE SkipOdometer \/ Attempt
    BY <1>4 DEF SkipOdometer, Attempt, lineVars
  <1>5. CASE AskTcp \/ AskChar \/ AskUsb
    BY <1>5 DEF AskTcp, AskChar, AskUsb, AskDevice, lineVars
  <1>6. CASE ReadTcp \/ ReadChar \/ ReadUsb
    BY <1>6 DEF ReadTcp, ReadChar, ReadUsb, Answered, Unanswered
  <1>7. CASE Maintain \/ Deliver \/ PowerOff \/ PowerOn \/ Elapse
    BY <1>7 DEF Maintain, Deliver, PowerOff, PowerOn, Elapse, lineVars
  <1>8. CASE Restart
    BY <1>8 DEF Restart, Renewed
  <1>9. CASE UNCHANGED vars
    BY <1>9 DEF vars, lineVars
  <1> QED BY <1>2, <1>3, <1>4, <1>5, <1>6, <1>7, <1>8, <1>9 DEF Next, Work

\* Every variable keeps its type; an attempt at a delivery is counted exactly while
\* the worker delivers.
THEOREM ProbesTyped == Spec => []TypeOK
  <1>1. Init => LateOk
    BY DEF Init, LateOk
  <1>2. LateOk /\ [Next]_vars => LateOk'
    BY LateSteps, Zenon DEF LateOk, LeaveDue, Renewed
  <1> QED BY <1>1, <1>2, TypeInit, TypeStep, TypedAll, PTL DEF Spec

-----------------------------------------------------------------------------
(* Whose reply it is: over TCP one has a connection to itself, on a device it  *)
(* does while none was left behind.                                           *)

\* The channel brings nothing but what is asked for: always over TCP, and on a device
\* as long as no reply was left to whoever asks next.
OnTrack == Tcp \/ ~late

\* What is due is the reply to the query that is asked; while none is, only a TCP
\* connection that was written to may bring anything.
ReplyInv ==
    /\ pc = "reply" => \/ owed = <<>>
                       \/ owed = <<Queries[at]>> /\ Queries[at] \in firmware /\ ~Skipped
    /\ pc # "reply" => (~Tcp \/ ~transport.wrote => owed = <<>>)

HonestInv ==
    OnTrack => /\ ReplyInv /\ CapabilityHonest
               /\ cap[Odometer] = "value" => ~disabled

\* A step other than a restart stays on track or leaves it; what is due on a device
\* that nobody waits for leaves it.
LEMMA StaysOnTrack ==
    ASSUME kind' = kind, UNCHANGED late \/ LeaveDue, OnTrack'
    PROVE  OnTrack
  BY Zenon DEF OnTrack, LeaveDue, Tcp

LEMMA NothingLeft ==
    ASSUME kind' = kind, LeaveDue, OnTrack'
    PROVE  Tcp \/ owed' = <<>>
  BY Zenon DEF OnTrack, LeaveDue, Tcp

LEMMA EnsuredChannel ==
    ASSUME LineOk, PresenceOk, ~Tcp \/ ~transport.wrote => owed = <<>>,
           NEW e \in EnsureTransport
    PROVE  ~Tcp \/ ~e.transport.wrote => owed = <<>>
  BY EnsureFacts DEF Closed, Opened

\* The snapshot says no more after a query than before.
LEMMA Silent ==
    ASSUME Typed, HonestInv, OnTrack, ReplyInv', UNCHANGED <<kind, disabled, firmware>>,
           response'.replies = {} \/ response' = response,
           ready' => ready,
           \A q \in Names(OptionalQueries) :
              cap'[q] \in {cap[q], "unavailable", "unknown"}
                \/ (cap'[q] = "not_supported"
                      /\ ((disabled /\ q = Odometer) \/ kind = "char")),
           feed' \in {feed, cap[Odometer], "unknown"}
    PROVE  HonestInv'
  <1>1. CapabilityHonest /\ (cap[Odometer] = "value" => ~disabled)
    BY DEF HonestInv
  <1>2. /\ response.replies \subseteq {response.query}
        /\ ready => BaseQueries[1] \in firmware
        /\ \A q \in Names(OptionalQueries) :
              /\ cap[q] = "value" => q \in firmware
              /\ cap[q] = "not_supported" => (disabled /\ q = Odometer) \/ kind = "char"
        /\ feed = "value" => Odometer \in firmware /\ ~disabled
    BY <1>1 DEF CapabilityHonest, OnTrack
  <1>3. Odometer \in Names(OptionalQueries)
    BY QueriesAssumption
  <1>4. CapabilityHonest'
    BY <1>1, <1>2, <1>3 DEF CapabilityHonest
  <1>5. cap'[Odometer] = "value" => ~disabled'
    BY <1>1, <1>3
  <1> QED BY <1>4, <1>5 DEF HonestInv

LEMMA Unasking == owed' = <<>> => ReplyInv'
  BY DEF ReplyInv

LEMMA SameChannel ==
    ASSUME ReplyInv, UNCHANGED <<owed, transport, at, kind, disabled, firmware>>,
           pc' = pc \/ (pc # "reply" /\ pc' # "reply")
    PROVE  ReplyInv'
  BY DEF ReplyInv, Skipped, Tcp

\* A query that failed says nothing.
LEMMA FailedQuery ==
    ASSUME Typed, HonestInv, OnTrack, owed' = <<>>, pc \in {"ask", "reply"},
           Conclude(FALSE, {}, "unavailable")
    PROVE  HonestInv'
  <1>1. /\ UNCHANGED <<kind, disabled, firmware, feed>> /\ response'.replies = {}
        /\ ready' = (ready \/ Parsed(Queries[at], {}))
        /\ cap' = IF at > Len(BaseQueries) THEN [cap EXCEPT ![Queries[at]] = "unavailable"] ELSE cap
    BY DEF Conclude, configVars
  <1>2. ready' => ready
    BY <1>1 DEF Parsed
  <1>3. \A q \in Names(OptionalQueries) : cap'[q] \in {cap[q], "unavailable"}
    BY <1>1 DEF Typed, AnswerOk
  <1> QED BY <1>1, <1>2, <1>3, Unasking, Silent

\* An answer is the one reply that is due.
LEMMA AnsweredQuery ==
    ASSUME Typed, HonestInv, OnTrack, owed' = <<>>, Answered
    PROVE  HonestInv'
  <1>1. PICK n \in 1..Len(owed) :
          /\ pc = "reply" /\ owed' = Left(SubSeq(owed, n + 1, Len(owed)))
          /\ Conclude(TRUE, Names(SubSeq(owed, 1, n)), "value")
    BY DEF Answered
  <1>2. owed = <<Queries[at]>> /\ Queries[at] \in firmware /\ ~Skipped
    BY <1>1 DEF HonestInv, ReplyInv
  <1>3. Names(SubSeq(owed, 1, n)) = {Queries[at]}
    <2>1. n = 1
      BY <1>2
    <2>2. owed[1] = Queries[at] /\ \A i \in 1..1 : owed[i] \in {Queries[at]}
      BY <1>2
    <2>3. /\ SubSeq(owed, 1, 1) \in Seq({Queries[at]}) /\ Len(SubSeq(owed, 1, 1)) = 1
          /\ SubSeq(owed, 1, 1)[1] = Queries[at]
      BY <2>2, SubSeqProperties
    <2>4. DOMAIN SubSeq(owed, 1, 1) = 1..1
      BY <2>3, LenProperties
    <2>5. 1..1 = {1}
      OBVIOUS
    <2> QED BY <2>1, <2>3, <2>4, <2>5 DEF Names
  <1>4. /\ UNCHANGED <<kind, disabled, firmware, feed>>
        /\ response' = [query |-> Queries[at], replies |-> {Queries[at]}]
        /\ ready' = (ready \/ Parsed(Queries[at], {Queries[at]}))
        /\ cap' = IF at > Len(BaseQueries) THEN [cap EXCEPT ![Queries[at]] = "value"] ELSE cap
    BY <1>1, <1>3 DEF Conclude, configVars
  <1>5. ReplyInv'
    BY Unasking
  <1>6. Queries[at] = Odometer => ~disabled
    BY <1>2 DEF Skipped
  <1>7. Odometer \in Names(OptionalQueries) /\ cap \in [Names(OptionalQueries) -> Verdicts]
    BY QueriesAssumption DEF Typed, AnswerOk
  <1>8. CapabilityHonest /\ (cap[Odometer] = "value" => ~disabled)
    BY DEF HonestInv
  <1>9. ready' => BaseQueries[1] \in firmware
    BY <1>2, <1>4, <1>8 DEF Parsed, CapabilityHonest, OnTrack
  <1>10. \A q \in Names(OptionalQueries) :
            /\ cap'[q] = "value" => q \in firmware
            /\ cap'[q] = "not_supported" => (disabled /\ q = Odometer) \/ kind = "char"
    BY <1>2, <1>4, <1>7, <1>8 DEF CapabilityHonest, OnTrack
  <1>11. cap'[Odometer] = "value" => ~disabled
    BY <1>4, <1>6, <1>7, <1>8
  <1>13. feed' = "value" => Odometer \in firmware /\ ~disabled
    BY <1>4, <1>8 DEF CapabilityHonest, OnTrack
  <1>12. CapabilityHonest'
    BY <1>4, <1>9, <1>10, <1>13 DEF CapabilityHonest
  <1> QED BY <1>4, <1>5, <1>11, <1>12 DEF HonestInv

LEMMA AskedOverTcp ==
    ASSUME Typed, HonestInv, OnTrack, Tcp, AskTcp
    PROVE  HonestInv'
  <1>1. ReplyInv /\ pc = "ask" /\ ~Skipped
    BY DEF HonestInv, AskTcp
  <1>2. CASE owed' = <<>> /\ Conclude(FALSE, {}, "unavailable")
    BY <1>1, <1>2, FailedQuery
  <1>3. CASE /\ pc' = "reply" /\ UNCHANGED <<configVars, probeVars, answerVars>>
             /\ owed' \in {<<>>, <<Queries[at]>>}
             /\ owed' # <<>> => Queries[at] \in firmware
    <2>1. UNCHANGED <<kind, disabled, firmware, at, ready, response, cap, feed>>
      BY <1>3 DEF configVars, probeVars, answerVars
    <2>2. ReplyInv'
      BY <1>1, <1>3, <2>1 DEF ReplyInv, Skipped
    <2> QED BY <2>1, <2>2, Silent
  <1>4. ASSUME ~transport.wrote, NEW r \in Replies(Queries[at])
        PROVE  /\ owed \o r \in {<<>>, <<Queries[at]>>}
               /\ owed \o r # <<>> => Queries[at] \in firmware
    <2>1. owed = <<>>
      BY <1>1, <1>4 DEF ReplyInv
    <2>2. r = <<>> \/ (r = <<Queries[at]>> /\ Queries[at] \in firmware)
      BY DEF Replies
    <2>3. <<>> \o <<>> = <<>> /\ <<>> \o <<Queries[at]>> = <<Queries[at]>>
      OBVIOUS
    <2> QED BY <2>1, <2>2, <2>3
  <1>5. \/ owed' = <<>> /\ Conclude(FALSE, {}, "unavailable")
        \/ /\ pc' = "reply" /\ UNCHANGED <<configVars, probeVars, answerVars>>
           /\ \/ owed' = <<>>
              \/ owed' = <<Queries[at]>> /\ Queries[at] \in firmware
              \/ ~transport.wrote /\ \E r \in Replies(Queries[at]) : owed' = owed \o r
    BY DEF AskTcp
  <1> QED BY <1>2, <1>3, <1>4, <1>5

LEMMA AskedOnDevice ==
    ASSUME Typed, HonestInv, OnTrack, ~Tcp, AskChar \/ AskUsb
    PROVE  HonestInv'
  <1>1. ReplyInv /\ pc = "ask" /\ ~Skipped /\ owed = <<>>
    BY DEF HonestInv, ReplyInv, AskChar, AskUsb, AskDevice
  <1>2. CASE owed' = <<>> /\ Conclude(FALSE, {}, "unavailable")
    BY <1>1, <1>2, FailedQuery
  <1>3. CASE AskDevice
    <2>1. PICK r \in Replies(Queries[at]) : \E w \in WriteDevice(transport, "command", r) :
            /\ owed' = w.owed
            /\ IF w.done = "all"
               THEN pc' = "reply" /\ UNCHANGED <<configVars, probeVars, answerVars>>
               ELSE Conclude(FALSE, {}, "unavailable")
      BY <1>3 DEF AskDevice
    <2>2. PICK w \in WriteDevice(transport, "command", r) :
            /\ owed' = w.owed
            /\ IF w.done = "all"
               THEN pc' = "reply" /\ UNCHANGED <<configVars, probeVars, answerVars>>
               ELSE Conclude(FALSE, {}, "unavailable")
      BY <2>1
    <2>3. /\ w.done # "all" => w.owed = owed
          /\ w.done = "all" => w.owed = owed \o r
      BY DEF WriteDevice, Outcome
    <2>4. CASE w.done # "all"
      BY <1>1, <1>2, <2>2, <2>3, <2>4
    <2>5. CASE w.done = "all"
      <3>1. UNCHANGED <<kind, disabled, firmware, at, ready, response, cap, feed>>
        BY <2>2, <2>5 DEF configVars, probeVars, answerVars
      <3>2. r = <<>> \/ (r = <<Queries[at]>> /\ Queries[at] \in firmware)
        BY DEF Replies
      <3>3. <<>> \o <<>> = <<>> /\ <<>> \o <<Queries[at]>> = <<Queries[at]>>
        OBVIOUS
      <3>4. owed' = <<>> \/ (owed' = <<Queries[at]>> /\ Queries[at] \in firmware)
        BY <1>1, <2>2, <2>3, <2>5, <3>2, <3>3
      <3>5. ReplyInv'
        BY <1>1, <2>2, <2>5, <3>1, <3>4 DEF ReplyInv, Skipped
      <3> QED BY <3>1, <3>5, Silent
    <2> QED BY <2>4, <2>5
  <1>4. CASE Conclude(FALSE, {}, "unavailable") /\ UNCHANGED lineVars
    BY <1>1, <1>2, <1>4 DEF lineVars
  <1> QED BY <1>3, <1>4 DEF AskChar, AskUsb

LEMMA ReadAnswer ==
    ASSUME Typed, HonestInv, OnTrack, OnTrack', kind' = kind, ReadTcp \/ ReadChar \/ ReadUsb
    PROVE  HonestInv'
  <1>1. Tcp /\ (Answered \/ Unanswered) => owed' = <<>>
    BY DEF Answered, Unanswered, Left
  <1>2. LeaveDue
    BY DEF ReadTcp, ReadChar, ReadUsb, Answered, Unanswered
  <1>3. ~Tcp => owed' = <<>>
    BY <1>2, NothingLeft
  <1>4. CASE Answered
    BY <1>1, <1>3, <1>4, AnsweredQuery
  <1>5. CASE Unanswered
    BY <1>1, <1>3, <1>5, FailedQuery DEF Unanswered
  <1>6. CASE ReadChar /\ Conclude(TRUE, {}, "not_supported") /\ UNCHANGED owed
    <2>1. /\ UNCHANGED <<kind, disabled, firmware, feed>> /\ response'.replies = {}
          /\ ready' = (ready \/ Parsed(Queries[at], {}))
          /\ cap' = IF at > Len(BaseQueries) THEN [cap EXCEPT ![Queries[at]] = "not_supported"]
                     ELSE cap
      BY <1>6 DEF Conclude, configVars
    <2>2. ready' => ready
      BY <2>1 DEF Parsed
    <2>3. kind = "char" /\ owed' = <<>>
      BY <1>3, <1>6 DEF ReadChar, Tcp
    <2>4. \A q \in Names(OptionalQueries) : cap'[q] \in {cap[q], "not_supported"}
      BY <2>1 DEF Typed, AnswerOk
    <2> QED BY <2>1, <2>2, <2>3, <2>4, Unasking, Silent
  <1> QED BY <1>4, <1>5, <1>6 DEF ReadTcp, ReadChar, ReadUsb

LEMMA SkippedQuery ==
    ASSUME Typed, HonestInv, OnTrack, SkipOdometer
    PROVE  HonestInv'
  <1>1. /\ UNCHANGED <<kind, disabled, firmware, feed, ready, response, lineVars, transport>>
        /\ cap' = [cap EXCEPT ![Odometer] = "not_supported"] /\ disabled
        /\ pc = "ask" /\ pc' # "reply"
    BY DEF SkipOdometer, Proceed, Skipped, configVars
  <1>2. ReplyInv'
    BY <1>1 DEF HonestInv, ReplyInv, lineVars, Tcp
  <1>3. \A q \in Names(OptionalQueries) :
            cap'[q] = cap[q] \/ (cap'[q] = "not_supported" /\ disabled /\ q = Odometer)
    BY <1>1 DEF Typed, AnswerOk
  <1> QED BY <1>1, <1>2, <1>3, Silent

\* A failure keeps the channel or closes it.
LEMMA FailedChannel ==
    ASSUME ReplyInv, kind' = kind, Failed \/ Succeeded, pc # "reply", pc' # "reply"
    PROVE  ReplyInv'
  <1>1. UNCHANGED <<transport, owed>> \/ owed' = <<>> \/ (~Tcp /\ UNCHANGED owed)
    BY DEF Failed, Succeeded, Close, Disconnected, lineVars
  <1> QED BY <1>1, Unasking DEF ReplyInv, Tcp

\* A command leaves a silent channel silent, and so does a job over TCP.
LEMMA WrittenChannel ==
    ASSUME LineOk, NEW t \in Transports, NEW what \in {"command", "job"},
           NEW reply \in Seq(Replied), NEW w \in Write(t, what, reply),
           Tcp \/ reply = <<>>, ~Tcp \/ ~t.wrote => owed = <<>>
    PROVE  ~Tcp \/ ~w.transport.wrote => w.owed = <<>>
  <1>1. CASE Tcp
    BY <1>1, WriteFacts
  <1>2. CASE ~Tcp
    <2>1. w \in WriteDevice(t, what, <<>>) /\ owed = <<>>
      BY <1>2 DEF Write
    <2>2. <<>> \o <<>> = <<>>
      OBVIOUS
    <2>3. w.owed = owed \o <<>> \/ w.owed = owed
      BY <2>1 DEF WriteDevice, Outcome
    <2> QED BY <1>2, <2>1, <2>2, <2>3
  <1> QED BY <1>1, <1>2

LEMMA HonestStep == Typed /\ HonestInv /\ [Next]_vars => HonestInv'
  <1> SUFFICES ASSUME Typed, HonestInv, [Next]_vars PROVE HonestInv'
    OBVIOUS
  <1>1. kind' = kind
    BY DEF Next, Poll, Work, ProbeUnopened, BeginProbe, SkipOdometer, AskTcp, AskChar, AskUsb,
       AskDevice, ReadTcp, ReadChar, ReadUsb, Answered, Unanswered, Conclude, Publish, Attempt,
       Maintain, Deliver, PowerOff, PowerOn, Elapse, Restart, configVars, vars
  <1> SUFFICES ASSUME OnTrack' PROVE HonestInv'
    BY DEF HonestInv
  <1>11. CASE Restart
    <2>1. /\ response'.replies = {} /\ ready' = FALSE /\ feed' = "unknown"
          /\ \A q \in Names(OptionalQueries) : cap'[q] = "unknown"
          /\ pc' = "idle" /\ owed' = Disconnected.owed
      BY <1>11 DEF Restart, Close, NoResponse
    <2>2. CapabilityHonest' /\ cap'[Odometer] # "value"
      BY <2>1, QueriesAssumption DEF CapabilityHonest
    <2>3. Renewed
      BY <1>11 DEF Restart, Renewed
    <2>4. Tcp \/ owed = <<>>
      BY <1>1, <2>3, Zenon DEF OnTrack, Renewed, Tcp
    <2>5. owed' = <<>>
      BY <2>1, <2>4 DEF Disconnected
    <2> QED BY <2>2, <2>5, Unasking DEF HonestInv
  <1> SUFFICES ASSUME ~Restart PROVE HonestInv'
    BY <1>11
  <1>0. OnTrack
    BY <1>1, LateSteps, StaysOnTrack
  <1>2. ReplyInv /\ LineOk /\ PresenceOk
    BY <1>0, TypeParts DEF HonestInv
  <1>3. ASSUME UNCHANGED <<configVars, answerVars>>, ReplyInv' PROVE HonestInv'
    <2>1. UNCHANGED <<kind, disabled, firmware, ready, response, cap, feed>>
      BY <1>3 DEF configVars, answerVars
    <2> QED BY <1>0, <1>3, <2>1, Silent
  <1>4. ASSUME UNCHANGED <<configVars, answerVars, owed, transport, at>>,
               pc' = pc \/ (pc # "reply" /\ pc' # "reply")
        PROVE  HonestInv'
    BY <1>2, <1>3, <1>4, SameChannel DEF configVars
  <1>5. ASSUME NEW c \in BOOLEAN, BeginProbe(c) PROVE HonestInv'
    <2>1. PICK e \in EnsureTransport :
            /\ pc = "idle" /\ transport' = e.transport /\ pc' = "ask"
            /\ UNCHANGED <<configVars, lineVars, answerVars>>
      BY <1>5 DEF BeginProbe
    <2>2. ReplyInv'
      BY <1>1, <1>2, <2>1, EnsuredChannel DEF ReplyInv, lineVars, Tcp
    <2> QED BY <1>3, <2>1, <2>2
  <1>6. CASE ProbeUnopened
    BY <1>1, <1>2, <1>3, <1>6, FailedChannel DEF ProbeUnopened
  <1>7. CASE ReadTcp \/ ReadChar \/ ReadUsb
    BY <1>0, <1>1, <1>7, ReadAnswer
  <1>8. CASE Publish
    <2>1. /\ pc = "publish" /\ pc' = "idle" /\ (Failed \/ Succeeded)
          /\ UNCHANGED <<kind, disabled, firmware, ready, response, cap>>
          /\ feed' \in {feed, cap[Odometer]}
      BY <1>8 DEF Publish, configVars
    <2>2. ReplyInv'
      BY <1>1, <1>2, <2>1, FailedChannel
    <2> QED BY <1>0, <2>1, <2>2, Silent
  <1>9. CASE Maintain
    <2>1. PICK e \in EnsureTransport :
            \/ UNCHANGED <<transport, owed>>
            \/ \E w \in Write(e.transport, "command", <<>>) :
                   transport' = w.transport /\ owed' = w.owed
      BY <1>9 DEF Maintain
    <2>2. pc = "idle" /\ pc' = "idle" /\ UNCHANGED <<configVars, answerVars, at>>
      BY <1>9 DEF Maintain, probeVars
    <2>3. ~Tcp \/ ~e.transport.wrote => owed = <<>>
      BY <1>2, <2>2, EnsuredChannel DEF ReplyInv
    <2>4. ASSUME NEW w \in Write(e.transport, "command", <<>>),
                 transport' = w.transport, owed' = w.owed
          PROVE  HonestInv'
      <3>1. ~Tcp \/ ~w.transport.wrote => w.owed = <<>>
        BY <1>2, <2>3, EnsureFacts, EmptySeq, WrittenChannel
      <3> QED BY <1>1, <1>3, <2>2, <2>4, <3>1 DEF ReplyInv, Tcp
    <2> QED BY <1>4, <2>1, <2>2, <2>4
  <1>10. CASE Attempt
    <2>1. PICK e \in EnsureTransport, asks \in {<<>>, <<"job">>} :
            \/ \E w \in Write(e.transport, "job", asks) :
                   transport' = w.transport /\ owed' = w.owed
            \/ Tcp => owed' = <<>>
      BY <1>10 DEF Attempt, Settled
    <2>2. pc = "deliver" /\ pc' # "reply" /\ UNCHANGED <<configVars, answerVars>> /\ LeaveDue
      BY <1>10 DEF Attempt
    <2>3. ~Tcp \/ ~e.transport.wrote => owed = <<>>
      BY <1>2, <2>2, EnsuredChannel DEF ReplyInv
    <2>4. asks \in Seq(Replied)
      <3>1. <<"job">> \in Seq(Replied) /\ <<>> \in Seq(Replied)
        BY EmptySeq DEF Replied
      <3> QED BY <3>1
    <2>5. ASSUME Tcp, NEW w \in Write(e.transport, "job", asks),
                 transport' = w.transport, owed' = w.owed
          PROVE  HonestInv'
      <3>1. ~Tcp \/ ~w.transport.wrote => w.owed = <<>>
        BY <1>2, <2>3, <2>4, <2>5, EnsureFacts, WrittenChannel
      <3> QED BY <1>1, <1>3, <2>2, <2>5, <3>1 DEF ReplyInv, Tcp
    <2>6. Tcp \/ owed' = <<>>
      BY <1>1, <2>2, NothingLeft
    <2> QED BY <1>3, <2>1, <2>2, <2>5, <2>6, Unasking
  <1>12. CASE PowerOff
    BY <1>3, <1>12, Unasking DEF PowerOff
  <1>13. CASE PowerOn \/ Elapse \/ Deliver \/ UNCHANGED vars
    BY <1>4, <1>13 DEF PowerOn, Elapse, Deliver, vars, probeVars, lineVars
  <1>14. AskTcp => Tcp
    BY DEF AskTcp
  <1>15. AskChar \/ AskUsb => ~Tcp
    BY DEF AskChar, AskUsb, Tcp
  <1> QED BY <1>0, <1>5, <1>6, <1>7, <1>8, <1>9, <1>10, <1>12, <1>13, <1>14, <1>15, AskedOverTcp,
             AskedOnDevice, SkippedQuery DEF Next, Poll, Work

\* The snapshot rests on replies to the right queries, over TCP always and on a device
\* until a reply is left to whoever asks next: a capability has a value only if the
\* printer knows the query, is unsupported only if it was disabled or read as empty
\* from a character device, and neither the status nor the detection of manual feeds
\* is a late reply's.
THEOREM CapabilitiesAreHonest == Spec => []CapabilityHonest
  <1>1. Init => HonestInv
    BY QueriesAssumption
       DEF Init, Fresh, HonestInv, ReplyInv, CapabilityHonest, NoResponse
  <1>2. HonestInv => CapabilityHonest
    BY DEF HonestInv, CapabilityHonest, OnTrack
  <1> QED BY <1>1, <1>2, TypeInit, TypeStep, HonestStep, PTL DEF Spec
=============================================================================
