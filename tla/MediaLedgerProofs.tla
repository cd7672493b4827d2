-------------------------- MODULE MediaLedgerProofs --------------------------
(***************************************************************************)
(* The accounting of a roll holds for all label counts, jobs, crashes and  *)
(* disk errors: types, the sums, the atomicity of every mutation; then what *)
(* is charged: no job twice, every boot before the agent serves and not     *)
(* after, nothing lost but by a crash or a disk error; and the ledger       *)
(* explains the state it leads to.                                         *)
(***************************************************************************)
EXTENDS MediaLedger, FiniteSetTheorems, SequenceTheorems, TLAPS

-----------------------------------------------------------------------------
(* Types *)

\* Label counts form an interval of naturals.
LEMMA Limits == /\ MaxLabels \in Nat /\ HalfRange \in Nat /\ HalfRange > 0
                /\ MaxLabels = 2 * HalfRange - 1
  BY AmountsAssumption DEF MaxLabels

\* The arithmetic of the account stays within u64, the delta within i64.
LEMMA CountTypes ==
    ASSUME NEW n \in 0..MaxLabels, NEW k \in 0..MaxLabels
    PROVE  /\ Saturate(n + k) \in 0..MaxLabels
           /\ Over(n, k) \in 0..MaxLabels
           /\ Negated(n) \in -HalfRange..(HalfRange - 1)
  BY Limits DEF Saturate, Over, Negated

\* A changed state is a state.
LEMMA StateTypes ==
    ASSUME NEW m \in States, NEW n \in 0..MaxLabels
    PROVE  /\ Debited(m, n) \in States
           /\ Estimated(m, n) \in States
           /\ Credited(m, n) \in States
  <1>1. /\ Saturate(m.consumed + n) \in 0..MaxLabels
        /\ Saturate(m.remaining + n) \in 0..MaxLabels
        /\ Over(m.remaining, n) \in 0..MaxLabels
        /\ Over(n, m.remaining) \in 0..MaxLabels
    BY CountTypes DEF States
  <1>2. Saturate(m.deficit + Over(n, m.remaining)) \in 0..MaxLabels
    BY <1>1, CountTypes DEF States
  <1>3. m.seq + 1 \in Nat
    BY DEF States
  <1>4. Debited(m, n) \in States
    <2> DEFINE r == Over(m.remaining, n)
               c == Saturate(m.consumed + n)
               d == Saturate(m.deficit + Over(n, m.remaining))
               s == m.seq + 1
    <2>1. r \in 0..MaxLabels /\ c \in 0..MaxLabels /\ d \in 0..MaxLabels /\ s \in Nat
      BY <1>1, <1>2, <1>3
    <2>2. Debited(m, n) = [m EXCEPT !.remaining = r, !.consumed = c, !.deficit = d, !.seq = s]
      BY DEF Debited
    <2> HIDE DEF r, c, d, s
    <2> QED BY <2>1, <2>2 DEF States
  <1>5. Credited(m, n) \in States
    <2> DEFINE r == Saturate(m.remaining + n)
               s == m.seq + 1
    <2>1. r \in 0..MaxLabels /\ s \in Nat
      BY <1>1, <1>3
    <2>2. Credited(m, n) = [m EXCEPT !.remaining = r, !.seq = s]
      BY DEF Credited
    <2> HIDE DEF r, s
    <2> QED BY <2>1, <2>2 DEF States
  <1> QED BY <1>4, <1>5 DEF Estimated, States

\* A new roll has a state.
LEMMA NewStateType ==
    ASSUME NEW roll \in Nat, NEW n \in Sizes, NEW def \in Definitions
    PROVE  State(roll, n, def) \in States
  BY Limits, AmountsAssumption DEF State, States

LEMMA MutationType ==
    ASSUME NEW m \in States, NEW draft \in States, NEW delta \in -HalfRange..(HalfRange - 1),
           NEW debit \in 0..MaxLabels, NEW credit \in 0..MaxLabels, NEW why \in Reasons
    PROVE  Mutation(m, draft, delta, debit, credit, why) \in Works
  BY DEF Mutation, Works, Lines, States

LEMMA RewriteType ==
    ASSUME NEW draft \in States
    PROVE  Rewrite(draft) \in Works
  BY Limits DEF Rewrite, Works, Lines, Reasons, Words

LEMMA IdleType == Idle \in Works /\ \A j \in Jobs : [Idle EXCEPT !.why = j] \in Works
  <1>1. State(0, 0, None) \in States
    BY Limits DEF State, States
  <1>2. Idle \in Works
    BY <1>1, RewriteType DEF Idle
  <1> QED BY <1>2 DEF Works, Reasons, Words

\* The operation of a command tells its other fields.
LEMMA CommandForm ==
    ASSUME NEW c \in Commands
    PROVE  /\ c.op = "load" => c.n \in Sizes /\ c.def \in Definitions
           /\ c.op = "adjust" => c.n \in Deltas
           /\ c.op = "edit" => c.seen \in States /\ c.def \in Definitions
           /\ c.op = "print" => c.job \in Jobs
  BY DEF Commands, Ops

\* An adjustment is within the counts, whatever its sign.
LEMMA DeltaType ==
    ASSUME NEW n \in Deltas
    PROVE  /\ n \in -HalfRange..(HalfRange - 1)
           /\ n < 0 => -n \in 0..MaxLabels
           /\ ~(n < 0) => n \in 0..MaxLabels
  BY Limits, AmountsAssumption

TypeFiles ==
    /\ media \in States \cup {None}
    /\ ledger \in Seq(Lines)
    /\ rolls \in Nat
    /\ jobs \in [Jobs -> {"new", "queued", "writing", "accepted", "failed", "unknown"}]

TypeHost ==
    /\ host \in Nat /\ bootFile \in Nat \cup {None}
    /\ bootDue \in BOOLEAN /\ served \in BOOLEAN

TypeProcess ==
    /\ phase \in {"down", "booting", "up"}
    /\ inbox \in [Workers -> Seq(Commands)]

ThreadPCs == {"idle", "remove", "deliver", "charge", "append", "save", "mark", "ready"}

TypeThreads ==
    /\ tpc \in [Threads -> ThreadPCs]
    /\ work \in [Threads -> Works]
    /\ \A t \in Threads : tpc[t] \in {"deliver", "charge"} => work[t].why \in Jobs

TypeObservers ==
    /\ debits \in Nat /\ credits \in Nat /\ bootCharges \in Nat
    /\ charged \subseteq Jobs /\ excused \subseteq Jobs

TypeBudget == budget \in [{"op", "crash", "boot", "fault"} -> Nat]

LEMMA TypeParts ==
    TypeOK <=> TypeFiles /\ TypeHost /\ TypeProcess /\ TypeThreads /\ TypeObservers /\ TypeBudget
  BY DEF TypeOK, TypeFiles, TypeHost, TypeProcess, TypeThreads, TypeObservers, TypeBudget, ThreadPCs

LEMMA TypePartsNext ==
    TypeOK' <=> TypeFiles' /\ TypeHost' /\ TypeProcess' /\ TypeThreads' /\ TypeObservers' /\ TypeBudget'
  BY DEF TypeOK, TypeFiles, TypeHost, TypeProcess, TypeThreads, TypeObservers, TypeBudget, ThreadPCs

LEMMA SpendType ==
    ASSUME TypeBudget, NEW kind \in {"op", "crash", "boot", "fault"}, NEW n \in Nat,
           Spend(kind, n)
    PROVE  TypeBudget'
  BY DEF Spend, TypeBudget

LEMMA FaultsType == \A o : Faults(o) \in Nat
  BY DEF Faults

\* A thread that moves on, to a place where it needs no job in hand.
LEMMA MoveType ==
    ASSUME TypeThreads, NEW t \in Threads, NEW pc \in ThreadPCs \ {"deliver", "charge"},
           NEW m \in Works, At(t, pc), Make(t, m)
    PROVE  TypeThreads'
  BY DEF TypeThreads, At, Make

LEMMA DoneType ==
    ASSUME TypeThreads, NEW t \in Threads, Done(t)
    PROVE  TypeThreads'
  BY MoveType, IdleType DEF Done, ThreadPCs

LEMMA StayType ==
    ASSUME TypeThreads, NEW t \in Threads, NEW pc \in ThreadPCs,
           pc \in {"deliver", "charge"} => work[t].why \in Jobs, At(t, pc), UNCHANGED work
    PROVE  TypeThreads'
  BY DEF TypeThreads, At

LEMMA ChargeType ==
    ASSUME TypeThreads, NEW t \in Threads, NEW m \in States, media = m,
           NEW draft \in States, NEW n \in 0..MaxLabels, NEW why \in Reasons,
           Charge(t, draft, n, why)
    PROVE  TypeThreads'
  <1>1. Mutation(m, draft, Negated(n), n, 0, why) \in Works
    <2>1. Negated(n) \in -HalfRange..(HalfRange - 1) /\ 0 \in 0..MaxLabels
      BY Limits, CountTypes
    <2> QED BY <2>1, MutationType
  <1> QED BY <1>1, MoveType DEF Charge, ThreadPCs

-----------------------------------------------------------------------------
(* Requests keep the types. *)

LEMMA PostType ==
    ASSUME TypeProcess, NEW c \in Commands, Post(c)
    PROVE  TypeProcess'
  <1>1. Worker \in Workers
    BY DEF Workers
  <1> QED BY <1>1 DEF TypeProcess, Post

LEMMA RequestType ==
    ASSUME TypeOK, Request \/ RequestEdit \/ (\E j \in Jobs : Submit(j))
    PROVE  TypeOK'
  <1> USE TypeParts, TypePartsNext
  <1>1. CASE Request
    <2>1. PICK c \in Ops : Post(c)
      BY <1>1 DEF Request
    <2>2. TypeProcess'
      BY <2>1, PostType DEF Commands
    <2>3. TypeBudget'
      BY <1>1, SpendType DEF Request
    <2> QED BY <1>1, <2>1, <2>2, <2>3 DEF Request, Post, TypeFiles, TypeHost, TypeThreads,
               TypeObservers, fileVars, bootVars, threadVars, sumVars
  <1>2. CASE RequestEdit
    <2>1. PICK d \in Definitions : Post([op |-> "edit", seen |-> media, def |-> d])
      BY <1>2 DEF RequestEdit
    <2>2. [op |-> "edit", seen |-> media, def |-> d] \in Commands
      BY <1>2 DEF RequestEdit, Commands, TypeFiles
    <2>3. TypeProcess'
      BY <2>1, <2>2, PostType
    <2>4. TypeBudget'
      BY <1>2, SpendType DEF RequestEdit
    <2> QED BY <1>2, <2>1, <2>3, <2>4 DEF RequestEdit, Post, TypeFiles, TypeHost, TypeThreads,
               TypeObservers, fileVars, bootVars, threadVars, sumVars
  <1>4. ASSUME NEW j \in Jobs, Submit(j) PROVE TypeOK'
    <2>1. [op |-> "print", job |-> j] \in Commands
      BY DEF Commands
    <2>2. TypeProcess'
      BY <1>4, <2>1, PostType DEF Submit
    <2> QED BY <1>4, <2>2 DEF Submit, Post, TypeFiles, TypeHost, TypeThreads, TypeBudget,
               TypeObservers, fileVars, bootVars, threadVars, sumVars
  <1> QED BY <1>1, <1>2, <1>4

\* The command a worker takes has the form of its operation, and the rest of
\* the channel keeps its type.
LEMMA TakeType ==
    ASSUME TypeOK, NEW w \in Workers, NEW op, Take(w, op)
    PROVE  /\ Head(inbox[w]) \in Commands /\ Head(inbox[w]).op = op
           /\ TypeProcess' /\ TypeHost'
           /\ UNCHANGED <<debits, credits, charged, bootCharges>>
  <1>1. inbox[w] \in Seq(Commands) /\ inbox[w] # <<>>
    BY TypeParts DEF TypeProcess, Take
  <1>2. Head(inbox[w]) \in Commands /\ Tail(inbox[w]) \in Seq(Commands)
    BY <1>1, HeadTailProperties
  <1> QED BY <1>2, TypeParts DEF Take, Quiet, TypeProcess, TypeHost, bootVars, sumVars

LEMMA OperatorType ==
    ASSUME TypeOK, NEW w \in Workers,
           Load(w) \/ Edit(w) \/ Unload(w) \/ RemoveFile(w) \/ Adjust(w)
    PROVE  TypeOK'
  <1> USE TypeParts, TypePartsNext
  <1> w \in Threads
    BY DEF Threads
  <1> DEFINE c == Head(inbox[w])
  <1>1. CASE Load(w)
    <2>1. c \in Commands /\ c.op = "load" /\ TypeProcess' /\ TypeHost'
          /\ UNCHANGED <<debits, credits, charged, bootCharges>>
      BY <1>1, TakeType DEF Load
    <2>2. c.n \in Sizes /\ c.def \in Definitions
      BY <2>1, CommandForm
    <2>3. CASE /\ rolls' = rolls + 1 /\ Make(w, Rewrite(State(rolls + 1, c.n, c.def)))
               /\ At(w, "save") /\ UNCHANGED budget
      <3>1. Rewrite(State(rolls + 1, c.n, c.def)) \in Works
        BY <2>2, NewStateType, RewriteType DEF TypeFiles
      <3>2. TypeThreads'
        BY <2>3, <3>1, MoveType DEF ThreadPCs
      <3> QED BY <1>1, <2>1, <2>3, <3>2 DEF Load, TypeFiles, TypeObservers, TypeBudget
    <2>4. CASE media # None /\ Spend("fault", 1) /\ Done(w) /\ UNCHANGED rolls
      <3>1. TypeThreads' /\ TypeBudget'
        BY <2>4, DoneType, SpendType
      <3> QED BY <1>1, <2>1, <2>4, <3>1 DEF Load, TypeFiles, TypeObservers
    <2> QED BY <1>1, <2>3, <2>4 DEF Load
  <1>2. CASE Edit(w)
    <2>1. c \in Commands /\ c.op = "edit" /\ TypeProcess' /\ TypeHost'
          /\ UNCHANGED <<debits, credits, charged, bootCharges>>
      BY <1>2, TakeType DEF Edit
    <2>2. c.def \in Definitions
      BY <2>1, CommandForm
    <2>3. CASE media # None /\ c.seen.roll = media.roll /\ c.seen.def = media.def
      <3>1. media \in States
        BY <2>3 DEF TypeFiles
      <3>2. [media EXCEPT !.def = c.def] \in States
        BY <2>2, <3>1 DEF States
      <3>3. TypeThreads'
        BY <1>2, <2>3, <3>2, RewriteType, MoveType DEF Edit, ThreadPCs
      <3> QED BY <1>2, <2>1, <2>3, <3>3 DEF Edit, TypeFiles, TypeObservers, TypeBudget, fileVars
    <2>4. CASE ~(media # None /\ c.seen.roll = media.roll /\ c.seen.def = media.def)
      <3>1. TypeThreads'
        BY <1>2, <2>4, DoneType DEF Edit, Nothing
      <3> QED BY <1>2, <2>1, <2>4, <3>1 DEF Edit, Nothing, TypeFiles, TypeObservers, TypeBudget, fileVars
    <2> QED BY <2>3, <2>4
  <1>3. CASE Unload(w)
    <2>1. TypeProcess' /\ TypeHost' /\ UNCHANGED <<debits, credits, charged, bootCharges>>
      BY <1>3, TakeType DEF Unload
    <2>2. TypeThreads' /\ TypeBudget'
      <3>1. CASE Done(w) /\ UNCHANGED budget
        BY <3>1, DoneType DEF TypeBudget
      <3>2. CASE At(w, "remove") /\ UNCHANGED <<work, budget>>
        BY <3>2, StayType DEF TypeBudget, ThreadPCs
      <3>3. CASE Spend("fault", 1) /\ Done(w)
        BY <3>3, DoneType, SpendType
      <3> QED BY <1>3, <3>1, <3>2, <3>3 DEF Unload
    <2> QED BY <1>3, <2>1, <2>2 DEF Unload, TypeFiles, TypeObservers, fileVars
  <1>4. CASE RemoveFile(w)
    <2>1. TypeThreads' /\ TypeBudget'
      BY <1>4, DoneType, SpendType DEF RemoveFile, TypeBudget
    <2> QED BY <1>4, <2>1 DEF RemoveFile, Quiet, TypeFiles, TypeHost, TypeProcess,
               TypeObservers, bootVars, sumVars
  <1>5. CASE Adjust(w)
    <2>1. c \in Commands /\ c.op = "adjust" /\ TypeProcess' /\ TypeHost'
          /\ UNCHANGED <<debits, credits, charged, bootCharges>>
      BY <1>5, TakeType DEF Adjust
    <2>2. c.n \in Deltas
      BY <2>1, CommandForm
    <2>3. CASE media = None
      <3>1. TypeThreads'
        BY <1>5, <2>3, DoneType DEF Adjust, Nothing
      <3> QED BY <1>5, <2>1, <2>3, <3>1 DEF Adjust, Nothing, TypeFiles, TypeObservers, TypeBudget, fileVars
    <2>4. CASE media # None
      <3>1. media \in States
        BY <2>4 DEF TypeFiles
      <3> DEFINE n == c.n
      <3>2. /\ n \in -HalfRange..(HalfRange - 1)
            /\ n < 0 => -n \in 0..MaxLabels
            /\ ~(n < 0) => n \in 0..MaxLabels
            /\ 0 \in 0..MaxLabels
            /\ "adjust" \in Reasons
        BY <2>2, DeltaType, Limits DEF Reasons, Words
      <3>3. \E m \in Works : Make(w, m) /\ At(w, "append")
        <4>1. CASE n < 0
          <5>1. Debited(media, -n) \in States
            BY <3>1, <3>2, <4>1, StateTypes
          <5>2. Mutation(media, Debited(media, -n), n, -n, 0, "adjust") \in Works
            BY <3>1, <3>2, <4>1, <5>1, MutationType
          <5> QED BY <1>5, <2>4, <4>1, <5>2 DEF Adjust
        <4>2. CASE ~(n < 0)
          <5>1. Credited(media, n) \in States
            BY <3>1, <3>2, <4>2, StateTypes
          <5>2. Mutation(media, Credited(media, n), n, 0, n, "adjust") \in Works
            BY <3>1, <3>2, <4>2, <5>1, MutationType
          <5> QED BY <1>5, <2>4, <4>2, <5>2 DEF Adjust
        <4> QED BY <4>1, <4>2
      <3>4. TypeThreads'
        BY <3>3, MoveType DEF ThreadPCs
      <3> QED BY <1>5, <2>1, <2>4, <3>4 DEF Adjust, TypeFiles, TypeObservers, TypeBudget, fileVars
    <2> QED BY <2>3, <2>4
  <1> QED BY <1>1, <1>2, <1>3, <1>4, <1>5

LEMMA EstimateType ==
    ASSUME TypeOK, NEW w \in Workers, Maintain(w) \/ Probe(w)
    PROVE  TypeOK'
  <1> USE TypeParts, TypePartsNext
  <1> w \in Threads /\ Estimate \in 0..MaxLabels
    BY AmountsAssumption DEF Threads
  <1>1. TypeProcess' /\ TypeHost' /\ UNCHANGED <<debits, credits, charged, bootCharges>>
    BY TakeType DEF Maintain, Probe
  <1>2. TypeThreads'
    <2>1. CASE Done(w)
      BY <2>1, DoneType
    <2>2. ASSUME media # None, NEW why \in {"maintenance", "reconnect"},
                 Charge(w, Estimated(media, Estimate), Estimate, why)
          PROVE  TypeThreads'
      <3>1. media \in States /\ why \in Reasons
        BY <2>2 DEF TypeFiles, Reasons, Words
      <3>2. Estimated(media, Estimate) \in States
        BY <3>1, StateTypes
      <3> QED BY <2>2, <3>1, <3>2, ChargeType
    <2> QED BY <2>1, <2>2 DEF Maintain, Probe
  <1> QED BY <1>1, <1>2 DEF Maintain, Probe, TypeFiles, TypeObservers, TypeBudget, fileVars

LEMMA DeliveryType ==
    ASSUME TypeOK, NEW w \in Workers,
           Deliver(w) \/ Accept(w) \/ NotAccepted(w) \/ Consume(w)
    PROVE  TypeOK'
  <1> USE TypeParts, TypePartsNext
  <1> w \in Threads
    BY DEF Threads
  <1>1. CASE Deliver(w)
    <2>1. PICK j : j = Head(inbox[w]).job
      OBVIOUS
    <2>2. j \in Jobs /\ TypeProcess' /\ TypeHost'
          /\ UNCHANGED <<debits, credits, charged, bootCharges>>
      BY <1>1, <2>1, TakeType, CommandForm DEF Deliver
    <2>3. [Idle EXCEPT !.why = j] \in Works /\ [Idle EXCEPT !.why = j].why = j
      BY <2>2, IdleType DEF Works
    <2>4. TypeThreads'
      BY <1>1, <2>1, <2>2, <2>3 DEF Deliver, At, Make, TypeThreads, ThreadPCs
    <2> QED BY <1>1, <2>1, <2>2, <2>4 DEF Deliver, TypeFiles, TypeObservers, TypeBudget, fileVars
  <1>2. CASE Accept(w)
    <2>1. PICK o \in Outcomes :
            /\ Spend("fault", Faults(o))
            /\ jobs' = IF Landed(o) THEN [jobs EXCEPT ![work[w].why] = "accepted"] ELSE jobs
      BY <1>2 DEF Accept
    <2>2. TypeBudget'
      BY <2>1, SpendType, FaultsType
    <2>3. TypeThreads'
      BY <1>2, StayType DEF Accept, TypeThreads, ThreadPCs
    <2> QED BY <1>2, <2>1, <2>2, <2>3 DEF Accept, Quiet, TypeFiles, TypeHost, TypeProcess,
               TypeObservers, fileVars, bootVars, sumVars
  <1>3. CASE NotAccepted(w)
    <2>1. TypeThreads'
      BY <1>3, DoneType DEF NotAccepted
    <2> QED BY <1>3, <2>1 DEF NotAccepted, Quiet, TypeFiles, TypeHost, TypeProcess,
               TypeObservers, TypeBudget, fileVars, bootVars, sumVars
  <1>4. CASE Consume(w)
    <2>1. PICK j \in Jobs : j = work[w].why
      BY <1>4 DEF Consume, TypeThreads
    <2>2. Labels[j] \in (0..MaxLabels) \cup {None} /\ j \in Reasons
      BY AmountsAssumption DEF Reasons, Words
    <2>3. TypeThreads' /\ TypeBudget' /\ excused' \subseteq Jobs
      <3>1. CASE /\ media # None /\ Labels[j] # None
                 /\ Charge(w, Debited(media, Labels[j]), Labels[j], j)
                 /\ UNCHANGED <<excused, budget>>
        <4>1. media \in States
          BY <3>1 DEF TypeFiles
        <4>2. Labels[j] \in 0..MaxLabels
          BY <2>2, <3>1
        <4>3. Debited(media, Labels[j]) \in States
          BY <4>1, <4>2, StateTypes
        <4>4. TypeThreads'
          BY <2>2, <3>1, <4>1, <4>2, <4>3, ChargeType
        <4> QED BY <3>1, <4>4 DEF TypeBudget, TypeObservers
      <3>2. CASE Done(w) /\ excused' = excused \cup {j} /\ UNCHANGED budget
        BY <3>2, DoneType DEF TypeBudget, TypeObservers
      <3>3. CASE Spend("fault", 1) /\ Done(w) /\ UNCHANGED excused
        BY <3>3, DoneType, SpendType DEF TypeObservers
      <3> QED BY <1>4, <2>1, <3>1, <3>2, <3>3 DEF Consume
    <2> QED BY <1>4, <2>3 DEF Consume, Quiet, TypeFiles, TypeHost, TypeProcess,
               TypeObservers, fileVars, bootVars, sumVars
  <1> QED BY <1>1, <1>2, <1>3, <1>4

LEMMA GiveUpType ==
    ASSUME TypeThreads, TypeProcess, NEW t \in Threads, GiveUp(t), UNCHANGED inbox
    PROVE  TypeThreads' /\ TypeProcess'
  BY DoneType DEF GiveUp, TypeProcess

\* An open line and one that nobody can read are no account of anything.
LEMMA UnreadableTypes ==
    /\ Torn \in Lines /\ Damaged \in Lines /\ Torn # Damaged
    /\ Torn.seq = 0 /\ Torn.why \notin Jobs /\ Damaged.why \notin Jobs
  <1>1. Idle.line \in Lines /\ Idle.line.seq = 0
    BY IdleType DEF Works, Idle, Rewrite
  <1>2. ASSUME NEW why \in Words
        PROVE  Unreadable(why) \in Lines /\ Unreadable(why).why = why /\ Unreadable(why).seq = 0
    BY <1>1, <1>2 DEF Unreadable, Lines, Reasons
  <1>3. "torn" \in Words /\ "damaged" \in Words /\ "torn" \notin Jobs /\ "damaged" \notin Jobs
    BY WordsAssumption DEF Words
  <1>4. /\ Torn \in Lines /\ Torn.why = "torn" /\ Torn.seq = 0
        /\ Damaged \in Lines /\ Damaged.why = "damaged"
    BY <1>2, <1>3 DEF Torn, Damaged
  <1> QED BY <1>3, <1>4

\* What an append does to the ledger: one line more, or a worse last line.
LEMMA WriteDoes ==
    ASSUME ledger \in Seq(Lines), NEW l \in Lines, Write(l)
    PROVE  \/ ledger' = Append(ledger, l)
           \/ /\ Len(ledger) \in DOMAIN ledger /\ ledger[Len(ledger)] = Torn
              /\ \E x \in {Torn, Damaged} : ledger' = [ledger EXCEPT ![Len(ledger)] = x]
  <1>1. CASE ledger # <<>> /\ Last(ledger) = Torn
    <2>1. PICK x \in {Torn, Damaged} : ledger' = [ledger EXCEPT ![Len(ledger)] = x]
      BY <1>1, Zenon DEF Write
    <2>2. Len(ledger) \in DOMAIN ledger
      BY <1>1
    <2> QED BY <1>1, <2>1, <2>2 DEF Last
  <1>2. CASE ~(ledger # <<>> /\ Last(ledger) = Torn)
    BY <1>2 DEF Write
  <1> QED BY <1>1, <1>2

LEMMA WriteType ==
    ASSUME ledger \in Seq(Lines), NEW l \in Lines, Write(l)
    PROVE  ledger' \in Seq(Lines)
  <1>1. CASE ledger' = Append(ledger, l)
    BY <1>1, AppendProperties
  <1>2. ASSUME NEW x \in {Torn, Damaged}, ledger' = [ledger EXCEPT ![Len(ledger)] = x]
        PROVE  ledger' \in Seq(Lines)
    <2>1. x \in Lines
      BY UnreadableTypes
    <2>2. ledger \in [1..Len(ledger) -> Lines] /\ Len(ledger) \in Nat
      OBVIOUS
    <2>3. [ledger EXCEPT ![Len(ledger)] = x] \in [1..Len(ledger) -> Lines]
      BY <2>1, <2>2
    <2> QED BY <1>2, <2>2, <2>3, SeqDef
  <1> QED BY <1>1, <1>2, WriteDoes

\* The appends the steps make.
LEMMA AppendsOf ==
    /\ \A t \in Threads : AppendLine(t) =>
           ledger' = ledger \/ Write(Torn) \/ Write(work[t].line)
    /\ Crash => ledger' = ledger \/ Write(Torn)
  BY DEF AppendLine, Crash

LEMMA AppendLineType ==
    ASSUME TypeOK, NEW t \in Threads, AppendLine(t)
    PROVE  TypeOK'
  <1> USE TypeParts, TypePartsNext
  <1>1. work[t].line \in Lines
    BY DEF TypeThreads, Works
  <1>2. PICK o \in Outcomes \cup {"torn"} :
        /\ Spend("fault", Faults(o))
        /\ IF o # "ok" /\ Strict(t) THEN GiveUp(t) ELSE At(t, "save") /\ UNCHANGED <<work, phase>>
    BY DEF AppendLine
  <1>3. TypeBudget'
    BY <1>2, SpendType, FaultsType
  <1>4. ledger' \in Seq(Lines)
    BY <1>1, AppendsOf, WriteType, UnreadableTypes DEF TypeFiles
  <1>5. TypeThreads' /\ TypeProcess'
    BY <1>2, StayType, GiveUpType DEF AppendLine, TypeProcess, ThreadPCs
  <1> QED BY <1>3, <1>4, <1>5 DEF AppendLine, TypeFiles, TypeHost, TypeObservers, bootVars, sumVars

LEMMA SaveMediaType ==
    ASSUME TypeOK, NEW t \in Threads, SaveMedia(t)
    PROVE  TypeOK'
  <1> USE TypeParts, TypePartsNext
  <1>1. PICK o \in Outcomes :
        /\ Spend("fault", Faults(o))
        /\ IF Landed(o) THEN media' = work[t].draft /\ Account(work[t])
                        ELSE UNCHANGED <<media, sumVars>>
        /\ IF t # Main THEN Done(t) /\ UNCHANGED phase
           ELSE IF o = "ok" THEN At(t, "mark") /\ Make(t, Idle) /\ UNCHANGED phase
           ELSE GiveUp(t)
    BY DEF SaveMedia
  <1>2. PICK m \in Works : m = work[t]
    BY DEF TypeThreads
  <1>3. TypeBudget'
    BY <1>1, SpendType, FaultsType
  <1>4. TypeThreads' /\ TypeProcess'
    BY <1>1, DoneType, GiveUpType, MoveType, IdleType DEF SaveMedia, TypeProcess, ThreadPCs
  <1>5. /\ media' \in States \cup {None}
        /\ debits' \in Nat /\ credits' \in Nat /\ bootCharges' \in Nat /\ charged' \subseteq Jobs
    <2>1. CASE Landed(o)
      <3>1. m.draft \in States /\ m.debit \in Nat /\ m.credit \in Nat
        BY Limits DEF Works
      <3>2. media' = m.draft /\ Account(m)
        BY <1>1, <1>2, <2>1
      <3> QED BY <3>1, <3>2 DEF Account, TypeObservers
    <2>2. CASE ~Landed(o)
      BY <1>1, <2>2 DEF TypeFiles, TypeObservers, sumVars
    <2> QED BY <2>1, <2>2
  <1> QED BY <1>3, <1>4, <1>5 DEF SaveMedia, TypeFiles, TypeHost, TypeObservers, bootVars

\* The commands a started worker finds: one for each job to print.
LEMMA ResumedType ==
    ASSUME NEW s \in SetToSeqs(ToPrint)
    PROVE  [i \in DOMAIN s |-> [op |-> "print", job |-> s[i]]] \in Seq(Commands)
  <1>1. IsFiniteSet(ToPrint) /\ ToPrint \subseteq Jobs
    BY JobsAssumption, FS_Subset DEF ToPrint
  <1>2. PICK n \in Nat : s \in [1..n -> ToPrint]
    BY <1>1, FS_CardinalityType DEF SetToSeqs
  <1>3. \A i \in 1..n : [op |-> "print", job |-> s[i]] \in Commands
    BY <1>1, <1>2 DEF Commands
  <1>4. DOMAIN s = 1..n
    BY <1>2
  <1> QED BY <1>3, <1>4, SeqDef

LEMMA MainType ==
    ASSUME TypeOK, Start \/ MarkBoot \/ Serve
    PROVE  TypeOK'
  <1> USE TypeParts, TypePartsNext
  <1> Main \in Threads
    BY DEF Threads
  <1>1. CASE Start
    <2>1. PICK unreadable \in BOOLEAN :
        /\ Spend("fault", IF unreadable THEN 1 ELSE 0)
        /\ IF bootFile = host /\ ~unreadable THEN At(Main, "ready") /\ UNCHANGED work
           ELSE IF bootFile = None \/ unreadable \/ media = None \/ BootLoss = 0
           THEN At(Main, "mark") /\ UNCHANGED work
           ELSE Charge(Main, Estimated(media, BootLoss), BootLoss, "boot")
      BY <1>1 DEF Start
    <2>2. TypeBudget'
      BY <2>1, SpendType
    <2>3. TypeThreads'
      <3>1. CASE At(Main, "ready") /\ UNCHANGED work
        BY <3>1, StayType DEF ThreadPCs
      <3>2. CASE At(Main, "mark") /\ UNCHANGED work
        BY <3>2, StayType DEF ThreadPCs
      <3>3. CASE media # None /\ Charge(Main, Estimated(media, BootLoss), BootLoss, "boot")
        <4>1. media \in States /\ BootLoss \in 0..MaxLabels /\ "boot" \in Reasons
          BY <3>3, AmountsAssumption DEF TypeFiles, Reasons, Words
        <4>2. Estimated(media, BootLoss) \in States
          BY <4>1, StateTypes
        <4> QED BY <3>3, <4>1, <4>2, ChargeType
      <3> QED BY <2>1, <3>1, <3>2, <3>3
    <2> QED BY <1>1, <2>2, <2>3 DEF Start, TypeFiles, TypeHost, TypeProcess, TypeObservers,
               fileVars, bootVars, sumVars
  <1>2. CASE MarkBoot
    <2>1. PICK o \in Outcomes :
        /\ Spend("fault", Faults(o))
        /\ bootFile' = IF Landed(o) THEN host ELSE bootFile
        /\ IF o = "ok" THEN At(Main, "ready") /\ UNCHANGED <<work, phase>> ELSE GiveUp(Main)
      BY <1>2 DEF MarkBoot
    <2>2. TypeBudget'
      BY <2>1, SpendType, FaultsType
    <2>3. TypeThreads' /\ TypeProcess'
      BY <1>2, <2>1, StayType, GiveUpType DEF MarkBoot, TypeProcess, ThreadPCs
    <2> QED BY <1>2, <2>1, <2>2, <2>3 DEF MarkBoot, TypeFiles, TypeHost, TypeObservers,
               fileVars, sumVars
  <1>3. CASE Serve
    <2>1. TypeProcess'
      BY <1>3, ResumedType DEF Serve, TypeProcess
    <2>2. TypeThreads'
      BY <1>3, StayType DEF Serve, ThreadPCs
    <2>3. jobs' \in [Jobs -> {"new", "queued", "writing", "accepted", "failed", "unknown"}]
      BY <1>3 DEF Serve, TypeFiles
    <2> QED BY <1>3, <2>1, <2>2, <2>3 DEF Serve, TypeFiles, TypeHost, TypeObservers, TypeBudget,
               fileVars, sumVars
  <1> QED BY <1>1, <1>2, <1>3

LEMMA StopType ==
    ASSUME TypeOK, Crash \/ HostBoot
    PROVE  TypeOK'
  <1> USE TypeParts, TypePartsNext
  <1>1. CASE Crash
    <2>1. TypeBudget'
      BY <1>1, SpendType DEF Crash
    <2>2. TypeThreads'
      BY <1>1, IdleType DEF Crash, TypeThreads, ThreadPCs
    <2>3. TypeProcess'
      BY <1>1 DEF Crash, TypeProcess
    <2>4. ledger' \in Seq(Lines)
      BY <1>1, AppendsOf, WriteType, UnreadableTypes DEF TypeFiles
    <2> QED BY <1>1, <2>1, <2>2, <2>3, <2>4 DEF Crash, TypeFiles, TypeHost, TypeObservers,
               bootVars, sumVars
  <1>2. CASE HostBoot
    <2>1. TypeBudget'
      BY <1>2, SpendType DEF HostBoot
    <2>2. bootDue' \in BOOLEAN /\ served' \in BOOLEAN
      BY <1>2, Zenon DEF HostBoot
    <2>3. TypeHost'
      BY <1>2, <2>2 DEF HostBoot, TypeHost
    <2>4. TypeFiles' /\ TypeProcess' /\ TypeThreads' /\ TypeObservers'
      BY <1>2 DEF HostBoot, TypeFiles, TypeProcess, TypeThreads, TypeObservers,
                  fileVars, threadVars
    <2> QED BY <2>1, <2>3, <2>4
  <1> QED BY <1>1, <1>2

LEMMA TypeInit == Init => TypeOK
  <1> SUFFICES ASSUME Init PROVE TypeOK
    OBVIOUS
  <1>1. TypeThreads
    BY IdleType DEF Init, TypeThreads, ThreadPCs
  <1>2. TypeBudget
    BY BudgetAssumption DEF Init, TypeBudget
  <1>3. TypeFiles /\ TypeProcess
    BY DEF Init, TypeFiles, TypeProcess
  <1>4. TypeHost
    BY DEF Init, TypeHost
  <1>5. TypeObservers
    BY DEF Init, TypeObservers
  <1> QED BY <1>1, <1>2, <1>3, <1>4, <1>5, TypeParts

LEMMA TypeStep == TypeOK /\ [Next]_vars => TypeOK'
  <1> SUFFICES ASSUME TypeOK, [Next]_vars PROVE TypeOK'
    OBVIOUS
  <1>1. ASSUME NEW w \in Workers, WorkerStep(w) PROVE TypeOK'
    <2>1. w \in Threads
      BY DEF Threads
    <2> QED BY <1>1, <2>1, OperatorType, EstimateType, DeliveryType, AppendLineType,
               SaveMediaType DEF WorkerStep
  <1>2. CASE MainStep
    <2>1. Main \in Threads
      BY DEF Threads
    <2> QED BY <1>2, <2>1, MainType, AppendLineType, SaveMediaType DEF MainStep
  <1>3. CASE UNCHANGED vars
    BY <1>3 DEF vars, fileVars, bootVars, threadVars, sumVars, TypeOK
  <1> QED BY <1>1, <1>2, <1>3, RequestType, StopType DEF Next

\* Every variable keeps its type: label counts stay within u64, ledger deltas
\* within i64, and a thread that delivers or charges knows its job.
THEOREM AccountTyped == Spec => []TypeOK
  BY TypeInit, TypeStep, PTL DEF Spec

-----------------------------------------------------------------------------
(* The sums.  A mutation is a read, an append and a save; because one thread
   at a time is between the read and the save, what it saves follows from
   what it replaces, and the sums stay the sums of all mutations.            *)

\* One debit keeps the sums.
LEMMA DebitSums ==
    ASSUME NEW now \in States, NEW taken \in Nat, NEW added \in Nat,
           Sums(now, taken, added), now # None,
           NEW then \in States, NEW n \in 0..MaxLabels, then.initial = now.initial,
           SameAccount(then, Debited(now, n))
    PROVE  Sums(then, taken + n, added)
  <1>1. /\ now.remaining \in 0..MaxLabels /\ now.consumed \in 0..MaxLabels
        /\ now.deficit \in 0..MaxLabels /\ now.initial \in 0..MaxLabels
        /\ then.remaining = Over(now.remaining, n)
        /\ then.consumed = Saturate(now.consumed + n)
        /\ then.deficit = Saturate(now.deficit + Over(n, now.remaining))
    BY DEF States, SameAccount, Debited
  <1>2. MaxLabels \in Nat
    BY Limits
  <1> QED BY <1>1, <1>2 DEF Sums, Over, Saturate

\* One credit keeps the sums.
LEMMA CreditSums ==
    ASSUME NEW now \in States, NEW taken \in Nat, NEW added \in Nat,
           Sums(now, taken, added), now # None,
           NEW then \in States, NEW n \in 0..MaxLabels, then.initial = now.initial,
           SameAccount(then, Credited(now, n))
    PROVE  Sums(then, taken, added + n)
  <1>1. /\ now.remaining \in 0..MaxLabels /\ now.consumed \in 0..MaxLabels
        /\ now.deficit \in 0..MaxLabels /\ now.initial \in 0..MaxLabels
        /\ then.remaining = Saturate(now.remaining + n)
        /\ then.consumed = now.consumed
        /\ then.deficit = now.deficit
    BY DEF States, SameAccount, Credited
  <1>2. MaxLabels \in Nat
    BY Limits
  <1> QED BY <1>1, <1>2 DEF Sums, Saturate

\* Saving a mutation that follows from the state keeps the sums.
LEMMA SaveSums ==
    ASSUME TypeOK, AccountInv, NEW m \in Works, Follows(m, media, rolls),
           media' = m.draft, Account(m)
    PROVE  Sums(media', debits', credits') /\ media'.roll <= rolls
  <1>1. m.draft \in States /\ m.debit \in 0..MaxLabels /\ m.credit \in 0..MaxLabels
    BY DEF Works
  <1>2. media \in States \cup {None} /\ debits \in Nat /\ credits \in Nat
    BY DEF TypeOK
  <1>3. Sums(media, debits, credits) /\ (media # None => media.roll <= rolls)
    BY DEF AccountInv
  <1>4. CASE /\ m.why = "edit"
             /\ media # None => m.draft.roll > media.roll
             /\ m.draft.remaining = m.draft.initial /\ m.draft.consumed = 0 /\ m.draft.deficit = 0
    <2>1. media = None \/ media.roll # m.draft.roll
      BY <1>1, <1>2, <1>4 DEF States
    <2>2. debits' = 0 /\ credits' = 0
      BY <1>4, <2>1 DEF Account
    <2> QED BY <1>1, <1>4, <2>2, Limits DEF Sums, States, Follows
  <1>5. CASE /\ media # None /\ m.draft.roll = media.roll /\ m.draft.initial = media.initial
             /\ \/ m.debit = 0 /\ m.credit = 0 /\ SameAccount(m.draft, media)
                \/ m.credit = 0 /\ m.debit \in Amounts /\ SameAccount(m.draft, Debited(media, m.debit))
                \/ m.debit = 0 /\ m.credit \in Amounts /\ SameAccount(m.draft, Credited(media, m.credit))
    <2>1. debits' = debits + m.debit /\ credits' = credits + m.credit
      BY <1>5 DEF Account
    <2>2. media \in States
      BY <1>2, <1>5
    <2>3. CASE m.debit = 0 /\ m.credit = 0 /\ SameAccount(m.draft, media)
      <3>1. debits' = debits /\ credits' = credits
        BY <1>2, <2>1, <2>3
      <3> QED BY <1>3, <1>5, <2>3, <3>1 DEF Sums, SameAccount, Follows
    <2>4. CASE m.credit = 0 /\ SameAccount(m.draft, Debited(media, m.debit))
      <3>1. debits' = debits + m.debit /\ credits' = credits
        BY <1>2, <2>1, <2>4
      <3>2. Sums(m.draft, debits + m.debit, credits)
        BY <1>1, <1>2, <1>3, <1>5, <2>2, <2>4, DebitSums
      <3> QED BY <3>1, <3>2 DEF Follows
    <2>5. CASE m.debit = 0 /\ SameAccount(m.draft, Credited(media, m.credit))
      <3>1. debits' = debits /\ credits' = credits + m.credit
        BY <1>2, <2>1, <2>5
      <3>2. Sums(m.draft, debits, credits + m.credit)
        BY <1>1, <1>2, <1>3, <1>5, <2>2, <2>5, CreditSums
      <3> QED BY <3>1, <3>2 DEF Follows
    <2> QED BY <1>5, <2>3, <2>4, <2>5
  <1> QED BY <1>4, <1>5 DEF Follows

\* A step that leaves the files and the sums alone: it is enough that the
\* threads stay serial and every new mutation follows from media.json.
LEMMA QuietStep ==
    ASSUME AccountInv, UNCHANGED <<media, debits, credits>>, rolls' = rolls, Serial',
           \A t \in Threads : tpc'[t] \in {"append", "save"} =>
               \/ tpc[t] \in {"append", "save"} /\ work'[t] = work[t]
               \/ Follows(work'[t], media, rolls)
    PROVE  AccountInv'
  <1>1. UpToDate'
    BY DEF AccountInv, UpToDate
  <1> QED BY <1>1 DEF AccountInv

\* With one worker, at most one thread is not idle.
LEMMA Alone ==
    ASSUME NEW w, Workers = {w}, Serial, NEW t \in Threads, tpc[t] # "idle",
           NEW u \in Threads, u # t
    PROVE  tpc[u] = "idle"
  BY ThreadsAssumption DEF Serial, Threads

\* A step of the only worker that leaves media.json and the sums alone.
LEMMA OneWorkerStep ==
    ASSUME TypeOK, NEW w, Workers = {w}, AccountInv,
           phase = "up", NEW pc, At(w, pc), phase' = phase,
           UNCHANGED <<media, debits, credits>>, rolls' \in {rolls, rolls + 1},
           pc \in {"append", "save"} => Follows(work'[w], media, rolls')
    PROVE  AccountInv'
  <1>1. Threads = {w, Main} /\ w # Main
    BY ThreadsAssumption DEF Threads
  <1>2. tpc \in [Threads -> ThreadPCs]
    BY DEF TypeOK, ThreadPCs
  <1>3. tpc[Main] = "idle"
    BY <1>1, <1>2 DEF AccountInv, Serial
  <1>4. tpc'[Main] = "idle" /\ tpc'[w] = pc
    BY <1>1, <1>2, <1>3 DEF At
  <1>5. Serial'
    BY <1>4 DEF Serial
  <1>6. UpToDate'
    <2>1. \A t \in Threads : tpc'[t] \in {"append", "save"} => Follows(work'[t], media', rolls')
      BY <1>1, <1>4
    <2> QED BY <2>1 DEF UpToDate
  <1>7. (media # None => media.roll <= rolls)'
    <2>1. rolls \in Nat /\ (media # None => media.roll \in Nat)
      BY DEF TypeOK, States
    <2> QED BY <2>1 DEF AccountInv
  <1>8. Sums(media, debits, credits)'
    BY DEF AccountInv
  <1> QED BY <1>5, <1>6, <1>7, <1>8 DEF AccountInv

\* Charging the roll follows from its state.
LEMMA ChargeFollows ==
    ASSUME TypeOK, AccountInv, media # None, NEW t \in Threads, NEW n \in Amounts, NEW why,
           NEW draft \in {Debited(media, n), Estimated(media, n)}, Charge(t, draft, n, why)
    PROVE  Follows(work'[t], media, rolls)
  <1>1. media \in States
    BY DEF TypeOK
  <1>2. work \in [Threads -> Works]
    BY DEF TypeOK
  <1>3. work'[t] = Mutation(media, draft, Negated(n), n, 0, why)
    BY <1>2 DEF Charge, Make
  <1>4. draft.roll = media.roll /\ draft.initial = media.initial /\ SameAccount(draft, Debited(media, n))
    BY <1>1 DEF Debited, Estimated, SameAccount, States
  <1> QED BY <1>3, <1>4 DEF Follows, Mutation, AccountInv

\* What the operator asks for is made from media.json as the worker finds it.
LEMMA OperatorKeeps ==
    ASSUME TypeOK, NEW w, Workers = {w}, AccountInv,
           Load(w) \/ Edit(w) \/ Unload(w) \/ Adjust(w)
    PROVE  AccountInv'
  <1>1. w \in Threads /\ w \in Workers
    BY DEF Threads
  <1>2. work \in [Threads -> Works] /\ rolls \in Nat /\ media \in States \cup {None}
    BY DEF TypeOK
  <1>3. ASSUME Load(w) PROVE AccountInv'
    <2> DEFINE c == Head(inbox[w])
    <2>1. phase = "up" /\ phase' = phase /\ UNCHANGED <<media, debits, credits>>
      BY <1>3 DEF Load, Take, Quiet, sumVars
    <2>2. CASE rolls' = rolls + 1 /\ Make(w, Rewrite(State(rolls + 1, c.n, c.def))) /\ At(w, "save")
      <3>1. c \in Commands /\ c.op = "load"
        BY <1>1, <1>3, TakeType DEF Load, Take
      <3>2. c.n \in Sizes
        BY <3>1, CommandForm
      <3>3. work'[w] = Rewrite(State(rolls + 1, c.n, c.def))
        BY <1>1, <1>2, <2>2 DEF Make
      <3>4. media # None => media.roll <= rolls /\ media.roll \in Nat
        BY <1>2 DEF AccountInv, States
      <3> HIDE DEF c
      <3>5. Follows(work'[w], media, rolls')
        BY <1>2, <2>2, <3>2, <3>3, <3>4 DEF Follows, Rewrite, State
      <3> QED BY <2>1, <2>2, <3>5, OneWorkerStep
    <2>3. CASE Done(w) /\ rolls' = rolls
      BY <2>1, <2>3, OneWorkerStep DEF Done
    <2> QED BY <1>3, <2>2, <2>3 DEF Load
  <1>4. ASSUME Edit(w) PROVE AccountInv'
    <2> DEFINE c == Head(inbox[w])
    <2>1. /\ phase = "up" /\ phase' = phase
          /\ UNCHANGED <<media, debits, credits>> /\ rolls' = rolls
      BY <1>4 DEF Edit, Take, Quiet, Nothing, fileVars, sumVars
    <2>2. CASE media # None /\ Make(w, Rewrite([media EXCEPT !.def = c.def])) /\ At(w, "save")
      <3>1. work'[w] = Rewrite([media EXCEPT !.def = c.def])
        BY <1>1, <1>2, <2>2 DEF Make
      <3>2. media \in States /\ media.roll <= rolls
        BY <1>2, <2>2 DEF AccountInv
      <3> HIDE DEF c
      <3>3. Follows(work'[w], media, rolls')
        BY <2>1, <2>2, <3>1, <3>2 DEF Follows, Rewrite, States, SameAccount
      <3> QED BY <2>1, <2>2, <3>3, OneWorkerStep
    <2>3. CASE Done(w)
      BY <2>1, <2>3, OneWorkerStep DEF Done
    <2> QED BY <1>4, <2>2, <2>3 DEF Edit, Nothing
  <1>5. ASSUME Unload(w) PROVE AccountInv'
    <2>1. /\ phase = "up" /\ phase' = phase
          /\ UNCHANGED <<media, debits, credits>> /\ rolls' = rolls
      BY <1>5 DEF Unload, Take, Quiet, fileVars, sumVars
    <2> QED BY <1>5, <2>1, OneWorkerStep DEF Unload, Done
  <1>6. ASSUME Adjust(w) PROVE AccountInv'
    <2> DEFINE n == Head(inbox[w]).n
    <2>1. /\ phase = "up" /\ phase' = phase
          /\ UNCHANGED <<media, debits, credits>> /\ rolls' = rolls
      BY <1>6 DEF Adjust, Take, Quiet, Nothing, fileVars, sumVars
    <2>2. Head(inbox[w]) \in Commands /\ Head(inbox[w]).op = "adjust"
      BY <1>1, <1>6, TakeType DEF Adjust, Take
    <2>3. n \in Deltas
      BY <2>2, CommandForm
    <2>4. CASE Done(w)
      BY <2>1, <2>4, OneWorkerStep DEF Done
    <2>5. CASE /\ media # None /\ At(w, "append") /\ n < 0
               /\ Make(w, Mutation(media, Debited(media, -n), n, -n, 0, "adjust"))
      <3>1. work'[w] = Mutation(media, Debited(media, -n), n, -n, 0, "adjust")
        BY <1>1, <1>2, <2>5 DEF Make
      <3>2. media \in States /\ media.roll <= rolls
        BY <1>2, <2>5 DEF AccountInv
      <3>3. -n \in Amounts
        BY <2>3, <2>5 DEF Amounts
      <3> HIDE DEF n
      <3>4. /\ Debited(media, -n).roll = media.roll
            /\ Debited(media, -n).initial = media.initial
        BY <3>2 DEF Debited, States
      <3>5. Follows(work'[w], media, rolls')
        BY <2>1, <2>5, <3>1, <3>2, <3>3, <3>4 DEF Follows, Mutation, SameAccount
      <3> QED BY <2>1, <2>5, <3>5, OneWorkerStep
    <2>6. CASE /\ media # None /\ At(w, "append") /\ ~(n < 0)
               /\ Make(w, Mutation(media, Credited(media, n), n, 0, n, "adjust"))
      <3>1. work'[w] = Mutation(media, Credited(media, n), n, 0, n, "adjust")
        BY <1>1, <1>2, <2>6 DEF Make
      <3>2. media \in States /\ media.roll <= rolls
        BY <1>2, <2>6 DEF AccountInv
      <3>3. n \in Amounts
        BY <2>3, <2>6 DEF Amounts
      <3> HIDE DEF n
      <3>4. /\ Credited(media, n).roll = media.roll
            /\ Credited(media, n).initial = media.initial
        BY <3>2 DEF Credited, States
      <3>5. Follows(work'[w], media, rolls')
        BY <2>1, <2>6, <3>1, <3>2, <3>3, <3>4 DEF Follows, Mutation, SameAccount
      <3> QED BY <2>1, <2>6, <3>5, OneWorkerStep
    <2> QED BY <1>6, <2>4, <2>5, <2>6 DEF Adjust, Nothing
  <1> QED BY <1>3, <1>4, <1>5, <1>6

\* So are the estimates.
LEMMA EstimateKeeps ==
    ASSUME TypeOK, NEW w, Workers = {w}, AccountInv, Maintain(w) \/ Probe(w)
    PROVE  AccountInv'
  <1>1. w \in Threads /\ Estimate \in Amounts
    BY DEF Threads, Amounts
  <1>2. /\ phase = "up" /\ phase' = phase
        /\ UNCHANGED <<media, debits, credits>> /\ rolls' = rolls
    BY DEF Maintain, Probe, Take, Quiet, fileVars, sumVars
  <1>3. ASSUME NEW why, media # None, Charge(w, Estimated(media, Estimate), Estimate, why)
        PROVE  AccountInv'
    <2>1. Follows(work'[w], media, rolls)
      BY <1>1, <1>3, ChargeFollows
    <2> QED BY <1>2, <1>3, <2>1, OneWorkerStep DEF Charge
  <1>4. CASE Done(w)
    BY <1>2, <1>4, OneWorkerStep DEF Done
  <1> QED BY <1>3, <1>4 DEF Maintain, Probe

\* The job in hand is charged to the roll as it is after the delivery.
LEMMA DeliveryKeeps ==
    ASSUME TypeOK, NEW w, Workers = {w}, AccountInv,
           Deliver(w) \/ Accept(w) \/ NotAccepted(w) \/ Consume(w)
    PROVE  AccountInv'
  <1>1. w \in Threads
    BY DEF Threads
  <1>2. /\ phase = "up" /\ phase' = phase
        /\ UNCHANGED <<media, debits, credits>> /\ rolls' = rolls
    BY DEF Deliver, Accept, NotAccepted, Consume, Take, Quiet, fileVars, sumVars
  <1>3. CASE Deliver(w)
    BY <1>2, <1>3, OneWorkerStep DEF Deliver
  <1>4. CASE Accept(w)
    BY <1>2, <1>4, OneWorkerStep DEF Accept
  <1>5. CASE Done(w)
    BY <1>2, <1>5, OneWorkerStep DEF Done
  <1>6. ASSUME tpc[w] = "charge", media # None, Labels[work[w].why] # None,
               Charge(w, Debited(media, Labels[work[w].why]), Labels[work[w].why], work[w].why)
        PROVE  AccountInv'
    <2>1. work[w].why \in Jobs
      BY <1>1, <1>6 DEF TypeOK
    <2>2. Labels[work[w].why] \in Amounts
      BY <1>6, <2>1 DEF Amounts, Counts
    <2>3. Follows(work'[w], media, rolls)
      BY <1>1, <1>6, <2>2, ChargeFollows
    <2> QED BY <1>2, <1>6, <2>3, OneWorkerStep DEF Charge
  <1> QED BY <1>3, <1>4, <1>5, <1>6 DEF NotAccepted, Consume

\* A ledger line is no mutation; a thread that fails to write it stops or not.
LEMMA AppendKeeps ==
    ASSUME TypeOK, NEW w, Workers = {w}, AccountInv, NEW t \in Threads, AppendLine(t)
    PROVE  AccountInv'
  <1>1. /\ tpc[t] = "append" /\ UNCHANGED <<media, debits, credits>> /\ rolls' = rolls
        /\ tpc \in [Threads -> ThreadPCs] /\ work \in [Threads -> Works]
    BY DEF AppendLine, sumVars, TypeOK, ThreadPCs
  <1>2. \A u \in Threads : u # t => tpc[u] = "idle"
    BY <1>1, Alone DEF AccountInv
  <1>3. CASE At(t, "save") /\ UNCHANGED <<work, phase>>
    <2>1. \A u \in Threads : /\ u # t => tpc'[u] = tpc[u]
                             /\ u = t => tpc'[u] = "save" /\ tpc[u] = "append"
      BY <1>1, <1>3 DEF At
    <2>2. Serial'
      BY <1>1, <1>3, <2>1 DEF AccountInv, Serial, Threads
    <2> QED BY <1>1, <1>3, <2>1, <2>2, QuietStep
  <1>4. CASE GiveUp(t)
    <2>1. \A u \in Threads : tpc'[u] = "idle"
      BY <1>1, <1>2, <1>4 DEF GiveUp, Done, At
    <2>2. Serial'
      BY <2>1 DEF Serial, Threads
    <2> QED BY <1>1, <2>1, <2>2, QuietStep
  <1> QED BY <1>3, <1>4 DEF AppendLine

\* What is saved was made from what it replaces.
LEMMA SaveKeeps ==
    ASSUME TypeOK, NEW w, Workers = {w}, AccountInv, NEW t \in Threads, SaveMedia(t)
    PROVE  AccountInv'
  <1>1. /\ tpc[t] = "save" /\ rolls' = rolls
        /\ tpc \in [Threads -> ThreadPCs] /\ work \in [Threads -> Works]
    BY DEF SaveMedia, TypeOK, ThreadPCs
  <1>2. \A u \in Threads : u # t => tpc[u] = "idle"
    BY <1>1, Alone DEF AccountInv
  <1>3. \A u \in Threads : u # t => tpc'[u] = "idle"
    BY <1>1, <1>2 DEF SaveMedia, GiveUp, Done, At
  <1>4. tpc'[t] = "idle" \/ (tpc'[t] = "mark" /\ t = Main /\ phase' = phase)
    BY <1>1 DEF SaveMedia, GiveUp, Done, At
  <1>5. Serial'
    BY <1>1, <1>3, <1>4, ThreadsAssumption DEF AccountInv, Serial, Threads
  <1>6. UpToDate'
    BY <1>3, <1>4 DEF UpToDate
  <1>7. CASE UNCHANGED <<media, sumVars>>
    BY <1>1, <1>5, <1>6, <1>7 DEF AccountInv, sumVars
  <1>8. CASE media' = work[t].draft /\ Account(work[t])
    <2>1. PICK m \in Works : m = work[t]
      BY <1>1
    <2>2. Follows(m, media, rolls)
      BY <1>1, <2>1 DEF AccountInv, UpToDate
    <2>3. media' = m.draft /\ Account(m)
      BY <1>8, <2>1
    <2>4. Sums(media', debits', credits') /\ media'.roll <= rolls
      BY <2>2, <2>3, SaveSums
    <2> QED BY <1>1, <1>5, <1>6, <2>4 DEF AccountInv
  <1> QED BY <1>7, <1>8 DEF SaveMedia

\* Without a roll there is nothing to sum up.
LEMMA RemoveKeeps ==
    ASSUME TypeOK, NEW w, Workers = {w}, AccountInv, RemoveFile(w)
    PROVE  AccountInv'
  <1>1. /\ tpc[w] = "remove" /\ rolls' = rolls /\ UNCHANGED <<debits, credits>>
        /\ tpc \in [Threads -> ThreadPCs] /\ w \in Threads
    BY DEF RemoveFile, Quiet, sumVars, TypeOK, ThreadPCs, Threads
  <1>2. \A u \in Threads : u # w => tpc[u] = "idle"
    BY <1>1, Alone DEF AccountInv
  <1>3. \A u \in Threads : tpc'[u] = "idle"
    BY <1>1, <1>2 DEF RemoveFile, Done, At
  <1>4. Serial' /\ UpToDate'
    BY <1>3 DEF Serial, UpToDate, Threads
  <1>5. CASE media' = None
    BY <1>4, <1>5 DEF AccountInv, Sums
  <1>6. CASE media' = media
    BY <1>1, <1>4, <1>6 DEF AccountInv
  <1> QED BY <1>5, <1>6 DEF RemoveFile

\* main makes its charge before there is a worker.
LEMMA MainKeeps ==
    ASSUME TypeOK, NEW w, Workers = {w}, AccountInv, Start \/ MarkBoot \/ Serve
    PROVE  AccountInv'
  <1>1. /\ UNCHANGED <<media, debits, credits>> /\ rolls' = rolls
        /\ tpc \in [Threads -> ThreadPCs] /\ work \in [Threads -> Works] /\ Main \in Threads
    BY DEF Start, MarkBoot, Serve, fileVars, sumVars, TypeOK, ThreadPCs, Threads
  <1>2. \A u \in Threads : u # Main => tpc[u] = "idle"
    <2>1. tpc[w] = "idle"
      BY ThreadsAssumption DEF AccountInv, Serial, Start, MarkBoot, Serve
    <2> QED BY <2>1 DEF Threads
  <1>3. ASSUME NEW pc, At(Main, pc), pc # "idle" => phase' = "booting",
               pc \in {"append", "save"} => Follows(work'[Main], media, rolls)
        PROVE  AccountInv'
    <2>1. tpc'[Main] = pc /\ \A u \in Threads : u # Main => tpc'[u] = "idle"
      BY <1>1, <1>2, <1>3 DEF At
    <2>2. Serial'
      BY <1>3, <2>1, ThreadsAssumption DEF Serial, Threads
    <2>3. \A u \in Threads : tpc'[u] \in {"append", "save"} => Follows(work'[u], media, rolls)
      BY <1>3, <2>1
    <2> QED BY <1>1, <2>2, <2>3, QuietStep
  <1>4. CASE Start
    <2>1. CASE At(Main, "ready") \/ At(Main, "mark")
      BY <1>3, <1>4, <2>1 DEF Start
    <2>2. CASE media # None /\ Charge(Main, Estimated(media, BootLoss), BootLoss, "boot")
      <3>1. BootLoss \in Amounts
        BY DEF Amounts
      <3>2. Follows(work'[Main], media, rolls)
        BY <1>1, <2>2, <3>1, ChargeFollows
      <3>3. At(Main, "append") /\ phase' = "booting"
        BY <1>4, <2>2 DEF Start, Charge
      <3> QED BY <1>3, <3>2, <3>3
    <2> QED BY <1>4, <2>1, <2>2 DEF Start
  <1>5. CASE MarkBoot
    <2>1. tpc[Main] = "mark" /\ phase = "booting"
      BY <1>5 DEF MarkBoot, AccountInv, Serial
    <2>2. CASE At(Main, "ready") /\ phase' = phase
      BY <1>3, <2>1, <2>2
    <2>3. CASE GiveUp(Main)
      BY <1>3, <2>3 DEF GiveUp, Done
    <2> QED BY <1>5, <2>2, <2>3 DEF MarkBoot
  <1>6. CASE Serve
    BY <1>3, <1>6 DEF Serve
  <1> QED BY <1>4, <1>5, <1>6

\* Requests only post, a crash or a boot of the host only forgets.
LEMMA OutsideKeeps ==
    ASSUME TypeOK, NEW w, Workers = {w}, AccountInv,
           \/ Request \/ RequestEdit \/ \E j \in Jobs : Submit(j)
           \/ Crash \/ HostBoot
    PROVE  AccountInv'
  <1>1. UNCHANGED <<media, debits, credits>> /\ rolls' = rolls
    BY DEF Request, RequestEdit, Submit, Post, Crash, HostBoot, fileVars, sumVars
  <1>2. CASE UNCHANGED <<phase, threadVars>>
    BY <1>1, <1>2, QuietStep DEF AccountInv, Serial, threadVars
  <1>3. CASE Crash
    <2>1. \A u \in Threads : tpc'[u] = "idle"
      BY <1>3 DEF Crash
    <2>2. Serial'
      BY <2>1 DEF Serial, Threads
    <2> QED BY <1>1, <2>1, <2>2, QuietStep
  <1> QED BY <1>2, <1>3
          DEF Request, RequestEdit, Submit, Post, HostBoot

LEMMA AccountInit == Init => AccountInv
  BY DEF Init, AccountInv, Serial, UpToDate, Sums, Threads

LEMMA AccountStep ==
    ASSUME NEW w, Workers = {w}, TypeOK, AccountInv, [Next]_vars
    PROVE  AccountInv'
  <1>1. w \in Threads /\ Main \in Threads
    BY DEF Threads
  <1>2. CASE \E v \in Workers : WorkerStep(v)
    <2>1. WorkerStep(w)
      BY <1>2
    <2> QED BY <1>1, <2>1, OperatorKeeps, EstimateKeeps, DeliveryKeeps, AppendKeeps,
               SaveKeeps, RemoveKeeps DEF WorkerStep
  <1>3. CASE MainStep
    BY <1>1, <1>3, MainKeeps, AppendKeeps, SaveKeeps DEF MainStep
  <1>4. CASE UNCHANGED vars
    BY <1>4, QuietStep DEF vars, fileVars, threadVars, sumVars, AccountInv, Serial
  <1> QED BY <1>2, <1>3, <1>4, OutsideKeeps DEF Next

LEMMA AccountInvariant == Spec => []AccountInv
  <1>1. Init => TypeOK /\ AccountInv
    BY TypeInit, AccountInit
  <1>2. TypeOK /\ AccountInv /\ [Next]_vars => (TypeOK /\ AccountInv)'
    <2>1. Workers = {Worker}
      BY DEF Workers
    <2> QED BY <2>1, TypeStep, AccountStep
  <1> QED BY <1>1, <1>2, PTL DEF Spec

\* No mutation is lost, whatever
\* crashes, restarts, disk errors and label counts there are: the state of the
\* roll is the sum of everything that was taken from it and added to it.
THEOREM NothingEverLost == Spec => []NothingLost
  <1>1. AccountInv => NothingLost
    BY DEF AccountInv, Sums, NothingLost, Fits
  <1> QED BY <1>1, AccountInvariant, PTL

-----------------------------------------------------------------------------
(* The files show an account to which every mutation applies atomically.    *)

\* The account a state of media.json shows.
AccountOf(m) == IF m = None THEN None
                ELSE [initial |-> m.initial, remaining |-> m.remaining,
                      consumed |-> m.consumed, deficit |-> m.deficit]

AccountMove(a, b) ==
    \/ \E n \in Sizes : b = Roll!Fresh(n)
    \/ a # None /\ b = None
    \/ a # None /\ \E n \in Amounts : b = Roll!Debited(a, n)
    \/ a # None /\ \E n \in Amounts : b = Roll!Credited(a, n)
    \/ b = a

\* None is neither a state nor an account.
LEMMA NoAccount ==
    ASSUME NEW m \in States
    PROVE  AccountOf(m) # None /\ m # None
  <1>1. [initial |-> m.initial, remaining |-> m.remaining,
         consumed |-> m.consumed, deficit |-> m.deficit] # None
    <2>1. m.initial \in Nat /\ m.remaining \in Nat /\ m.consumed \in Nat /\ m.deficit \in Nat
      BY Limits DEF States
    <2> QED BY <2>1, NoneAssumption
  <1> QED BY <1>1, NoneAssumption DEF AccountOf

\* A mutation that follows from the state is one mutation of the account.
LEMMA FollowsMove ==
    ASSUME NEW now \in States \cup {None}, NEW m \in Works, NEW clock, Follows(m, now, clock)
    PROVE  AccountMove(AccountOf(now), AccountOf(m.draft))
  <1>1. m.draft \in States /\ m.draft # None
    BY NoneAssumption DEF Works
  <1>2. CASE /\ m.draft.initial \in Sizes
             /\ m.draft.remaining = m.draft.initial
             /\ m.draft.consumed = 0 /\ m.draft.deficit = 0
    <2>1. AccountOf(m.draft) = Roll!Fresh(m.draft.initial)
      BY <1>1, <1>2 DEF AccountOf, Roll!Fresh
    <2> QED BY <1>2, <2>1 DEF AccountMove
  <1>3. ASSUME now # None, m.draft.initial = now.initial
        PROVE  /\ SameAccount(m.draft, now) => AccountOf(m.draft) = AccountOf(now)
               /\ \A n : SameAccount(m.draft, Debited(now, n)) =>
                     AccountOf(m.draft) = Roll!Debited(AccountOf(now), n)
               /\ \A n : SameAccount(m.draft, Credited(now, n)) =>
                     AccountOf(m.draft) = Roll!Credited(AccountOf(now), n)
    <2>1. now \in States
      BY <1>3
    <2>2. ASSUME SameAccount(m.draft, now) PROVE AccountOf(m.draft) = AccountOf(now)
      BY <1>1, <1>3, <2>2 DEF AccountOf, SameAccount
    <2>3. ASSUME NEW n, SameAccount(m.draft, Debited(now, n))
          PROVE  AccountOf(m.draft) = Roll!Debited(AccountOf(now), n)
      <3>1. /\ m.draft.remaining = Over(now.remaining, n)
            /\ m.draft.consumed = Saturate(now.consumed + n)
            /\ m.draft.deficit = Saturate(now.deficit + Over(n, now.remaining))
        BY <2>1, <2>3 DEF SameAccount, Debited, States
      <3>2. /\ Over(now.remaining, n) = Roll!Over(now.remaining, n)
            /\ Over(n, now.remaining) = Roll!Over(n, now.remaining)
            /\ Saturate(now.consumed + n) = Roll!Saturate(now.consumed + n)
            /\ Saturate(now.deficit + Over(n, now.remaining))
                   = Roll!Saturate(now.deficit + Roll!Over(n, now.remaining))
        BY DEF Over, Roll!Over, Saturate, Roll!Saturate
      <3> DEFINE r == Over(now.remaining, n)
                 c == Saturate(now.consumed + n)
                 d == Saturate(now.deficit + Over(n, now.remaining))
                 b == AccountOf(now)
      <3>3. b = [initial |-> now.initial, remaining |-> now.remaining,
                 consumed |-> now.consumed, deficit |-> now.deficit]
        BY <1>3 DEF AccountOf
      <3>4. b.remaining = now.remaining /\ b.consumed = now.consumed /\ b.deficit = now.deficit
        BY <3>3
      <3>5. Roll!Debited(b, n) = [b EXCEPT !.remaining = r, !.consumed = c, !.deficit = d]
        BY <3>2, <3>4 DEF Roll!Debited
      <3>6. AccountOf(m.draft) = [initial |-> now.initial, remaining |-> r,
                                  consumed |-> c, deficit |-> d]
        BY <1>1, <1>3, <3>1 DEF AccountOf
      <3> HIDE DEF r, c, d, b
      <3>7. Roll!Debited(b, n) = AccountOf(m.draft)
        BY <3>3, <3>5, <3>6
      <3> QED BY <3>7 DEF b
    <2>4. ASSUME NEW n, SameAccount(m.draft, Credited(now, n))
          PROVE  AccountOf(m.draft) = Roll!Credited(AccountOf(now), n)
      <3>1. /\ m.draft.remaining = Saturate(now.remaining + n)
            /\ m.draft.consumed = now.consumed /\ m.draft.deficit = now.deficit
        BY <2>1, <2>4 DEF SameAccount, Credited, States
      <3>2. Saturate(now.remaining + n) = Roll!Saturate(now.remaining + n)
        BY DEF Saturate, Roll!Saturate
      <3> QED BY <1>1, <1>3, <3>1, <3>2 DEF AccountOf, Roll!Credited
    <2> QED BY <2>2, <2>3, <2>4
  <1>4. CASE /\ now # None /\ m.draft.initial = now.initial
             /\ \/ SameAccount(m.draft, now)
                \/ m.debit \in Amounts /\ SameAccount(m.draft, Debited(now, m.debit))
                \/ m.credit \in Amounts /\ SameAccount(m.draft, Credited(now, m.credit))
    <2>1. AccountOf(now) # None
      BY <1>4, NoAccount
    <2> QED BY <1>3, <1>4, <2>1 DEF AccountMove
  <1> QED BY <1>2, <1>4 DEF Follows

\* What may happen to media.json in one step.
LEMMA MediaChange ==
    ASSUME [Next]_vars
    PROVE  \/ media' = media
           \/ media' = None
           \/ \E t \in Threads : tpc[t] = "save" /\ media' = work[t].draft
  <1>1. ASSUME NEW t \in Threads, SaveMedia(t)
        PROVE  media' = media \/ (tpc[t] = "save" /\ media' = work[t].draft)
    BY <1>1 DEF SaveMedia
  <1>2. ASSUME NEW t \in Threads, AppendLine(t) PROVE media' = media
    BY <1>2 DEF AppendLine
  <1>3. CASE MainStep
    <2>1. Main \in Threads
      BY DEF Threads
    <2> QED BY <1>1, <1>2, <1>3, <2>1 DEF MainStep, Start, MarkBoot, Serve, fileVars
  <1>4. ASSUME NEW w \in Workers, WorkerStep(w)
        PROVE  \/ media' = media
               \/ media' = None
               \/ \E t \in Threads : tpc[t] = "save" /\ media' = work[t].draft
    <2>1. w \in Threads
      BY DEF Threads
    <2>2. CASE Load(w) \/ Edit(w) \/ Unload(w) \/ RemoveFile(w) \/ Adjust(w)
      BY <2>2 DEF Load, Edit, Unload, RemoveFile, Adjust, Nothing, fileVars
    <2>3. CASE Maintain(w) \/ Probe(w) \/ Deliver(w) \/ Accept(w) \/ NotAccepted(w) \/ Consume(w)
      BY <2>3 DEF Maintain, Probe, Deliver, Accept, NotAccepted, Consume, fileVars
    <2> QED BY <1>1, <1>2, <1>4, <2>1, <2>2, <2>3 DEF WorkerStep
  <1>5. CASE UNCHANGED vars
    BY <1>5 DEF vars, fileVars
  <1>6. CASE \/ Request \/ RequestEdit \/ \E j \in Jobs : Submit(j)
             \/ Crash \/ HostBoot
    BY <1>6 DEF Request, RequestEdit, Submit, Post, Crash, HostBoot, fileVars
  <1> QED BY <1>3, <1>4, <1>5, <1>6 DEF Next

LEMMA AccountRefined ==
    ASSUME TypeOK, AccountInv, [Next]_vars
    PROVE  AccountMove(AccountOf(media), AccountOf(media'))
  <1>1. media \in States \cup {None} /\ work \in [Threads -> Works]
    BY DEF TypeOK
  <1>2. CASE media' = media
    BY <1>2 DEF AccountMove
  <1>3. CASE media' = None
    <2>1. media = None \/ AccountOf(media) # None
      BY <1>1, NoAccount
    <2> QED BY <1>3, <2>1 DEF AccountMove, AccountOf
  <1>4. ASSUME NEW t \in Threads, tpc[t] = "save", media' = work[t].draft
        PROVE  AccountMove(AccountOf(media), AccountOf(media'))
    <2>1. PICK m \in Works : m = work[t]
      BY <1>1
    <2>2. Follows(m, media, rolls)
      BY <1>4, <2>1 DEF AccountInv, UpToDate
    <2>3. media' = m.draft
      BY <1>4, <2>1
    <2>4. AccountMove(AccountOf(media), AccountOf(m.draft))
      BY <1>1, <2>2, FollowsMove
    <2> QED BY <2>3, <2>4
  <1> QED BY <1>2, <1>3, <1>4, MediaChange

\* The files implement the account: prints, estimates, adjustments, edits and new rolls apply one at a time, each
\* to the account the one before left, though every one of them is a read, an
\* append and a save with crashes and errors in between.
THEOREM MutationsAtomic == Spec => Atomic
  <1> DEFINE a == IF media = None THEN None
                  ELSE [initial |-> media.initial, remaining |-> media.remaining,
                        consumed |-> media.consumed, deficit |-> media.deficit]
  <1>1. a = AccountOf(media)
    BY DEF AccountOf
  <1>2. Init => a = None
    BY DEF Init
  <1>3. TypeOK /\ AccountInv /\ [Next]_vars =>
            [Roll!NewRoll \/ Roll!Remove \/ Roll!Debit \/ Roll!Credit]_a
    <2> SUFFICES ASSUME TypeOK, AccountInv, [Next]_vars
                 PROVE  [Roll!NewRoll \/ Roll!Remove \/ Roll!Debit \/ Roll!Credit]_a
      OBVIOUS
    <2>1. AccountMove(AccountOf(media), AccountOf(media'))
      BY AccountRefined
    <2>2. AccountOf(media') = a'
      BY DEF AccountOf
    <2> QED BY <1>1, <2>1, <2>2
            DEF AccountMove, Roll!NewRoll, Roll!Remove, Roll!Debit, Roll!Credit
  <1> QED BY <1>2, <1>3, AccountTyped, AccountInvariant, PTL
          DEF Spec, Atomic, Roll!AccountSpec

-----------------------------------------------------------------------------
(* What is charged: the strengthening.                                       *)

NoLine(j)    == \A i \in DOMAIN ledger : ledger[i].why # j
Prints(c, j) == c.op = "print" /\ c.job = j

\* A job that has not been delivered has no line in the ledger ...
FreshAt(j) == jobs[j] \in {"new", "queued"} => NoLine(j)

\* ... it is asked for once ...
InboxAt(j) == \A i \in DOMAIN inbox[Worker] : Prints(inbox[Worker][i], j) =>
    /\ jobs[j] = "queued"
    /\ \A k \in DOMAIN inbox[Worker] : Prints(inbox[Worker][k], j) => k = i

\* ... and the worker, which alone has jobs in hand, writes its line.
WorkAt(t) ==
    /\ work[t].why \in Jobs =>
        /\ t = Worker /\ tpc[t] \in {"deliver", "charge", "append", "save"}
        /\ jobs[work[t].why] \notin {"new", "queued"}
        /\ tpc[t] # "save" => NoLine(work[t].why)
    /\ tpc[t] = "append" => work[t].line.why = work[t].why

ChargeInv == /\ \A j \in Jobs : FreshAt(j) /\ InboxAt(j)
             /\ \A t \in Threads : WorkAt(t)
             /\ ChargedOnce

\* Where main stands tells whether the boot the host is in has been charged.
Within == budget["fault"] <= Budget["fault"]
Paid   == bootDue /\ BootLoss > 0 /\ Writable => bootCharges > 0

BootInv ==
    /\ Within
    /\ bootFile # None => bootFile <= host
    /\ bootDue => bootFile # None
    /\ bootDue /\ bootFile # host => media # None
    /\ bootFile = host => Paid
    /\ served \/ phase = "up" \/ tpc[Main] = "ready" => bootFile = host
    /\ tpc[Main] = "mark" => Paid
    /\ tpc[Main] \in {"append", "save"} => work[Main].why = "boot" /\ ~served
    /\ work[Worker].why # "boot"

-----------------------------------------------------------------------------
(* What a step does to budget, threads and requests.                         *)

\* Every step pays for its faults, or leaves the budget alone.
LEMMA Pays ==
    ASSUME TypeOK, [Next]_vars
    PROVE  \/ UNCHANGED budget
           \/ \E kind \in {"op", "crash", "boot", "fault"}, n \in Nat : Spend(kind, n)
  <1>1. ASSUME NEW w \in Workers, WorkerStep(w)
        PROVE  UNCHANGED budget \/ \E n \in Nat : Spend("fault", n)
    <2>1. CASE Accept(w) \/ AppendLine(w) \/ SaveMedia(w)
      BY <2>1, FaultsType DEF Accept, AppendLine, SaveMedia
    <2>2. CASE \/ Load(w) \/ Edit(w) \/ Unload(w) \/ RemoveFile(w) \/ Adjust(w) \/ Maintain(w)
               \/ Probe(w) \/ Deliver(w) \/ NotAccepted(w) \/ Consume(w)
      <3>1. UNCHANGED budget \/ Spend("fault", 1)
        BY <2>2, Zenon DEF Load, Edit, Unload, RemoveFile, Adjust, Maintain, Probe, Deliver,
           NotAccepted, Consume, Nothing
      <3> QED BY <3>1
    <2> QED BY <1>1, <2>1, <2>2 DEF WorkerStep
  <1>2. CASE MainStep
    <2>1. CASE AppendLine(Main) \/ SaveMedia(Main) \/ MarkBoot
      BY <2>1, FaultsType DEF AppendLine, SaveMedia, MarkBoot
    <2>2. CASE Start
      <3>1. PICK unreadable \in BOOLEAN : Spend("fault", IF unreadable THEN 1 ELSE 0)
        BY <2>2 DEF Start
      <3>2. (IF unreadable THEN 1 ELSE 0) \in Nat
        OBVIOUS
      <3> QED BY <3>1, <3>2
    <2>3. CASE Serve
      BY <2>3 DEF Serve
    <2> QED BY <1>2, <2>1, <2>2, <2>3 DEF MainStep
  <1>3. CASE Request \/ RequestEdit \/ \E j \in Jobs : Submit(j)
    BY <1>3 DEF Request, RequestEdit, Submit
  <1>4. CASE Crash \/ HostBoot
    BY <1>4 DEF Crash, HostBoot
  <1>5. CASE UNCHANGED vars
    BY <1>5 DEF vars
  <1> QED BY <1>1, <1>2, <1>3, <1>4, <1>5 DEF Next

\* What was spent stays spent.
LEMMA SpentGrows ==
    ASSUME TypeOK, [Next]_vars, NEW kind \in {"op", "crash", "boot", "fault"}
    PROVE  budget[kind] \in Nat /\ budget'[kind] \in Nat /\ budget'[kind] <= budget[kind]
  <1>1. budget \in [{"op", "crash", "boot", "fault"} -> Nat]
    BY DEF TypeOK
  <1>2. ASSUME NEW k \in {"op", "crash", "boot", "fault"}, NEW n \in Nat, Spend(k, n)
        PROVE  budget'[kind] \in Nat /\ budget'[kind] <= budget[kind]
    BY <1>1, <1>2 DEF Spend
  <1> QED BY <1>1, <1>2, Pays

LEMMA WithinStep ==
    ASSUME TypeOK, Within, [Next]_vars
    PROVE  Within' /\ (Writable' => Writable)
  <1>1. Budget["fault"] \in Nat
    BY BudgetAssumption
  <1> QED BY <1>1, SpentGrows DEF Within, Writable

\* The words a mutation carries.
LEMMA WhyOf ==
    /\ \A draft : Rewrite(draft).why = "edit"
    /\ Idle.why = "edit"
    /\ \A m, draft, delta, debit, credit, why :
           LET made == Mutation(m, draft, delta, debit, credit, why) IN
           made.why = why /\ made.line.why = why
  BY DEF Rewrite, Idle, Mutation

\* A step of a thread touches no other.
LEMMA MoveOf ==
    ASSUME TypeOK, NEW t \in Threads, NEW pc, NEW m
    PROVE  /\ At(t, pc) => /\ tpc'[t] = pc
                           /\ \A u \in Threads : u # t => tpc'[u] = tpc[u]
           /\ Make(t, m) => /\ work'[t] = m
                            /\ \A u \in Threads : u # t => work'[u] = work[u]
           /\ UNCHANGED work => \A u \in Threads : work'[u] = work[u]
  BY DEF TypeOK, At, Make

\* A thread is done, main perhaps with the process.
LEMMA DoneOf ==
    ASSUME TypeOK, NEW t \in Threads, Done(t)
    PROVE  /\ tpc'[t] = "idle" /\ work'[t].why = "edit"
           /\ \A u \in Threads : u # t => tpc'[u] = tpc[u] /\ work'[u] = work[u]
  BY MoveOf, WhyOf DEF Done

\* The worker takes the first command from its channel.
LEMMA TakeOf ==
    ASSUME TypeOK, NEW op, Take(Worker, op)
    PROVE  /\ inbox[Worker] \in Seq(Commands) /\ inbox[Worker] # <<>>
           /\ inbox'[Worker] = Tail(inbox[Worker]) /\ Head(inbox[Worker]).op = op
           /\ phase = "up" /\ tpc[Worker] = "idle"
           /\ UNCHANGED <<bootVars, phase, sumVars>>
  BY DEF TypeOK, Take, Quiet, Workers

\* A command of the operator ends in a mutation of its own, or in none; it has
\* nothing to do with a job.
LEMMA OperatorDoes ==
    ASSUME TypeOK, ChargeInv,
           \/ Load(Worker) \/ Edit(Worker) \/ Unload(Worker) \/ RemoveFile(Worker)
           \/ Adjust(Worker) \/ Maintain(Worker) \/ Probe(Worker)
    PROVE  /\ UNCHANGED <<ledger, jobs, excused, bootVars, phase, sumVars>> /\ phase = "up"
           /\ \/ inbox' = inbox
              \/ /\ inbox[Worker] \in Seq(Commands) /\ inbox[Worker] # <<>>
                 /\ inbox'[Worker] = Tail(inbox[Worker]) /\ Head(inbox[Worker]).op # "print"
           /\ tpc[Worker] \in {"idle", "remove"}
           /\ work'[Worker].why \in Words \ {"boot"} \/ work' = work
           /\ tpc'[Worker] = "append" => /\ work'[Worker].line.why = work'[Worker].why
                                         /\ work'[Worker].why \in Words \ {"boot"}
           /\ tpc'[Main] = tpc[Main] /\ work'[Main] = work[Main]
  <1>1. /\ Worker \in Threads /\ Worker \in Workers /\ Main \in Threads /\ Main # Worker
        /\ "edit" \in Words \ {"boot"} /\ "adjust" \in Words \ {"boot"}
        /\ "maintenance" \in Words \ {"boot"} /\ "reconnect" \in Words \ {"boot"}
    BY ThreadsAssumption DEF Threads, Workers, Words
  <1>2. ASSUME NEW draft, Make(Worker, Rewrite(draft)), At(Worker, "save")
        PROVE  /\ work'[Worker].why \in Words \ {"boot"} /\ tpc'[Worker] # "append"
               /\ tpc'[Main] = tpc[Main] /\ work'[Main] = work[Main]
    BY <1>1, <1>2, MoveOf, WhyOf
  <1>3. ASSUME NEW draft, NEW delta, NEW debit, NEW credit, NEW why \in Words \ {"boot"},
               Make(Worker, Mutation(media, draft, delta, debit, credit, why)),
               At(Worker, "append")
        PROVE  /\ work'[Worker].why \in Words \ {"boot"}
               /\ work'[Worker].line.why = work'[Worker].why
               /\ tpc'[Main] = tpc[Main] /\ work'[Main] = work[Main]
    BY <1>1, <1>3, MoveOf, WhyOf
  <1>4. ASSUME Done(Worker)
        PROVE  /\ work'[Worker].why \in Words \ {"boot"} /\ tpc'[Worker] # "append"
               /\ tpc'[Main] = tpc[Main] /\ work'[Main] = work[Main]
    BY <1>1, <1>4, DoneOf
  <1>5. CASE Load(Worker)
    <2>1. Take(Worker, "load") /\ UNCHANGED <<ledger, jobs, excused>>
      BY <1>5 DEF Load
    <2>2. \/ \E draft : Make(Worker, Rewrite(draft)) /\ At(Worker, "save")
          \/ Done(Worker)
      BY <1>5 DEF Load
    <2> QED BY <1>2, <1>4, <2>1, <2>2, TakeOf
  <1>6. CASE Edit(Worker)
    <2>1. Take(Worker, "edit") /\ UNCHANGED <<ledger, jobs, excused>>
      BY <1>6 DEF Edit, Nothing, fileVars
    <2>2. \/ \E draft : Make(Worker, Rewrite(draft)) /\ At(Worker, "save")
          \/ Done(Worker)
      BY <1>6 DEF Edit, Nothing
    <2> QED BY <1>2, <1>4, <2>1, <2>2, TakeOf
  <1>7. CASE Unload(Worker)
    <2>1. Take(Worker, "unload") /\ UNCHANGED <<ledger, jobs, excused>>
      BY <1>7 DEF Unload, fileVars
    <2>2. (At(Worker, "remove") /\ UNCHANGED work) \/ Done(Worker)
      BY <1>7 DEF Unload
    <2> QED BY <1>1, <1>4, <2>1, <2>2, TakeOf, MoveOf
  <1>8. CASE RemoveFile(Worker)
    BY <1>4, <1>8 DEF RemoveFile, Quiet
  <1>9. CASE Adjust(Worker)
    <2>1. Take(Worker, "adjust") /\ UNCHANGED <<ledger, jobs, excused>>
      BY <1>9 DEF Adjust, Nothing, fileVars
    <2>2. \/ \E draft, delta, debit, credit :
               /\ Make(Worker, Mutation(media, draft, delta, debit, credit, "adjust"))
               /\ At(Worker, "append")
          \/ Done(Worker)
      BY <1>9 DEF Adjust, Nothing
    <2> QED BY <1>1, <1>3, <1>4, <2>1, <2>2, TakeOf
  <1>10. CASE Maintain(Worker)
    <2>1. Take(Worker, "maintain") /\ UNCHANGED <<ledger, jobs, excused>>
      BY <1>10 DEF Maintain, fileVars
    <2>2. Charge(Worker, Estimated(media, Estimate), Estimate, "maintenance") \/ Done(Worker)
      BY <1>10 DEF Maintain
    <2> QED BY <1>1, <1>3, <1>4, <2>1, <2>2, TakeOf DEF Charge
  <1>11. CASE Probe(Worker)
    <2>1. Take(Worker, "probe") /\ UNCHANGED <<ledger, jobs, excused>>
      BY <1>11 DEF Probe, fileVars
    <2>2. Charge(Worker, Estimated(media, Estimate), Estimate, "reconnect") \/ Done(Worker)
      BY <1>11 DEF Probe
    <2> QED BY <1>1, <1>3, <1>4, <2>1, <2>2, TakeOf DEF Charge
  <1> QED BY <1>5, <1>6, <1>7, <1>8, <1>9, <1>10, <1>11

-----------------------------------------------------------------------------
(* A job is charged once. *)

\* The parts of the invariant, and what leaves each of them alone.
Forward == \A j \in Jobs : jobs'[j] \in {"new", "queued"} => jobs[j] \in {"new", "queued"}

LEMMA FreshStay ==
    ASSUME ChargeInv, Forward, ledger' = ledger, NEW j \in Jobs
    PROVE  FreshAt(j)'
  BY DEF ChargeInv, FreshAt, NoLine, Forward

LEMMA WorkStay ==
    ASSUME ChargeInv, Forward, ledger' = ledger, NEW t \in Threads,
           tpc'[t] = tpc[t], work'[t] = work[t]
    PROVE  WorkAt(t)'
  BY DEF ChargeInv, WorkAt, NoLine, Forward

LEMMA InboxStay ==
    ASSUME ChargeInv, inbox'[Worker] = inbox[Worker], NEW j \in Jobs,
           jobs[j] = "queued" => jobs'[j] = "queued"
    PROVE  InboxAt(j)'
  BY DEF ChargeInv, InboxAt, Prints

\* The rest of a channel asks for what is left of it.
LEMMA InboxTail ==
    ASSUME TypeOK, ChargeInv, inbox[Worker] # <<>>, inbox'[Worker] = Tail(inbox[Worker]),
           NEW j \in Jobs,
           jobs[j] = "queued" => jobs'[j] = "queued" \/ Prints(Head(inbox[Worker]), j)
    PROVE  InboxAt(j)'
  <1> DEFINE s == inbox[Worker]
  <1>1. s \in Seq(Commands) /\ s # <<>>
    BY DEF TypeOK, Workers
  <1>2. /\ Len(s) \in Nat \ {0} /\ DOMAIN s = 1..Len(s) /\ Head(s) = s[1]
        /\ DOMAIN Tail(s) = 1..(Len(s) - 1)
        /\ \A i \in 1..(Len(s) - 1) : Tail(s)[i] = s[i + 1]
    BY <1>1
  <1>3. \A i \in DOMAIN s : Prints(s[i], j) =>
            /\ jobs[j] = "queued"
            /\ \A k \in DOMAIN s : Prints(s[k], j) => k = i
    BY DEF ChargeInv, InboxAt
  <1> SUFFICES ASSUME NEW i \in DOMAIN Tail(s), Prints(Tail(s)[i], j)
               PROVE  /\ jobs'[j] = "queued"
                      /\ \A k \in DOMAIN Tail(s) : Prints(Tail(s)[k], j) => k = i
    BY DEF InboxAt, Prints
  <1>4. i + 1 \in DOMAIN s /\ Prints(s[i + 1], j) /\ i + 1 # 1 /\ 1 \in DOMAIN s /\ i \in Nat
    BY <1>2
  <1>5. jobs[j] = "queued" /\ ~Prints(Head(s), j)
    BY <1>2, <1>3, <1>4
  <1>6. ASSUME NEW k \in DOMAIN Tail(s), Prints(Tail(s)[k], j) PROVE k = i
    <2>1. k + 1 \in DOMAIN s /\ Prints(s[k + 1], j) /\ k \in Nat
      BY <1>2, <1>6
    <2>2. k + 1 = i + 1
      BY <1>3, <1>4, <2>1
    <2> QED BY <1>4, <2>1, <2>2
  <1> QED BY <1>5, <1>6

\* A command more in the channel: no job's, or that of a job nobody asked for.
LEMMA InboxGrows ==
    ASSUME TypeOK, ChargeInv, NEW c \in Commands, Post(c), NEW j \in Jobs,
           jobs[j] = "queued" => jobs'[j] = "queued",
           Prints(c, j) => jobs[j] = "new" /\ jobs'[j] = "queued"
    PROVE  InboxAt(j)'
  <1> DEFINE s == inbox[Worker]
  <1>1. s \in Seq(Commands) /\ inbox'[Worker] = Append(s, c)
    BY DEF TypeOK, Workers, Post
  <1>2. /\ Len(s) \in Nat /\ DOMAIN s = 1..Len(s) /\ DOMAIN Append(s, c) = 1..(Len(s) + 1)
        /\ Append(s, c)[Len(s) + 1] = c
        /\ \A i \in 1..Len(s) : Append(s, c)[i] = s[i]
    BY <1>1
  <1>3. \A i \in DOMAIN s : Prints(s[i], j) =>
            /\ jobs[j] = "queued"
            /\ \A k \in DOMAIN s : Prints(s[k], j) => k = i
    BY DEF ChargeInv, InboxAt
  <1>4. \A i \in DOMAIN Append(s, c) : i \in DOMAIN s \/ i = Len(s) + 1
    BY <1>2
  <1> SUFFICES ASSUME NEW i \in DOMAIN Append(s, c), Prints(Append(s, c)[i], j)
               PROVE  /\ jobs'[j] = "queued"
                      /\ \A k \in DOMAIN Append(s, c) : Prints(Append(s, c)[k], j) => k = i
    BY <1>1 DEF InboxAt, Prints
  <1>5. CASE Prints(c, j)
    <2>1. \A k \in DOMAIN s : ~Prints(s[k], j)
      BY <1>3, <1>5
    <2> QED BY <1>2, <1>4, <1>5, <2>1
  <1>6. CASE ~Prints(c, j)
    BY <1>2, <1>3, <1>4, <1>6
  <1> QED BY <1>5, <1>6

LEMMA OnceStay == ChargedOnce /\ ledger' = ledger => ChargedOnce'
  BY DEF ChargedOnce

\* An append gives a job no line but its own, and that one once.
LEMMA WriteLines ==
    ASSUME ledger \in Seq(Lines), NEW l \in Lines, Write(l) \/ ledger' = ledger, NEW j \in Jobs,
           j # l.why \/ NoLine(j),
           Cardinality({i \in DOMAIN ledger : ledger[i].why = j}) <= 1
    PROVE  /\ j # l.why /\ NoLine(j) => NoLine(j)'
           /\ Cardinality({i \in DOMAIN ledger' : ledger'[i].why = j}) <= 1
  <1> DEFINE lines == {i \in DOMAIN ledger : ledger[i].why = j}
             linesNext == {i \in DOMAIN ledger' : ledger'[i].why = j}
  <1>1. NoLine(j) <=> lines = {}
    BY DEF NoLine
  <1>2. NoLine(j)' <=> linesNext = {}
    BY DEF NoLine
  <1>3. CASE ledger' = ledger
    BY <1>3 DEF NoLine
  <1>4. CASE ledger' = Append(ledger, l)
    <2>1. /\ DOMAIN ledger' = 1..(Len(ledger) + 1) /\ ledger'[Len(ledger) + 1] = l
          /\ DOMAIN ledger = 1..Len(ledger) /\ Len(ledger) \in Nat
          /\ \A i \in 1..Len(ledger) : ledger'[i] = ledger[i]
      BY <1>4
    <2>2. CASE j # l.why
      <3>1. linesNext = lines
        BY <2>1, <2>2
      <3> QED BY <1>1, <1>2, <3>1
    <2>3. CASE j = l.why
      <3>1. linesNext = {Len(ledger) + 1}
        BY <2>1, <2>3 DEF NoLine
      <3>2. Cardinality(linesNext) = 1
        <4> HIDE DEF linesNext
        <4> QED BY <3>1, FS_Singleton
      <3> QED BY <2>3, <3>2
    <2> QED BY <2>2, <2>3
  <1>5. ASSUME NEW x \in {Torn, Damaged}, ledger[Len(ledger)] = Torn,
               ledger' = [ledger EXCEPT ![Len(ledger)] = x]
        PROVE  linesNext = lines
    <2>1. x.why # j /\ Torn.why # j
      BY UnreadableTypes
    <2> HIDE DEF Torn, Damaged
    <2> QED BY <1>5, <2>1
  <1> QED BY <1>1, <1>2, <1>3, <1>4, <1>5, WriteDoes

\* An open line belongs to no job.
LEMMA TearLines ==
    ASSUME TypeOK, ChargeInv, Write(Torn) \/ ledger' = ledger
    PROVE  ChargedOnce' /\ \A j \in Jobs : NoLine(j) => NoLine(j)'
  <1>1. Torn \in Lines /\ Torn.why \notin Jobs /\ ledger \in Seq(Lines)
    BY UnreadableTypes DEF TypeOK
  <1>2. \A j \in Jobs : Cardinality({i \in DOMAIN ledger : ledger[i].why = j}) <= 1
    BY DEF ChargeInv, ChargedOnce
  <1> QED BY <1>1, <1>2, WriteLines DEF ChargedOnce

LEMMA OperatorCharges ==
    ASSUME TypeOK, ChargeInv,
           \/ Load(Worker) \/ Edit(Worker) \/ Unload(Worker) \/ RemoveFile(Worker)
           \/ Adjust(Worker) \/ Maintain(Worker) \/ Probe(Worker)
    PROVE  ChargeInv'
  <1>1. UNCHANGED <<ledger, jobs>> /\ Forward
    BY OperatorDoes DEF Forward
  <1>2. \A j \in Jobs : InboxAt(j)'
    <2>1. CASE inbox' = inbox
      BY <1>1, <2>1, InboxStay
    <2>2. CASE /\ inbox[Worker] # <<>> /\ inbox'[Worker] = Tail(inbox[Worker])
               /\ Head(inbox[Worker]).op # "print"
      BY <1>1, <2>2, InboxTail
    <2> QED BY <2>1, <2>2, OperatorDoes
  <1>3. WorkAt(Worker)'
    <2>1. work'[Worker].why \notin Jobs
      <3>1. work[Worker].why \notin Jobs
        BY OperatorDoes DEF ChargeInv, WorkAt, Threads, Workers
      <3> QED BY <3>1, OperatorDoes, WordsAssumption
    <2> QED BY <2>1, OperatorDoes DEF WorkAt
  <1>4. WorkAt(Main)'
    BY <1>1, OperatorDoes, WorkStay DEF Threads
  <1>5. \A j \in Jobs : FreshAt(j)'
    BY <1>1, FreshStay
  <1>6. ChargedOnce'
    BY <1>1, OnceStay DEF ChargeInv
  <1> QED BY <1>2, <1>3, <1>4, <1>5, <1>6 DEF ChargeInv, Threads, Workers

\* A job in hand has been asked for, is delivered, recorded and charged.
LEMMA DeliveryCharges ==
    ASSUME TypeOK, ChargeInv,
           Deliver(Worker) \/ Accept(Worker) \/ NotAccepted(Worker) \/ Consume(Worker)
    PROVE  ChargeInv'
  <1>1. /\ Worker \in Threads /\ Main \in Threads /\ Main # Worker
        /\ jobs \in [Jobs -> {"new", "queued", "writing", "accepted", "failed", "unknown"}]
        /\ "edit" \notin Jobs
    BY ThreadsAssumption, WordsAssumption DEF TypeOK, Threads, Workers, Words
  <1>2. ledger' = ledger
    BY DEF Deliver, Accept, NotAccepted, Consume, fileVars
  <1>3. ASSUME Forward, \A j \in Jobs : InboxAt(j)', WorkAt(Worker)',
               tpc'[Main] = tpc[Main], work'[Main] = work[Main]
        PROVE  ChargeInv'
    <2>1. WorkAt(Main)'
      BY <1>1, <1>2, <1>3, WorkStay
    <2>2. \A j \in Jobs : FreshAt(j)'
      BY <1>2, <1>3, FreshStay
    <2>3. ChargedOnce'
      BY <1>2, OnceStay DEF ChargeInv
    <2> QED BY <1>3, <2>1, <2>2, <2>3 DEF ChargeInv, Threads, Workers
  <1>4. CASE Deliver(Worker)
    <2>0. PICK j : j = Head(inbox[Worker]).job
      OBVIOUS
    <2>1. /\ Take(Worker, "print") /\ jobs' = [jobs EXCEPT ![j] = "writing"]
          /\ Make(Worker, [Idle EXCEPT !.why = j]) /\ At(Worker, "deliver")
      BY <1>4, <2>0 DEF Deliver
    <2>2. /\ inbox[Worker] \in Seq(Commands) /\ inbox[Worker] # <<>>
          /\ inbox'[Worker] = Tail(inbox[Worker]) /\ Head(inbox[Worker]).op = "print"
      BY <2>1, TakeOf
    <2>3. j \in Jobs
      BY <2>0, <2>2, HeadTailProperties, CommandForm
    <2>4. jobs[j] = "queued"
      <3>1. 1 \in DOMAIN inbox[Worker] /\ Prints(inbox[Worker][1], j)
        BY <2>0, <2>2 DEF Prints
      <3> QED BY <2>3, <3>1 DEF ChargeInv, InboxAt
    <2>5. Forward /\ jobs'[j] = "writing" /\ \A k \in Jobs : k # j => jobs'[k] = jobs[k]
      BY <1>1, <2>1, <2>3 DEF Forward
    <2>6. \A k \in Jobs : InboxAt(k)'
      <3>1. \A k \in Jobs : k = j => Prints(Head(inbox[Worker]), k)
        BY <2>0, <2>2 DEF Prints
      <3> QED BY <2>2, <2>5, <3>1, InboxTail
    <2>7. NoLine(j)'
      BY <1>2, <2>3, <2>4 DEF ChargeInv, FreshAt, NoLine
    <2>8. /\ tpc'[Worker] = "deliver" /\ work'[Worker] = [Idle EXCEPT !.why = j]
          /\ tpc'[Main] = tpc[Main] /\ work'[Main] = work[Main]
      BY <1>1, <2>1, MoveOf
    <2>9. work'[Worker].why = j
      BY <2>3, <2>8, IdleType DEF Works
    <2>10. WorkAt(Worker)'
      BY <2>5, <2>7, <2>8, <2>9 DEF WorkAt
    <2> QED BY <1>3, <2>5, <2>6, <2>8, <2>10
  <1>5. CASE Accept(Worker)
    <2> DEFINE j == work[Worker].why
    <2>1. /\ tpc[Worker] = "deliver" /\ At(Worker, "charge") /\ UNCHANGED <<inbox, work>>
          /\ jobs' = jobs \/ jobs' = [jobs EXCEPT ![j] = "accepted"]
      BY <1>5 DEF Accept
    <2>2. j \in Jobs /\ jobs[j] \notin {"new", "queued"} /\ NoLine(j)
      BY <1>1, <2>1 DEF TypeOK, ChargeInv, WorkAt
    <2>3. /\ Forward /\ jobs'[j] \notin {"new", "queued"}
          /\ \A k \in Jobs : jobs[k] = "queued" => jobs'[k] = "queued"
      BY <1>1, <2>1, <2>2 DEF Forward
    <2>4. \A k \in Jobs : InboxAt(k)'
      BY <2>1, <2>3, InboxStay
    <2>5. tpc'[Worker] = "charge" /\ tpc'[Main] = tpc[Main]
      BY <1>1, <2>1, MoveOf
    <2>6. WorkAt(Worker)'
      BY <1>2, <2>1, <2>2, <2>3, <2>5 DEF WorkAt, NoLine
    <2> QED BY <1>3, <2>1, <2>3, <2>4, <2>5, <2>6
  <1>6. CASE NotAccepted(Worker)
    <2> DEFINE j == work[Worker].why
    <2>1. /\ tpc[Worker] = "deliver" /\ Done(Worker) /\ UNCHANGED inbox
          /\ jobs' = [jobs EXCEPT ![j] = "failed"]
      BY <1>6 DEF NotAccepted
    <2>2. j \in Jobs /\ jobs[j] \notin {"new", "queued"}
      BY <1>1, <2>1 DEF TypeOK, ChargeInv, WorkAt
    <2>3. Forward /\ \A k \in Jobs : jobs[k] = "queued" => jobs'[k] = "queued"
      BY <1>1, <2>1, <2>2 DEF Forward
    <2>4. \A k \in Jobs : InboxAt(k)'
      BY <2>1, <2>3, InboxStay
    <2>5. WorkAt(Worker)' /\ tpc'[Main] = tpc[Main] /\ work'[Main] = work[Main]
      BY <1>1, <2>1, DoneOf DEF WorkAt
    <2> QED BY <1>3, <2>3, <2>4, <2>5
  <1>7. CASE Consume(Worker)
    <2> DEFINE j == work[Worker].why
    <2>1. tpc[Worker] = "charge" /\ UNCHANGED <<inbox, jobs>>
      BY <1>7 DEF Consume
    <2>2. Forward /\ \A k \in Jobs : InboxAt(k)'
      BY <2>1, InboxStay DEF Forward
    <2>3. j \in Jobs /\ jobs[j] \notin {"new", "queued"} /\ NoLine(j)
      BY <1>1, <2>1 DEF TypeOK, ChargeInv, WorkAt
    <2>4. CASE Charge(Worker, Debited(media, Labels[j]), Labels[j], j)
      <3>1. /\ tpc'[Worker] = "append" /\ tpc'[Main] = tpc[Main] /\ work'[Main] = work[Main]
            /\ work'[Worker].why = j /\ work'[Worker].line.why = j
        BY <1>1, <2>4, MoveOf, WhyOf DEF Charge
      <3>2. WorkAt(Worker)'
        BY <1>2, <2>1, <2>3, <3>1 DEF WorkAt, NoLine
      <3> QED BY <1>3, <2>2, <3>1, <3>2
    <2>5. CASE Done(Worker)
      <3>1. WorkAt(Worker)' /\ tpc'[Main] = tpc[Main] /\ work'[Main] = work[Main]
        BY <1>1, <2>5, DoneOf DEF WorkAt
      <3> QED BY <1>3, <2>2, <3>1
    <2> QED BY <1>7, <2>4, <2>5 DEF Consume
  <1> QED BY <1>4, <1>5, <1>6, <1>7

\* The line of a job is written while it has none.
LEMMA AppendCharges ==
    ASSUME TypeOK, ChargeInv, NEW t \in Threads, AppendLine(t)
    PROVE  ChargeInv'
  <1> DEFINE l == work[t].line
  <1>1. /\ UNCHANGED <<inbox, jobs>> /\ Forward /\ tpc[t] = "append"
        /\ l.why = work[t].why /\ l \in Lines /\ ledger \in Seq(Lines)
    BY DEF AppendLine, Forward, ChargeInv, WorkAt, TypeOK, Works
  <1>2. (ledger' = ledger \/ Write(Torn)) \/ Write(l)
    BY AppendsOf
  <1>3. \A j \in Jobs : InboxAt(j)'
    BY <1>1, InboxStay
  <1>4. ASSUME NEW j \in Jobs
        PROVE  /\ j # l.why /\ NoLine(j) => NoLine(j)'
               /\ Cardinality({i \in DOMAIN ledger' : ledger'[i].why = j}) <= 1
    <2>1. CASE ledger' = ledger \/ Write(Torn)
      BY <2>1, TearLines DEF ChargedOnce
    <2>2. CASE Write(l)
      <3>1. j # l.why \/ NoLine(j)
        BY <1>1 DEF ChargeInv, WorkAt
      <3>2. Cardinality({i \in DOMAIN ledger : ledger[i].why = j}) <= 1
        BY DEF ChargeInv, ChargedOnce
      <3> HIDE DEF l
      <3> QED BY <1>1, <2>2, <3>1, <3>2, WriteLines
    <2> QED BY <1>2, <2>1, <2>2
  <1>5. ASSUME NEW j \in Jobs PROVE FreshAt(j)'
    <2> SUFFICES ASSUME jobs'[j] \in {"new", "queued"} PROVE NoLine(j)'
      BY DEF FreshAt
    <2>1. jobs[j] \in {"new", "queued"} /\ NoLine(j)
      BY <1>1 DEF ChargeInv, FreshAt
    <2>2. j # l.why
      BY <1>1, <2>1 DEF ChargeInv, WorkAt
    <2> QED BY <1>4, <2>1, <2>2
  <1>6. \/ At(t, "save") /\ UNCHANGED work
        \/ Done(t)
    BY DEF AppendLine, GiveUp
  <1>7. ASSUME NEW u \in Threads, u # t PROVE WorkAt(u)'
    <2>1. tpc'[u] = tpc[u] /\ work'[u] = work[u] /\ WorkAt(u) /\ WorkAt(t)
      BY <1>6, <1>7, MoveOf, DoneOf DEF ChargeInv
    <2>2. work[u].why \in Jobs => work[u].why # l.why
      BY <1>1, <1>7, <2>1 DEF WorkAt
    <2> QED BY <1>1, <1>4, <2>1, <2>2 DEF WorkAt
  <1>8. WorkAt(t)'
    <2>1. CASE At(t, "save") /\ UNCHANGED work
      BY <1>1, <2>1, MoveOf DEF ChargeInv, WorkAt
    <2>2. CASE Done(t)
      BY <2>2, DoneOf, WordsAssumption DEF WorkAt, Words
    <2> QED BY <1>6, <2>1, <2>2
  <1>9. ChargedOnce'
    BY <1>4 DEF ChargedOnce
  <1> QED BY <1>3, <1>5, <1>7, <1>8, <1>9 DEF ChargeInv

LEMMA SaveCharges ==
    ASSUME TypeOK, ChargeInv, NEW t \in Threads, SaveMedia(t)
    PROVE  ChargeInv'
  <1>1. UNCHANGED <<inbox, jobs, ledger>> /\ Forward
    BY DEF SaveMedia, Forward
  <1>2. Done(t) \/ (At(t, "mark") /\ Make(t, Idle))
    BY DEF SaveMedia, GiveUp
  <1>3. WorkAt(t)' /\ \A u \in Threads : u # t => tpc'[u] = tpc[u] /\ work'[u] = work[u]
    <2>1. "edit" \notin Jobs
      BY WordsAssumption DEF Words
    <2> QED BY <1>2, <2>1, DoneOf, MoveOf, WhyOf DEF WorkAt
  <1>4. \A u \in Threads : u # t => WorkAt(u)'
    BY <1>1, <1>3, WorkStay
  <1>5. \A j \in Jobs : FreshAt(j)' /\ InboxAt(j)'
    BY <1>1, FreshStay, InboxStay
  <1>6. ChargedOnce'
    BY <1>1, OnceStay DEF ChargeInv
  <1> QED BY <1>3, <1>4, <1>5, <1>6 DEF ChargeInv

\* After a restart the queued jobs are asked for again, each once; those that
\* were being delivered are not.
LEMMA ServeInbox ==
    ASSUME TypeOK, Serve, NEW j \in Jobs
    PROVE  InboxAt(j)'
  <1>1. PICK s \in SetToSeqs(ToPrint) :
            inbox' = [inbox EXCEPT ![Worker] =
                          [i \in DOMAIN s |-> [op |-> "print", job |-> s[i]]]]
    BY DEF Serve
  <1>2. inbox'[Worker] = [i \in DOMAIN s |-> [op |-> "print", job |-> s[i]]]
    BY <1>1 DEF TypeOK, Workers
  <1>3. /\ \A i \in DOMAIN s : s[i] \in ToPrint
        /\ \A i, k \in DOMAIN s : s[i] = s[k] => i = k
    BY DEF SetToSeqs
  <1>4. \A i \in DOMAIN inbox'[Worker] : Prints(inbox'[Worker][i], j) <=> s[i] = j
    BY <1>2 DEF Prints
  <1>5. ASSUME j \in ToPrint PROVE jobs'[j] = "queued"
    BY <1>5 DEF Serve, ToPrint
  <1> QED BY <1>2, <1>3, <1>4, <1>5 DEF InboxAt, Prints

LEMMA MainCharges ==
    ASSUME TypeOK, ChargeInv, Start \/ MarkBoot \/ Serve
    PROVE  ChargeInv'
  <1>1. /\ Worker \in Threads /\ Main \in Threads /\ Main # Worker
        /\ "edit" \notin Jobs /\ "boot" \notin Jobs
        /\ jobs \in [Jobs -> {"new", "queued", "writing", "accepted", "failed", "unknown"}]
    BY ThreadsAssumption, WordsAssumption DEF Threads, Workers, Words, TypeOK
  <1>2. ledger' = ledger /\ Forward
    BY DEF Start, MarkBoot, Serve, fileVars, Forward
  <1>3. \A j \in Jobs : InboxAt(j)'
    <2>1. CASE Start \/ MarkBoot
      BY <2>1, InboxStay DEF Start, MarkBoot, fileVars
    <2> QED BY <2>1, ServeInbox
  <1>4. WorkAt(Main)' /\ tpc'[Worker] = tpc[Worker] /\ work'[Worker] = work[Worker]
    <2>1. ASSUME NEW pc \in {"ready", "mark", "idle"}, At(Main, pc), UNCHANGED work
          PROVE  WorkAt(Main)' /\ tpc'[Worker] = tpc[Worker] /\ work'[Worker] = work[Worker]
      BY <1>1, <2>1, MoveOf DEF ChargeInv, WorkAt
    <2>2. ASSUME Charge(Main, Estimated(media, BootLoss), BootLoss, "boot")
          PROVE  WorkAt(Main)' /\ tpc'[Worker] = tpc[Worker] /\ work'[Worker] = work[Worker]
      BY <1>1, <2>2, MoveOf, WhyOf DEF Charge, WorkAt
    <2>3. ASSUME GiveUp(Main)
          PROVE  WorkAt(Main)' /\ tpc'[Worker] = tpc[Worker] /\ work'[Worker] = work[Worker]
      BY <1>1, <2>3, DoneOf DEF GiveUp, WorkAt
    <2>4. CASE Start
      BY <2>1, <2>2, <2>4 DEF Start
    <2>5. CASE MarkBoot
      BY <2>1, <2>3, <2>5 DEF MarkBoot
    <2>6. CASE Serve
      BY <2>1, <2>6 DEF Serve
    <2> QED BY <2>4, <2>5, <2>6
  <1>5. WorkAt(Worker)'
    BY <1>1, <1>2, <1>4, WorkStay
  <1>6. \A j \in Jobs : FreshAt(j)'
    BY <1>2, FreshStay
  <1>7. ChargedOnce'
    BY <1>2, OnceStay DEF ChargeInv
  <1> QED BY <1>3, <1>4, <1>5, <1>6, <1>7 DEF ChargeInv, Threads, Workers

\* Only a new job is asked for.
LEMMA RequestCharges ==
    ASSUME TypeOK, ChargeInv, Request \/ RequestEdit \/ \E j \in Jobs : Submit(j)
    PROVE  ChargeInv'
  <1>1. /\ ledger' = ledger /\ UNCHANGED <<tpc, work>>
        /\ jobs \in [Jobs -> {"new", "queued", "writing", "accepted", "failed", "unknown"}]
    BY DEF Request, RequestEdit, Submit, Post, fileVars, threadVars, TypeOK
  <1>2. Forward /\ \A j \in Jobs : InboxAt(j)'
    <2>1. CASE Request
      <3>1. PICK c \in Ops : Post(c) /\ UNCHANGED jobs
        BY <2>1 DEF Request
      <3>2. c \in Commands /\ c.op # "print"
        BY DEF Commands, Ops
      <3> QED BY <3>1, <3>2, InboxGrows DEF Prints, Forward
    <2>2. CASE RequestEdit
      <3>1. PICK d \in Definitions : /\ Post([op |-> "edit", seen |-> media, def |-> d])
                                     /\ UNCHANGED jobs /\ media # None
        BY <2>2 DEF RequestEdit
      <3> DEFINE c == [op |-> "edit", seen |-> media, def |-> d]
      <3>2. c \in Commands /\ c.op # "print"
        BY <3>1 DEF Commands, TypeOK
      <3> QED BY <3>1, <3>2, InboxGrows DEF Prints, Forward
    <2>3. ASSUME NEW r \in Jobs, Submit(r) PROVE Forward /\ \A j \in Jobs : InboxAt(j)'
      <3> DEFINE c == [op |-> "print", job |-> r]
      <3>1. Post(c) /\ jobs[r] = "new" /\ jobs' = [jobs EXCEPT ![r] = "queued"]
        BY <2>3 DEF Submit
      <3>2. c \in Commands /\ \A j \in Jobs : Prints(c, j) => j = r
        BY DEF Commands, Prints
      <3>3. /\ jobs'[r] = "queued" /\ Forward
            /\ \A j \in Jobs : jobs[j] = "queued" => jobs'[j] = "queued"
        BY <1>1, <3>1 DEF Forward
      <3> QED BY <3>1, <3>2, <3>3, InboxGrows
    <2> QED BY <2>1, <2>2, <2>3
  <1>3. \A t \in Threads : WorkAt(t)'
    BY <1>1, <1>2, WorkStay
  <1>4. \A j \in Jobs : FreshAt(j)'
    BY <1>1, <1>2, FreshStay
  <1>5. ChargedOnce'
    BY <1>1, OnceStay DEF ChargeInv
  <1> QED BY <1>2, <1>3, <1>4, <1>5 DEF ChargeInv

LEMMA StopCharges ==
    ASSUME TypeOK, ChargeInv, Crash \/ HostBoot \/ UNCHANGED vars
    PROVE  ChargeInv'
  <1>1. UNCHANGED jobs /\ Forward /\ (ledger' = ledger \/ Write(Torn))
    BY AppendsOf DEF Crash, HostBoot, vars, fileVars, Forward
  <1>2. \A t \in Threads : WorkAt(t)'
    <2>1. CASE Crash
      <3>1. "edit" \notin Jobs
        BY WordsAssumption DEF Words
      <3> QED BY <2>1, <3>1, WhyOf DEF Crash, WorkAt
    <2>2. CASE HostBoot \/ UNCHANGED vars
      BY <1>1, <2>2, WorkStay DEF HostBoot, vars, fileVars, threadVars
    <2> QED BY <2>1, <2>2
  <1>3. ASSUME NEW j \in Jobs PROVE InboxAt(j)'
    <2>1. CASE Crash
      <3>1. inbox'[Worker] = <<>>
        BY <2>1 DEF Crash, Workers
      <3> QED BY <3>1 DEF InboxAt
    <2>2. CASE HostBoot \/ UNCHANGED vars
      BY <1>1, <2>2, InboxStay DEF HostBoot, vars
    <2> QED BY <2>1, <2>2
  <1>4. ChargedOnce' /\ \A j \in Jobs : NoLine(j) => NoLine(j)'
    BY <1>1, TearLines
  <1>5. \A j \in Jobs : FreshAt(j)'
    BY <1>1, <1>4 DEF ChargeInv, FreshAt
  <1> QED BY <1>2, <1>3, <1>4, <1>5 DEF ChargeInv

LEMMA ChargeInit == Init => ChargeInv
  <1> SUFFICES ASSUME Init PROVE ChargeInv
    OBVIOUS
  <1>1. ledger = <<>> /\ inbox[Worker] = <<>>
    BY DEF Init, Workers
  <1>2. \A j \in Jobs : FreshAt(j) /\ InboxAt(j)
    BY <1>1 DEF FreshAt, InboxAt, NoLine
  <1>3. \A t \in Threads : WorkAt(t)
    BY WordsAssumption, WhyOf DEF Init, WorkAt, Words
  <1>4. ASSUME NEW j \in Jobs
        PROVE  Cardinality({i \in DOMAIN ledger : ledger[i].why = j}) <= 1
    <2>1. {i \in DOMAIN ledger : ledger[i].why = j} = {}
      BY <1>1
    <2> QED BY <2>1, FS_EmptySet
  <1> QED BY <1>2, <1>3, <1>4 DEF ChargeInv, ChargedOnce

LEMMA ChargeNext == TypeOK /\ ChargeInv /\ [Next]_vars => ChargeInv'
  <1> SUFFICES ASSUME TypeOK, ChargeInv, [Next]_vars PROVE ChargeInv'
    OBVIOUS
  <1>1. CASE \E w \in Workers : WorkerStep(w)
    <2>1. WorkerStep(Worker) /\ Worker \in Threads
      BY <1>1 DEF Workers, Threads
    <2> QED BY <2>1, OperatorCharges, DeliveryCharges, AppendCharges, SaveCharges DEF WorkerStep
  <1>2. CASE MainStep
    <2>1. Main \in Threads
      BY DEF Threads
    <2> QED BY <1>2, <2>1, MainCharges, AppendCharges, SaveCharges DEF MainStep
  <1> QED BY <1>1, <1>2, RequestCharges, StopCharges DEF Next

\* A job has at most one line in the ledger, whatever crashes, restarts and
\* disk errors there are: a delivery that was interrupted is not resumed, and a
\* queued job is asked for once after every start.
THEOREM JobsChargedOnce == Spec => []ChargedOnce
  <1>1. ChargeInv => ChargedOnce
    BY DEF ChargeInv
  <1> QED BY <1>1, AccountTyped, ChargeInit, ChargeNext, PTL DEF Spec

-----------------------------------------------------------------------------
(* A boot is charged before the agent serves, and not after. *)

\* Steps that leave main and the boots alone.
LEMMA BootStay ==
    ASSUME TypeOK, TypeOK', BootInv, [Next]_vars, UNCHANGED bootVars,
           bootCharges' >= bootCharges, media' = media \/ bootFile = host,
           phase' = "up" => phase = "up",
           \/ tpc'[Main] = tpc[Main] /\ work'[Main] = work[Main]
           \/ tpc'[Main] = "idle",
           work'[Worker].why # "boot"
    PROVE  BootInv'
  <1>1. Within' /\ (Writable' => Writable)
    BY WithinStep DEF BootInv
  <1>2. Paid => Paid'
    BY <1>1 DEF Paid, TypeOK, bootVars
  <1> QED BY <1>1, <1>2 DEF BootInv, bootVars

\* While the worker runs, the boot is on file; it charges no boot.
LEMMA WorkerBoots ==
    ASSUME TypeOK, TypeOK', Serial, ChargeInv, BootInv, [Next]_vars, WorkerStep(Worker)
    PROVE  /\ BootInv'
           /\ UNCHANGED bootVars /\ bootCharges' = bootCharges
  <1>1. /\ Worker \in Threads /\ Main \in Threads /\ Main # Worker /\ Worker \in Workers
        /\ "edit" # "boot" /\ Jobs \cap Words = {} /\ "boot" \in Words
    BY ThreadsAssumption, WordsAssumption DEF Threads, Workers, Words
  <1>2. phase = "up" => bootFile = host
    BY DEF BootInv
  <1>3. ASSUME UNCHANGED <<bootVars, bootCharges>>, media' = media \/ phase = "up",
               phase' = phase, tpc'[Main] = tpc[Main], work'[Main] = work[Main],
               work'[Worker].why # "boot"
        PROVE  BootInv' /\ UNCHANGED bootVars /\ bootCharges' = bootCharges
    <2>1. bootCharges' >= bootCharges
      BY <1>3 DEF TypeOK
    <2> QED BY <1>2, <1>3, <2>1, BootStay
  <1>4. CASE \/ Load(Worker) \/ Edit(Worker) \/ Unload(Worker) \/ RemoveFile(Worker)
             \/ Adjust(Worker) \/ Maintain(Worker) \/ Probe(Worker)
    <2>1. work'[Worker].why # "boot"
      BY <1>4, OperatorDoes DEF BootInv
    <2> QED BY <1>3, <1>4, <2>1, OperatorDoes DEF sumVars
  <1>5. CASE Deliver(Worker)
    <2>0. PICK j : j = Head(inbox[Worker]).job
      OBVIOUS
    <2>1. Take(Worker, "print") /\ Make(Worker, [Idle EXCEPT !.why = j]) /\ At(Worker, "deliver")
          /\ media' = media
      BY <1>5, <2>0 DEF Deliver, fileVars
    <2>2. Head(inbox[Worker]) \in Commands /\ Head(inbox[Worker]).op = "print"
      BY <1>1, <2>1, TakeType
    <2>3. j \in Jobs
      BY <2>0, <2>2, CommandForm
    <2>4. work'[Worker].why = j
      BY <1>1, <2>1, <2>3, MoveOf, IdleType DEF Works
    <2> QED BY <1>1, <1>3, <2>1, <2>3, <2>4, TakeOf, MoveOf DEF sumVars
  <1>6. CASE Accept(Worker)
    BY <1>1, <1>3, <1>6, MoveOf DEF Accept, Quiet, fileVars, sumVars, BootInv
  <1>7. CASE NotAccepted(Worker)
    BY <1>1, <1>3, <1>7, DoneOf DEF NotAccepted, Quiet, fileVars, sumVars
  <1>8. CASE Consume(Worker)
    <2>1. work[Worker].why \in Jobs /\ UNCHANGED <<media, bootVars, phase, sumVars>>
      BY <1>8 DEF Consume, TypeOK, Quiet, fileVars, Threads, Workers
    <2>2. CASE Charge(Worker, Debited(media, Labels[work[Worker].why]),
                      Labels[work[Worker].why], work[Worker].why)
      BY <1>1, <1>3, <2>1, <2>2, MoveOf, WhyOf DEF Charge, sumVars
    <2>3. CASE Done(Worker)
      BY <1>1, <1>3, <2>1, <2>3, DoneOf DEF sumVars
    <2> QED BY <1>8, <2>2, <2>3 DEF Consume
  <1>9. CASE AppendLine(Worker)
    <2>1. UNCHANGED <<media, bootVars, sumVars>> /\ phase' = phase
      BY <1>1, <1>9 DEF AppendLine, GiveUp
    <2>2. (At(Worker, "save") /\ UNCHANGED work) \/ Done(Worker)
      BY <1>9 DEF AppendLine, GiveUp
    <2>3. /\ work'[Worker].why # "boot"
          /\ tpc'[Main] = tpc[Main] /\ work'[Main] = work[Main]
      BY <1>1, <2>2, MoveOf, DoneOf DEF BootInv
    <2> QED BY <1>3, <2>1, <2>3 DEF sumVars
  <1>10. CASE SaveMedia(Worker)
    <2>1. phase = "up" /\ UNCHANGED bootVars /\ phase' = phase /\ Done(Worker)
      BY <1>1, <1>10 DEF SaveMedia, Serial
    <2>2. bootCharges' = bootCharges
      BY <1>1, <1>10 DEF SaveMedia, Account, sumVars, BootInv
    <2> QED BY <1>1, <1>3, <2>1, <2>2, DoneOf
  <1> QED BY <1>4, <1>5, <1>6, <1>7, <1>8, <1>9, <1>10 DEF WorkerStep

\* main compares, charges, and only then writes the boot; a boot that is on file
\* has been charged, so a start that finds it there charges nothing.
LEMMA MainBoots ==
    ASSUME TypeOK, TypeOK', Serial, BootInv, [Next]_vars, MainStep
    PROVE  /\ BootInv'
           /\ served /\ served' => bootCharges' = bootCharges
  <1>1. /\ Worker \in Threads /\ Main \in Threads /\ Main # Worker
        /\ Within' /\ (Writable' => Writable) /\ "edit" # "boot"
    BY ThreadsAssumption, WithinStep DEF Threads, Workers, BootInv
  <1>2. ASSUME bootDue' = bootDue, bootCharges' >= bootCharges, Paid PROVE Paid'
    BY <1>1, <1>2 DEF Paid, TypeOK
  <1>3. CASE Start
    <2>1. PICK unreadable \in BOOLEAN :
        /\ Spend("fault", IF unreadable THEN 1 ELSE 0)
        /\ IF bootFile = host /\ ~unreadable THEN At(Main, "ready") /\ UNCHANGED work
           ELSE IF bootFile = None \/ unreadable \/ media = None \/ BootLoss = 0
           THEN At(Main, "mark") /\ UNCHANGED work
           ELSE Charge(Main, Estimated(media, BootLoss), BootLoss, "boot")
      BY <1>3 DEF Start
    <2>2. /\ UNCHANGED <<media, bootVars, sumVars>> /\ phase' = "booting"
          /\ bootCharges' = bootCharges /\ bootCharges \in Nat
      BY <1>3 DEF Start, fileVars, sumVars, TypeOK
    <2>3. work'[Worker] = work[Worker]
      BY <1>1, <2>1, MoveOf DEF Charge
    <2>4. (bootFile = host => Paid)'
      BY <1>2, <2>2 DEF BootInv, bootVars
    <2>5. CASE bootFile = host /\ At(Main, "ready")
      <3>1. tpc'[Main] = "ready"
        BY <1>1, <2>5, MoveOf
      <3> QED BY <1>1, <2>2, <2>3, <2>4, <2>5, <3>1 DEF BootInv, bootVars
    <2>6. CASE /\ bootFile = None \/ unreadable \/ media = None \/ BootLoss = 0
               /\ At(Main, "mark")
      <3>1. tpc'[Main] = "mark"
        BY <1>1, <2>6, MoveOf
      <3>2. Paid'
        <4>1. unreadable => ~Writable'
          BY <2>1 DEF Spend, Writable, TypeOK, BootInv, Within
        <4>2. bootFile = host => Paid'
          BY <2>2, <2>4 DEF bootVars
        <4>3. BootLoss = 0 => Paid'
          BY DEF Paid
        <4>4. bootFile # host /\ (bootFile = None \/ media = None) => ~bootDue'
          BY <2>2 DEF BootInv, bootVars
        <4> QED BY <2>6, <4>1, <4>2, <4>3, <4>4 DEF Paid
      <3> QED BY <1>1, <2>2, <2>3, <2>4, <3>1, <3>2 DEF BootInv, bootVars
    <2>7. CASE /\ bootFile # host
               /\ Charge(Main, Estimated(media, BootLoss), BootLoss, "boot")
      <3>1. tpc'[Main] = "append" /\ work'[Main].why = "boot"
        BY <1>1, <2>7, MoveOf, WhyOf DEF Charge
      <3> QED BY <1>1, <2>2, <2>3, <2>4, <2>7, <3>1 DEF BootInv, bootVars
    <2> QED BY <2>1, <2>2, <2>5, <2>6, <2>7
  <1>4. CASE AppendLine(Main)
    <2>1. /\ UNCHANGED <<media, bootVars, sumVars>> /\ phase' \in {phase, "down"}
          /\ bootCharges' = bootCharges
      BY <1>4 DEF AppendLine, GiveUp, sumVars
    <2>2. (At(Main, "save") /\ UNCHANGED work) \/ Done(Main)
      BY <1>4 DEF AppendLine, GiveUp
    <2>3. CASE At(Main, "save") /\ UNCHANGED work
      <3>1. /\ tpc'[Main] = "save" /\ work' = work
            /\ work[Main].why = "boot" /\ ~served
        BY <1>1, <1>4, <2>3, MoveOf DEF BootInv, AppendLine
      <3>2. (bootFile = host => Paid)'
        BY <1>2, <2>1 DEF BootInv, bootVars, TypeOK
      <3> QED BY <1>1, <2>1, <3>1, <3>2 DEF BootInv, bootVars
    <2>4. CASE Done(Main)
      <3>1. tpc'[Main] = "idle" /\ work'[Worker] = work[Worker]
        BY <1>1, <2>4, DoneOf
      <3>2. work'[Worker].why # "boot" /\ bootCharges' >= bootCharges
        BY <2>1, <3>1 DEF BootInv, TypeOK
      <3> QED BY <2>1, <3>1, <3>2, BootStay
    <2> QED BY <2>2, <2>3, <2>4
  <1>5. CASE SaveMedia(Main)
    <2>1. PICK o \in Outcomes :
        /\ Spend("fault", Faults(o))
        /\ IF Landed(o) THEN media' = work[Main].draft /\ Account(work[Main])
                        ELSE UNCHANGED <<media, sumVars>>
        /\ IF o = "ok" THEN At(Main, "mark") /\ Make(Main, Idle) /\ UNCHANGED phase
           ELSE GiveUp(Main)
      BY <1>5 DEF SaveMedia
    <2>2. /\ UNCHANGED bootVars /\ phase' \in {phase, "down"} /\ ~served
          /\ work[Main].why = "boot" /\ work[Main] \in Works
      BY <1>1, <1>5 DEF SaveMedia, GiveUp, BootInv, TypeOK
    <2>3. media' # None \/ media' = media
      <3>1. work[Main].draft # None
        BY <2>2, NoneAssumption DEF Works
      <3> QED BY <2>1, <3>1
    <2>4. /\ bootCharges' \in {bootCharges, bootCharges + 1} /\ bootCharges \in Nat
          /\ Landed(o) => bootCharges' = bootCharges + 1
      BY <2>1, <2>2 DEF Account, sumVars, TypeOK
    <2>5. bootCharges' >= bootCharges
      BY <2>4
    <2>6. (bootFile = host => Paid)'
      BY <1>2, <2>2, <2>5 DEF BootInv, bootVars
    <2>7. CASE o = "ok" /\ At(Main, "mark") /\ Make(Main, Idle)
      <3>1. tpc'[Main] = "mark" /\ work'[Worker] = work[Worker]
        BY <1>1, <2>7, MoveOf
      <3>2. Paid'
        BY <2>4, <2>7 DEF Paid, Landed
      <3> QED BY <1>1, <2>2, <2>3, <2>6, <3>1, <3>2 DEF BootInv, bootVars
    <2>8. CASE GiveUp(Main)
      <3>1. tpc'[Main] = "idle" /\ work'[Worker] = work[Worker]
        BY <1>1, <2>8, DoneOf DEF GiveUp
      <3> QED BY <1>1, <2>2, <2>3, <2>6, <3>1 DEF BootInv, bootVars
    <2> QED BY <2>1, <2>7, <2>8
  <1>6. CASE MarkBoot
    <2>1. PICK o \in Outcomes :
        /\ bootFile' = IF Landed(o) THEN host ELSE bootFile
        /\ IF o = "ok" THEN At(Main, "ready") /\ UNCHANGED <<work, phase>> ELSE GiveUp(Main)
      BY <1>6 DEF MarkBoot
    <2>2. /\ UNCHANGED <<media, host, bootDue, served, bootCharges>> /\ Paid
          /\ phase' \in {phase, "down"} /\ host \in Nat /\ bootCharges \in Nat
          /\ host # None
      BY <1>6, <2>1, NoneAssumption DEF MarkBoot, GiveUp, BootInv, fileVars, sumVars, TypeOK
    <2>3. Paid'
      BY <1>2, <2>2
    <2>4. /\ work'[Worker] = work[Worker] /\ tpc'[Main] \in {"ready", "idle"}
          /\ tpc'[Main] = "ready" => o = "ok"
      BY <1>1, <2>1, MoveOf, DoneOf DEF GiveUp
    <2>5. bootFile' \in {bootFile, host} /\ (o = "ok" => bootFile' = host)
      BY <2>1 DEF Landed
    <2> QED BY <1>1, <2>2, <2>3, <2>4, <2>5 DEF BootInv
  <1>7. CASE Serve
    <2>1. /\ UNCHANGED <<media, bootFile, host, bootDue, bootCharges, work>>
          /\ tpc'[Main] = "idle" /\ bootFile = host /\ bootCharges \in Nat
      BY <1>1, <1>7, MoveOf DEF Serve, fileVars, sumVars, BootInv, TypeOK
    <2>2. (bootFile = host => Paid)'
      BY <1>2, <2>1 DEF BootInv
    <2> QED BY <1>1, <2>1, <2>2 DEF BootInv
  <1> QED BY <1>3, <1>4, <1>5, <1>6, <1>7 DEF MainStep

\* A boot of the host owes a charge if a roll was loaded; it is on no file yet.
LEMMA OutsideBoots ==
    ASSUME TypeOK, TypeOK', Serial, BootInv, [Next]_vars,
           \/ Request \/ RequestEdit \/ \E j \in Jobs : Submit(j)
           \/ Crash \/ HostBoot \/ UNCHANGED vars
    PROVE  /\ BootInv'
           /\ served /\ served' => bootCharges' = bootCharges
  <1>1. /\ Worker \in Threads /\ Main \in Threads /\ "edit" # "boot"
        /\ bootCharges \in Nat
    BY DEF Threads, Workers, TypeOK
  <1>2. ASSUME UNCHANGED <<bootVars, bootCharges, media, phase, tpc, work>>
        PROVE  BootInv' /\ bootCharges' = bootCharges
    <2>1. bootCharges' >= bootCharges /\ work'[Worker].why # "boot"
      BY <1>1, <1>2 DEF BootInv
    <2> QED BY <1>2, <2>1, BootStay
  <1>3. CASE Request \/ RequestEdit \/ \E j \in Jobs : Submit(j)
    BY <1>2, <1>3 DEF Request, RequestEdit, Submit, Post, fileVars, threadVars, sumVars
  <1>4. CASE UNCHANGED vars
    BY <1>2, <1>4 DEF vars, fileVars, threadVars, sumVars
  <1>5. CASE Crash
    <2>1. /\ UNCHANGED <<bootVars, bootCharges, media>> /\ phase' = "down"
          /\ tpc'[Main] = "idle" /\ work'[Worker].why = "edit"
      BY <1>1, <1>5, WhyOf DEF Crash, fileVars, sumVars
    <2>2. bootCharges' >= bootCharges /\ work'[Worker].why # "boot"
      BY <1>1, <2>1
    <2> QED BY <2>1, <2>2, BootStay
  <1>6. CASE HostBoot
    <2>1. /\ host' = host + 1 /\ bootDue' = (bootFile # None /\ media # None)
          /\ UNCHANGED <<media, bootFile, phase, tpc, work>> /\ ~served' /\ phase = "down"
          /\ host \in Nat /\ bootFile \in Nat \cup {None}
      BY <1>6 DEF HostBoot, fileVars, threadVars, TypeOK
    <2>2. Within'
      BY WithinStep DEF BootInv
    <2>3. bootFile' # host' /\ (bootFile' # None => bootFile' <= host')
      BY <2>1, NoneAssumption DEF BootInv
    <2>4. tpc[Main] = "idle"
      BY <1>1, <2>1 DEF Serial, TypeOK
    <2> QED BY <2>1, <2>2, <2>3, <2>4 DEF BootInv
  <1> QED BY <1>3, <1>4, <1>5, <1>6

LEMMA BootInit == Init => BootInv
  <1> SUFFICES ASSUME Init PROVE BootInv
    OBVIOUS
  <1>1. Within
    BY BudgetAssumption DEF Init, Within
  <1>2. /\ bootFile = None /\ ~bootDue /\ host = 0 /\ ~served /\ phase = "down"
        /\ tpc[Main] = "idle" /\ work[Worker] = Idle
    BY DEF Init, Threads, Workers
  <1> QED BY <1>1, <1>2, WhyOf DEF BootInv, Paid

LEMMA BootNext ==
    ASSUME TypeOK, TypeOK', Serial, ChargeInv, BootInv, [Next]_vars
    PROVE  BootInv' /\ (served /\ served' => bootCharges' = bootCharges)
  <1>1. ASSUME NEW w \in Workers, WorkerStep(w) PROVE WorkerStep(Worker)
    BY <1>1 DEF Workers
  <1> QED BY <1>1, WorkerBoots, MainBoots, OutsideBoots DEF Next

LEMMA BootInvariant == Spec => [](TypeOK /\ Serial /\ ChargeInv /\ BootInv)
  <1>1. AccountInv => Serial
    BY DEF AccountInv
  <1>2. TypeOK /\ TypeOK' /\ Serial /\ ChargeInv /\ BootInv /\ [Next]_vars => BootInv'
    BY BootNext
  <1> QED BY <1>1, <1>2, AccountTyped, AccountInvariant, ChargeInit, ChargeNext, BootInit,
             PTL DEF Spec

\* When the agent serves, the boot the host is in is on file, and the roll that
\* was loaded when the host went down has been charged for it.
THEOREM BootsAreCharged == Spec => []BootCharged
  <1>1. BootInv => BootCharged
    BY DEF BootInv, BootCharged, Paid
  <1> QED BY <1>1, BootInvariant, PTL

\* Once the agent has served in a boot of the host, no restart charges that
\* boot again, not even one that cannot read the boot on file.
THEOREM BootsStaySettled == Spec => BootSettled
  <1>1. TypeOK /\ TypeOK' /\ Serial /\ ChargeInv /\ BootInv /\ [Next]_vars =>
            [served /\ served' => bootCharges' = bootCharges]_vars
    BY BootNext
  <1> QED BY <1>1, BootInvariant, PTL DEF Spec, BootSettled

-----------------------------------------------------------------------------
(* Nothing is lost but by a crash or a disk error. *)

\* Only the worker has a job in hand.
LEMMA HandOf ==
    ASSUME ChargeInv, NEW j \in Jobs
    PROVE  InHand(j) <=> tpc[Worker] \in {"charge", "append", "save"} /\ work[Worker].why = j
  BY DEF ChargeInv, WorkAt, InHand, Threads, Workers

\* A job becomes accepted in somebody's hand, and leaves the hand charged or
\* excused.
Kept(j) == /\ jobs'[j] = "accepted" => jobs[j] = "accepted" \/ InHand(j)'
           /\ InHand(j) => InHand(j)' \/ j \in charged' \cup excused'

Books == charged \subseteq charged' /\ excused \subseteq excused'

LEMMA LossStay ==
    ASSUME Books, \A j \in Jobs : Kept(j)
    PROVE  Lost' \subseteq Lost
  BY DEF Books, Kept, Lost

LEMMA LossOfOne ==
    ASSUME Books, NEW x, \A j \in Jobs \ {x} : Kept(j)
    PROVE  Lost' \subseteq Lost \cup {x}
  BY DEF Books, Kept, Lost

\* One job at a time, for a crash or a disk error each.
Losing == /\ \E x : Lost' \subseteq Lost \cup {x}
          /\ \E kind \in {"crash", "fault"} : Spend(kind, 1)

\* Nobody held a job before the step, and none is accepted by it.
LEMMA KeptByNone ==
    ASSUME ChargeInv, Books, tpc[Worker] \notin {"charge", "append", "save"},
           \A j \in Jobs : jobs'[j] = "accepted" => jobs[j] = "accepted"
    PROVE  Lost' \subseteq Lost
  <1>1. \A j \in Jobs : Kept(j)
    BY HandOf DEF Kept
  <1> QED BY <1>1, LossStay

\* The worker keeps what it holds, and no job is accepted.
LEMMA KeptInHand ==
    ASSUME ChargeInv, Books,
           tpc[Worker] \in {"charge", "append", "save"} /\ work[Worker].why \in Jobs =>
               tpc'[Worker] \in {"charge", "append", "save"} /\ work'[Worker].why = work[Worker].why,
           \A j \in Jobs : jobs'[j] = "accepted" => jobs[j] = "accepted"
    PROVE  Lost' \subseteq Lost
  <1>1. Worker \in Threads
    BY DEF Threads, Workers
  <1>2. ASSUME NEW j \in Jobs PROVE Kept(j)
    <2>1. InHand(j) => InHand(j)'
      BY <1>1, HandOf DEF InHand
    <2> QED BY <2>1 DEF Kept
  <1> QED BY <1>2, LossStay

LEMMA WorkerLoses ==
    ASSUME TypeOK, ChargeInv, WorkerStep(Worker)
    PROVE  Lost' \subseteq Lost \/ Losing
  <1>1. /\ Worker \in Threads /\ Worker \in Workers /\ Worker # Main
        /\ Jobs \cap Words = {} /\ "adjust" \in Words
    BY ThreadsAssumption, WordsAssumption DEF Threads, Workers, Words
  <1>2. CASE \/ Load(Worker) \/ Edit(Worker) \/ Unload(Worker) \/ RemoveFile(Worker)
             \/ Adjust(Worker) \/ Maintain(Worker) \/ Probe(Worker)
    <2>1. Books /\ jobs' = jobs /\ tpc[Worker] \in {"idle", "remove"}
      BY <1>2, OperatorDoes DEF Books, sumVars
    <2> QED BY <2>1, KeptByNone
  <1>3. CASE Deliver(Worker)
    <2>1. /\ Take(Worker, "print") /\ excused' = excused
          /\ jobs' = [jobs EXCEPT ![Head(inbox[Worker]).job] = "writing"]
      BY <1>3 DEF Deliver
    <2>2. Books /\ tpc[Worker] = "idle"
      BY <2>1, TakeOf DEF Books, sumVars
    <2>3. \A j \in Jobs : jobs'[j] = "accepted" => jobs[j] = "accepted"
      BY <2>1 DEF TypeOK
    <2> QED BY <2>2, <2>3, KeptByNone
  <1>4. CASE Accept(Worker)
    <2>1. /\ Books /\ tpc[Worker] = "deliver" /\ At(Worker, "charge") /\ work' = work
          /\ jobs' = jobs \/ jobs' = [jobs EXCEPT ![work[Worker].why] = "accepted"]
      BY <1>4 DEF Accept, Quiet, Books, sumVars
    <2>2. /\ tpc'[Worker] = "charge"
          /\ \A j \in Jobs : jobs'[j] = "accepted" => jobs[j] = "accepted" \/ work[Worker].why = j
      BY <1>1, <2>1, MoveOf DEF TypeOK
    <2>3. ASSUME NEW j \in Jobs PROVE Kept(j)
      BY <1>1, <2>1, <2>2, HandOf DEF Kept, InHand
    <2> QED BY <2>1, <2>3, LossStay
  <1>5. CASE NotAccepted(Worker)
    <2>1. /\ Books /\ tpc[Worker] = "deliver"
          /\ \A j \in Jobs : jobs'[j] = "accepted" => jobs[j] = "accepted"
      BY <1>5 DEF NotAccepted, Quiet, Books, sumVars, TypeOK
    <2> QED BY <2>1, KeptByNone
  <1>6. CASE Consume(Worker)
    <2> DEFINE x == work[Worker].why
    <2>1. charged' = charged /\ jobs' = jobs /\ x \in Jobs
      BY <1>1, <1>6 DEF Consume, Quiet, sumVars, TypeOK
    <2>2. CASE Charge(Worker, Debited(media, Labels[x]), Labels[x], x) /\ excused' = excused
      <3>1. tpc'[Worker] = "append" /\ work'[Worker].why = x
        BY <1>1, <2>2, MoveOf, WhyOf DEF Charge
      <3>2. Books
        BY <2>1, <2>2 DEF Books
      <3> QED BY <2>1, <3>1, <3>2, KeptInHand
    <2>3. CASE excused' = excused \cup {x}
      <3>1. Books
        BY <2>1, <2>3 DEF Books
      <3>2. ASSUME NEW j \in Jobs PROVE Kept(j)
        BY <2>1, <2>3, HandOf DEF Kept
      <3> QED BY <3>1, <3>2, LossStay
    <2>4. CASE Spend("fault", 1) /\ excused' = excused
      <3>1. Books
        BY <2>1, <2>4 DEF Books
      <3>2. ASSUME NEW j \in Jobs \ {x} PROVE Kept(j)
        BY <2>1, HandOf DEF Kept
      <3>3. Lost' \subseteq Lost \cup {x}
        BY <3>1, <3>2, LossOfOne
      <3> QED BY <2>4, <3>3 DEF Losing
    <2> QED BY <1>6, <2>2, <2>3, <2>4 DEF Consume
  <1>7. CASE AppendLine(Worker)
    <2>1. Books /\ jobs' = jobs
      BY <1>7 DEF AppendLine, Books, sumVars
    <2>2. work[Worker].why \in Jobs => tpc'[Worker] = "save" /\ work' = work
      <3>1. work[Worker].why \in Jobs => ~Strict(Worker)
        BY <1>1 DEF Strict
      <3>2. work[Worker].why \in Jobs => At(Worker, "save") /\ UNCHANGED work
        BY <1>7, <3>1 DEF AppendLine
      <3> QED BY <1>1, <3>2, MoveOf
    <2> QED BY <2>1, <2>2, KeptInHand
  <1>8. CASE SaveMedia(Worker)
    <2> DEFINE x == work[Worker].why
    <2>1. jobs' = jobs /\ excused' = excused
      BY <1>8 DEF SaveMedia
    <2>2. PICK o \in Outcomes :
              /\ Spend("fault", Faults(o))
              /\ IF Landed(o) THEN media' = work[Worker].draft /\ Account(work[Worker])
                              ELSE UNCHANGED <<media, sumVars>>
      BY <1>8 DEF SaveMedia
    <2>3. CASE Landed(o)
      <3>1. charged' = IF x \in Jobs THEN charged \cup {x} ELSE charged
        BY <2>2, <2>3 DEF Account
      <3>2. Books
        BY <2>1, <3>1 DEF Books
      <3>3. ASSUME NEW j \in Jobs PROVE Kept(j)
        BY <2>1, <3>1, HandOf DEF Kept
      <3> QED BY <3>2, <3>3, LossStay
    <2>4. CASE ~Landed(o)
      <3>1. Spend("fault", 1) /\ charged' = charged
        BY <2>2, <2>4 DEF Landed, Faults, sumVars
      <3>2. Books
        BY <2>1, <3>1 DEF Books
      <3>3. ASSUME NEW j \in Jobs \ {x} PROVE Kept(j)
        BY <2>1, HandOf DEF Kept
      <3>4. Lost' \subseteq Lost \cup {x}
        BY <3>2, <3>3, LossOfOne
      <3> QED BY <3>1, <3>4 DEF Losing
    <2> QED BY <2>3, <2>4
  <1> QED BY <1>2, <1>3, <1>4, <1>5, <1>6, <1>7, <1>8 DEF WorkerStep

LEMMA MainLosesNothing ==
    ASSUME TypeOK, ChargeInv, MainStep
    PROVE  Lost' \subseteq Lost
  <1>1. Worker \in Threads /\ Main \in Threads /\ Main # Worker
    BY ThreadsAssumption DEF Threads, Workers
  <1>2. ASSUME Books, tpc'[Worker] = tpc[Worker], work'[Worker] = work[Worker],
               \A j \in Jobs : jobs'[j] = "accepted" => jobs[j] = "accepted"
        PROVE  Lost' \subseteq Lost
    BY <1>2, KeptInHand
  <1>3. CASE Start
    <2>1. Books /\ jobs' = jobs
      BY <1>3 DEF Start, Books, sumVars
    <2>2. \/ \E pc : At(Main, pc) /\ UNCHANGED work
          \/ \E pc, m : At(Main, pc) /\ Make(Main, m)
      BY <1>3 DEF Start, Charge
    <2> QED BY <1>1, <1>2, <2>1, <2>2, MoveOf
  <1>4. CASE AppendLine(Main)
    <2>1. Books /\ jobs' = jobs
      BY <1>4 DEF AppendLine, Books, sumVars
    <2>2. (At(Main, "save") /\ UNCHANGED work) \/ Done(Main)
      BY <1>4 DEF AppendLine, GiveUp
    <2> QED BY <1>1, <1>2, <2>1, <2>2, MoveOf, DoneOf
  <1>5. CASE SaveMedia(Main)
    <2>1. Books /\ jobs' = jobs
      BY <1>5 DEF SaveMedia, Account, Books, sumVars
    <2>2. (At(Main, "mark") /\ Make(Main, Idle)) \/ Done(Main)
      BY <1>5 DEF SaveMedia, GiveUp
    <2> QED BY <1>1, <1>2, <2>1, <2>2, MoveOf, DoneOf
  <1>6. CASE MarkBoot
    <2>1. Books /\ jobs' = jobs
      BY <1>6 DEF MarkBoot, Books, sumVars
    <2>2. (At(Main, "ready") /\ UNCHANGED work) \/ Done(Main)
      BY <1>6 DEF MarkBoot, GiveUp
    <2> QED BY <1>1, <1>2, <2>1, <2>2, MoveOf, DoneOf
  <1>7. CASE Serve
    <2>1. Books /\ At(Main, "idle") /\ work' = work
      BY <1>7 DEF Serve, Books, sumVars
    <2>2. \A j \in Jobs : jobs'[j] = "accepted" => jobs[j] = "accepted"
      BY <1>7 DEF Serve, TypeOK
    <2> QED BY <1>1, <1>2, <2>1, <2>2, MoveOf
  <1> QED BY <1>3, <1>4, <1>5, <1>6, <1>7 DEF MainStep

LEMMA LossStep ==
    ASSUME TypeOK, ChargeInv, [Next]_vars
    PROVE  Lost' \subseteq Lost \/ Losing
  <1>1. CASE Request \/ RequestEdit \/ (\E j \in Jobs : Submit(j)) \/ HostBoot \/ UNCHANGED vars
    <2>1. Books /\ tpc' = tpc /\ work' = work
      BY <1>1 DEF Request, RequestEdit, Submit, Post, HostBoot, vars, threadVars, sumVars, Books
    <2>2. \A j \in Jobs : jobs'[j] = "accepted" => jobs[j] = "accepted"
      BY <1>1 DEF Request, RequestEdit, Submit, HostBoot, vars, TypeOK
    <2> QED BY <2>1, <2>2, KeptInHand
  <1>2. CASE Crash
    <2> DEFINE x == work[Worker].why
    <2>1. Books /\ jobs' = jobs /\ Spend("crash", 1)
      BY <1>2 DEF Crash, Books, sumVars
    <2>2. ASSUME NEW j \in Jobs \ {x} PROVE Kept(j)
      BY <2>1, HandOf DEF Kept
    <2>3. Lost' \subseteq Lost \cup {x}
      BY <2>1, <2>2, LossOfOne
    <2> QED BY <2>1, <2>3 DEF Losing
  <1>3. ASSUME NEW w \in Workers, WorkerStep(w) PROVE WorkerStep(Worker)
    BY <1>3 DEF Workers
  <1> QED BY <1>1, <1>2, <1>3, WorkerLoses, MainLosesNothing DEF Next

LEMMA LossNext ==
    ASSUME TypeOK, ChargeInv, LossBounded, [Next]_vars
    PROVE  LossBounded'
  <1> DEFINE spent == Spent("crash") + Spent("fault")
  <1>1. /\ IsFiniteSet(Lost) /\ IsFiniteSet(Lost')
        /\ Cardinality(Lost) \in Nat /\ Cardinality(Lost') \in Nat
    <2>1. Lost \subseteq Jobs /\ Lost' \subseteq Jobs
      BY DEF Lost
    <2> QED BY <2>1, JobsAssumption, FS_Subset, FS_CardinalityType
  <1>2. /\ Budget["crash"] \in Nat /\ Budget["fault"] \in Nat
        /\ budget["crash"] \in Nat /\ budget'["crash"] \in Nat
        /\ budget["fault"] \in Nat /\ budget'["fault"] \in Nat
        /\ budget'["crash"] <= budget["crash"] /\ budget'["fault"] <= budget["fault"]
    BY BudgetAssumption, SpentGrows
  <1>3. CASE Lost' \subseteq Lost
    <2>1. Cardinality(Lost') <= Cardinality(Lost)
      BY <1>1, <1>3, FS_Subset
    <2> QED BY <1>1, <1>2, <2>1 DEF LossBounded, Spent
  <1>4. CASE Losing
    <2>1. PICK x : Lost' \subseteq Lost \cup {x}
      BY <1>4 DEF Losing
    <2>2. /\ IsFiniteSet(Lost \cup {x})
          /\ Cardinality(Lost \cup {x}) \in {Cardinality(Lost), Cardinality(Lost) + 1}
      BY <1>1, FS_AddElement
    <2>3. Cardinality(Lost') <= Cardinality(Lost \cup {x})
      BY <2>1, <2>2, FS_Subset
    <2>4. budget'["crash"] + budget'["fault"] + 1 <= budget["crash"] + budget["fault"]
      <3>1. PICK kind \in {"crash", "fault"} : Spend(kind, 1)
        BY <1>4 DEF Losing
      <3>2. budget'[kind] = budget[kind] - 1
        BY <3>1 DEF Spend, TypeOK
      <3> QED BY <1>2, <3>1, <3>2
    <2> QED BY <1>1, <1>2, <2>2, <2>3, <2>4 DEF LossBounded, Spent
  <1> QED BY <1>3, <1>4, LossStep

LEMMA LossInit == Init => LossBounded
  <1> SUFFICES ASSUME Init PROVE LossBounded
    OBVIOUS
  <1>1. Lost = {} /\ Spent("crash") = 0 /\ Spent("fault") = 0
    BY BudgetAssumption DEF Init, Lost, Spent
  <1> QED BY <1>1, FS_EmptySet DEF LossBounded

\* Every accepted job is charged, is in the worker's hand, or found no roll loaded
\* or no count of its labels; a crash or a disk error can take one job at most
\* from that rule.
THEOREM LossesAreBounded == Spec => []LossBounded
  BY AccountTyped, ChargeInit, ChargeNext, LossInit, LossNext, PTL DEF Spec

-----------------------------------------------------------------------------
(* The ledger explains the state. *)

\* The line that counts for a sequence number of a roll: the last one, for an
\* append is repeated when a crash came before the save.
LastLine(led, r, n, l) ==
    \E i \in DOMAIN led :
        /\ led[i] = l /\ l.roll = r /\ l.seq = n
        /\ \A k \in DOMAIN led : led[k].roll = r /\ led[k].seq = n => k <= i

\* The page of a state: the lines that count, each starting where the one
\* before it ended, and the last one ending in the state.
Page(led, m, page) ==
    /\ \A n \in 1..m.seq :
        /\ LastLine(led, m.roll, n, page[n])
        /\ page[n].before = IF n = 1 THEN m.initial ELSE page[n - 1].after
        /\ page[n].after = page[n].before + page[n].delta
                           + (page[n].deficit - IF n = 1 THEN 0 ELSE page[n - 1].deficit)
        /\ page[n].why \in {"maintenance", "reconnect", "boot"} => ~m.exact
    /\ IF m.seq = 0 THEN m.remaining = m.initial /\ m.deficit = 0
       ELSE page[m.seq].after = m.remaining /\ page[m.seq].deficit = m.deficit

Explained == media # None /\ Writable /\ Fits /\ Countable /\ Intact =>
    \E page \in [1..media.seq -> Lines] : Page(ledger, media, page)

\* l takes the state m to the state d.
Entry(l, m, d) ==
    /\ ~m.exact => ~d.exact
    /\ l.before = m.remaining /\ l.after = d.remaining /\ l.deficit = d.deficit
    /\ l.after = l.before + l.delta + (l.deficit - m.deficit)
    /\ l.why \in {"maintenance", "reconnect", "boot"} => ~d.exact

SamePage(d, m) ==
    /\ d.roll = m.roll /\ d.seq = m.seq /\ d.exact = m.exact
    /\ d.initial = m.initial /\ d.remaining = m.remaining /\ d.deficit = m.deficit

\* What a thread is about to save: a new roll, the same account under another
\* definition, or the next entry, whose line is the last one of its number by
\* the time the state is saved.
Prepared(t) == LET k == work[t] IN
    \/ /\ k.why = "edit" /\ k.debit = 0 /\ k.credit = 0 /\ tpc[t] = "save"
       /\ \/ k.draft.seq = 0 /\ k.draft.remaining = k.draft.initial /\ k.draft.deficit = 0
          \/ media # None /\ SamePage(k.draft, media)
    \/ /\ k.why # "edit" /\ media # None
       /\ k.draft.roll = media.roll /\ k.draft.initial = media.initial
       /\ k.draft.seq = media.seq + 1
       /\ k.line.roll = media.roll /\ k.line.seq = media.seq + 1
       /\ Countable /\ debits + k.debit <= MaxLabels
          /\ media.initial + (credits + k.credit) <= MaxLabels => Entry(k.line, media, k.draft)
       /\ tpc[t] = "save" => LastLine(ledger, media.roll, media.seq + 1, k.line)

ExplainInv ==
    /\ Explained
    /\ Writable /\ Intact => \A t \in Threads : tpc[t] \in {"append", "save"} => Prepared(t)

LEMMA LastKept ==
    ASSUME NEW led \in Seq(Lines), NEW x \in Lines, NEW r, NEW n, NEW l,
           LastLine(led, r, n, l), ~(x.roll = r /\ x.seq = n)
    PROVE  LastLine(Append(led, x), r, n, l)
  <1>1. /\ DOMAIN led = 1..Len(led) /\ Len(led) \in Nat
        /\ DOMAIN Append(led, x) = 1..(Len(led) + 1) /\ Append(led, x)[Len(led) + 1] = x
        /\ \A i \in 1..Len(led) : Append(led, x)[i] = led[i]
    OBVIOUS
  <1>2. PICK i \in DOMAIN led :
            /\ led[i] = l /\ l.roll = r /\ l.seq = n
            /\ \A k \in DOMAIN led : led[k].roll = r /\ led[k].seq = n => k <= i
    BY DEF LastLine
  <1>3. i \in DOMAIN Append(led, x) /\ Append(led, x)[i] = l
    BY <1>1, <1>2
  <1>4. ASSUME NEW k \in DOMAIN Append(led, x),
               Append(led, x)[k].roll = r, Append(led, x)[k].seq = n
        PROVE  k <= i
    <2>1. k # Len(led) + 1
      BY <1>1, <1>4
    <2> QED BY <1>1, <1>2, <1>4, <2>1
  <1> QED BY <1>2, <1>3, <1>4 DEF LastLine

LEMMA LastNew ==
    ASSUME NEW led \in Seq(Lines), NEW x \in Lines
    PROVE  LastLine(Append(led, x), x.roll, x.seq, x)
  <1>1. /\ DOMAIN Append(led, x) = 1..(Len(led) + 1) /\ Len(led) \in Nat
        /\ Append(led, x)[Len(led) + 1] = x
    OBVIOUS
  <1>2. /\ Len(led) + 1 \in DOMAIN Append(led, x)
        /\ \A k \in DOMAIN Append(led, x) : k <= Len(led) + 1
    BY <1>1
  <1> QED BY <1>1, <1>2 DEF LastLine

\* An append does not disturb a page it does not belong to.
LEMMA PageKept ==
    ASSUME NEW led \in Seq(Lines), NEW x \in Lines, NEW m \in States, NEW page,
           Page(led, m, page), x.roll = m.roll => x.seq \notin 1..m.seq
    PROVE  Page(Append(led, x), m, page)
  <1>1. m.seq \in Nat
    BY DEF States
  <1>2. ASSUME NEW n \in 1..m.seq PROVE LastLine(Append(led, x), m.roll, n, page[n])
    BY <1>1, LastKept DEF Page
  <1> QED BY <1>2 DEF Page

\* An entry whose line counts continues the page.
LEMMA PageTurned ==
    ASSUME NEW led \in Seq(Lines), NEW m \in States, NEW d \in States,
           NEW page \in [1..m.seq -> Lines], Page(led, m, page), NEW l \in Lines,
           LastLine(led, m.roll, m.seq + 1, l), Entry(l, m, d),
           d.roll = m.roll, d.initial = m.initial, d.seq = m.seq + 1
    PROVE  \E next \in [1..d.seq -> Lines] : Page(led, d, next)
  <1> DEFINE next == [n \in 1..d.seq |-> IF n = d.seq THEN l ELSE page[n]]
  <1>1. m.seq \in Nat /\ d.seq \in Nat /\ m.exact \in BOOLEAN /\ d.exact \in BOOLEAN
    BY DEF States
  <1>2. /\ next \in [1..d.seq -> Lines] /\ next[d.seq] = l
        /\ \A n \in 1..m.seq : next[n] = page[n]
    BY <1>1
  <1>3. ~m.exact => ~d.exact
    BY DEF Entry
  <1> HIDE DEF next
  <1>4. ASSUME NEW n \in 1..m.seq
        PROVE  /\ LastLine(led, d.roll, n, next[n])
               /\ next[n].before = IF n = 1 THEN d.initial ELSE next[n - 1].after
               /\ next[n].after = next[n].before + next[n].delta
                                  + (next[n].deficit - IF n = 1 THEN 0 ELSE next[n - 1].deficit)
               /\ next[n].why \in {"maintenance", "reconnect", "boot"} => ~d.exact
    <2>1. n # 1 => n - 1 \in 1..m.seq
      BY <1>1
    <2>2. next[n] = page[n] /\ (n # 1 => next[n - 1] = page[n - 1])
      BY <1>2, <2>1
    <2>3. /\ LastLine(led, m.roll, n, page[n])
          /\ page[n].before = IF n = 1 THEN m.initial ELSE page[n - 1].after
          /\ page[n].after = page[n].before + page[n].delta
                             + (page[n].deficit - IF n = 1 THEN 0 ELSE page[n - 1].deficit)
          /\ page[n].why \in {"maintenance", "reconnect", "boot"} => ~m.exact
      BY DEF Page
    <2>4. CASE n = 1
      BY <1>3, <2>2, <2>3, <2>4
    <2>5. CASE n # 1
      BY <1>3, <2>2, <2>3, <2>5
    <2> QED BY <2>4, <2>5
  <1>5. /\ LastLine(led, d.roll, d.seq, next[d.seq])
        /\ next[d.seq].before = IF d.seq = 1 THEN d.initial ELSE next[d.seq - 1].after
        /\ next[d.seq].after = next[d.seq].before + next[d.seq].delta
               + (next[d.seq].deficit - IF d.seq = 1 THEN 0 ELSE next[d.seq - 1].deficit)
        /\ next[d.seq].why \in {"maintenance", "reconnect", "boot"} => ~d.exact
    <2>1. IF m.seq = 0 THEN m.remaining = m.initial /\ m.deficit = 0
          ELSE next[m.seq].after = m.remaining /\ next[m.seq].deficit = m.deficit
      BY <1>1, <1>2 DEF Page
    <2>2. d.seq - 1 = m.seq /\ (d.seq = 1 <=> m.seq = 0)
      BY <1>1
    <2>3. CASE m.seq = 0
      BY <1>2, <2>1, <2>2, <2>3 DEF Entry
    <2>4. CASE m.seq # 0
      BY <1>2, <2>1, <2>2, <2>4 DEF Entry
    <2> QED BY <2>3, <2>4
  <1>6. \A n \in 1..d.seq : n \in 1..m.seq \/ n = d.seq
    BY <1>1
  <1>7. d.seq # 0 /\ next[d.seq].after = d.remaining /\ next[d.seq].deficit = d.deficit
    BY <1>1, <1>2 DEF Entry
  <1>8. Page(led, d, next)
    BY <1>4, <1>5, <1>6, <1>7 DEF Page
  <1> QED BY <1>2, <1>8

\* A page is what the property asks for.
LEMMA PageExplains == TypeOK /\ Explained => LedgerExplains
  <1> SUFFICES ASSUME TypeOK, Explained, media # None, Writable, Fits, Countable, Intact
               PROVE  LedgerExplains
    BY DEF LedgerExplains
  <1>1. PICK page \in [1..media.seq -> Lines] : Page(ledger, media, page)
    BY DEF Explained
  <1>2. media.seq \in Nat /\ ledger \in Seq(Lines) /\ DOMAIN ledger \subseteq Nat
    BY DEF TypeOK, States
  <1>3. ASSUME NEW n \in 1..media.seq PROVE LinesOf(n) # {} /\ Line(n) = page[n]
    <2>1. PICK i \in DOMAIN ledger :
              /\ ledger[i] = page[n] /\ page[n].roll = media.roll /\ page[n].seq = n
              /\ \A k \in DOMAIN ledger :
                     ledger[k].roll = media.roll /\ ledger[k].seq = n => k <= i
      BY <1>1 DEF Page, LastLine
    <2>2. i \in LinesOf(n) /\ \A k \in LinesOf(n) : k <= i
      BY <2>1 DEF LinesOf
    <2>3. \A e \in LinesOf(n) : (\A k \in LinesOf(n) : k <= e) => e = i
      <3>1. LinesOf(n) \subseteq Nat
        BY <1>2 DEF LinesOf
      <3> QED BY <2>2, <3>1
    <2>4. (CHOOSE e \in LinesOf(n) : \A k \in LinesOf(n) : k <= e) = i
      BY <2>2, <2>3
    <2> QED BY <2>1, <2>2, <2>4 DEF Line
  <1>4. \A n \in 1..media.seq : n # 1 => n - 1 \in 1..media.seq
    BY <1>2
  <1>5. ASSUME NEW n \in 1..media.seq
        PROVE  /\ LinesOf(n) # {}
               /\ Line(n).before = IF n = 1 THEN media.initial ELSE Line(n - 1).after
               /\ Line(n).after = Line(n).before + Line(n).delta
                                  + (Line(n).deficit - IF n = 1 THEN 0 ELSE Line(n - 1).deficit)
               /\ n = media.seq => Line(n).after = media.remaining /\ Line(n).deficit = media.deficit
               /\ Line(n).why \in {"maintenance", "reconnect", "boot"} => ~media.exact
    <2>1. /\ page[n].before = IF n = 1 THEN media.initial ELSE page[n - 1].after
          /\ page[n].after = page[n].before + page[n].delta
                             + (page[n].deficit - IF n = 1 THEN 0 ELSE page[n - 1].deficit)
          /\ page[n].why \in {"maintenance", "reconnect", "boot"} => ~media.exact
          /\ n = media.seq => page[n].after = media.remaining /\ page[n].deficit = media.deficit
      BY <1>1, <1>2 DEF Page
    <2>2. Line(n) = page[n] /\ LinesOf(n) # {} /\ (n # 1 => Line(n - 1) = page[n - 1])
      BY <1>3, <1>4
    <2>3. CASE n = 1
      BY <2>1, <2>2, <2>3
    <2>4. CASE n # 1
      BY <2>1, <2>2, <2>4
    <2> QED BY <2>3, <2>4
  <1> QED BY <1>5 DEF LedgerExplains

\* While there is no fault, every write lands.
LEMMA NoFault ==
    ASSUME TypeOK, Within, NEW n \in Nat, Spend("fault", n), Writable'
    PROVE  n = 0 /\ Writable
  BY BudgetAssumption DEF TypeOK, Within, Spend, Writable

LEMMA OutcomeOk ==
    ASSUME TypeOK, Within, NEW o \in Outcomes \cup {"torn"}, Spend("fault", Faults(o)), Writable'
    PROVE  o = "ok" /\ Writable
  <1>1. Faults(o) \in Nat /\ (Faults(o) = 0 => o = "ok")
    BY DEF Faults
  <1> QED BY <1>1, NoFault

\* A line that was written whole and did not end up in an open one.
LEMMA WriteIntact ==
    ASSUME ledger \in Seq(Lines), NEW l \in Lines, Write(l), Intact'
    PROVE  Intact /\ (l # Torn => ledger' = Append(ledger, l))
  <1>1. ASSUME NEW i \in DOMAIN ledger, ledger[i] = Damaged PROVE FALSE
    <2>1. i \in DOMAIN ledger' /\ ledger'[i] = Damaged
      <3>1. CASE ledger' = Append(ledger, l)
        BY <1>1, <3>1
      <3>2. ASSUME NEW x \in {Torn, Damaged}, ledger[Len(ledger)] = Torn,
                   ledger' = [ledger EXCEPT ![Len(ledger)] = x]
            PROVE  i \in DOMAIN ledger' /\ ledger'[i] = Damaged
        <4>1. i # Len(ledger)
          BY <1>1, <3>2, UnreadableTypes
        <4> HIDE DEF Torn, Damaged
        <4> QED BY <1>1, <3>2, <4>1
      <3> QED BY <3>1, <3>2, WriteDoes
    <2> QED BY <2>1 DEF Intact
  <1>2. ASSUME ledger # <<>>, Last(ledger) = Torn, l # Torn PROVE FALSE
    <2>1. ledger' = [ledger EXCEPT ![Len(ledger)] = Damaged]
      BY <1>2 DEF Write
    <2>2. Len(ledger) \in DOMAIN ledger /\ DOMAIN ledger' = DOMAIN ledger
      BY <1>2, <2>1
    <2>3. ledger'[Len(ledger)] = Damaged
      BY <2>1, <2>2
    <2> QED BY <2>2, <2>3 DEF Intact
  <1>3. l # Torn => ledger' = Append(ledger, l)
    BY <1>2 DEF Write
  <1> QED BY <1>1, <1>3 DEF Intact

\* A step that leaves the files alone: it is enough that every new mutation is
\* prepared.
LEMMA QuietExplains ==
    ASSUME TypeOK, Within, ExplainInv, [Next]_vars,
           UNCHANGED <<media, ledger, debits, credits>>,
           \A t \in Threads : tpc'[t] \in {"append", "save"} =>
               (tpc'[t] = tpc[t] /\ work'[t] = work[t]) \/ Prepared(t)'
    PROVE  ExplainInv'
  <1>1. Writable' => Writable
    BY WithinStep
  <1>2. Explained'
    BY <1>1 DEF ExplainInv, Explained, Fits, Intact
  <1>3. ASSUME NEW t \in Threads, Prepared(t), tpc'[t] = tpc[t], work'[t] = work[t]
        PROVE  Prepared(t)'
    BY <1>3 DEF Prepared
  <1> QED BY <1>1, <1>2, <1>3 DEF ExplainInv, Intact

\* The balance of a debit and of a credit whose sums fit.
LEMMA DebitBalance ==
    ASSUME NEW m \in States, NEW taken \in Nat, NEW added \in Nat, Sums(m, taken, added),
           m # None, NEW n \in 0..MaxLabels, taken + n <= MaxLabels
    PROVE  Debited(m, n).remaining = m.remaining + (-n) + (Debited(m, n).deficit - m.deficit)
  <1>1. /\ m.remaining \in Nat /\ m.deficit \in Nat /\ m.deficit <= taken
        /\ Debited(m, n).remaining = Over(m.remaining, n)
        /\ Debited(m, n).deficit = Saturate(m.deficit + Over(n, m.remaining))
        /\ MaxLabels \in Nat
    BY Limits DEF States, Debited, Sums
  <1> QED BY <1>1 DEF Over, Saturate

LEMMA CreditBalance ==
    ASSUME NEW m \in States, NEW taken \in Nat, NEW added \in Nat, Sums(m, taken, added),
           m # None, NEW n \in 0..MaxLabels, m.initial + (added + n) <= MaxLabels
    PROVE  Credited(m, n).remaining = m.remaining + n + (Credited(m, n).deficit - m.deficit)
  <1>1. /\ m.remaining \in Nat /\ m.deficit \in Nat /\ m.initial \in Nat
        /\ m.remaining <= m.initial + added
        /\ Credited(m, n).remaining = Saturate(m.remaining + n)
        /\ Credited(m, n).deficit = m.deficit
        /\ MaxLabels \in Nat
    BY Limits DEF States, Credited, Sums
  <1> QED BY <1>1 DEF Saturate

\* A mutation of the account, balanced when the sums fit, is prepared.
LEMMA MutationPrepared ==
    ASSUME TypeOK, UNCHANGED <<media, debits, credits>>, media # None, NEW t \in Threads,
           NEW draft \in States, NEW delta, NEW debit, NEW credit, NEW why, why # "edit",
           At(t, "append"), Make(t, Mutation(media, draft, delta, debit, credit, why)),
           draft.roll = media.roll, draft.initial = media.initial, draft.seq = media.seq + 1,
           ~media.exact \/ why \in {"maintenance", "reconnect", "boot"} => ~draft.exact,
           Countable /\ debits + debit <= MaxLabels
               /\ media.initial + (credits + credit) <= MaxLabels =>
               draft.remaining = media.remaining + delta + (draft.deficit - media.deficit)
    PROVE  Prepared(t)'
  <1>1. tpc'[t] = "append" /\ work'[t] = Mutation(media, draft, delta, debit, credit, why)
    BY MoveOf
  <1>2. PICK k : k = Mutation(media, draft, delta, debit, credit, why)
    OBVIOUS
  <1>3. /\ k.draft = draft /\ k.debit = debit /\ k.credit = credit /\ k.why = why
        /\ k.line.roll = media.roll /\ k.line.seq = draft.seq /\ k.line.delta = delta
        /\ k.line.before = media.remaining /\ k.line.after = draft.remaining
        /\ k.line.deficit = draft.deficit /\ k.line.why = why
    BY <1>2 DEF Mutation
  <1>4. Countable /\ debits + debit <= MaxLabels
            /\ media.initial + (credits + credit) <= MaxLabels => Entry(k.line, media, draft)
    BY <1>3 DEF Entry
  <1> QED BY <1>1, <1>2, <1>3, <1>4 DEF Prepared

\* A charge of a job, or of an estimate.
LEMMA ChargePrepared ==
    ASSUME TypeOK, AccountInv, UNCHANGED <<media, debits, credits>>, media # None,
           NEW t \in Threads, NEW n \in 0..MaxLabels, Countable => n <= HalfRange,
           NEW why, why # "edit", NEW draft, Charge(t, draft, n, why),
           \/ draft = Debited(media, n) /\ why \notin {"maintenance", "reconnect", "boot"}
           \/ draft = Estimated(media, n)
    PROVE  Prepared(t)'
  <1>1. media \in States /\ debits \in Nat /\ credits \in Nat /\ Sums(media, debits, credits)
    BY DEF TypeOK, AccountInv
  <1>2. draft \in States
    BY <1>1, StateTypes
  <1>3. /\ draft.roll = media.roll /\ draft.initial = media.initial
        /\ draft.seq = media.seq + 1
        /\ ~media.exact \/ why \in {"maintenance", "reconnect", "boot"} => ~draft.exact
        /\ draft.remaining = Debited(media, n).remaining
        /\ draft.deficit = Debited(media, n).deficit
    BY <1>1 DEF Debited, Estimated, States
  <1>4. Countable => Negated(n) = -n
    BY Limits DEF Negated
  <1>5. Countable /\ debits + n <= MaxLabels =>
            draft.remaining = media.remaining + Negated(n) + (draft.deficit - media.deficit)
    BY <1>1, <1>3, <1>4, DebitBalance
  <1>6. At(t, "append") /\ Make(t, Mutation(media, draft, Negated(n), n, 0, why))
    BY DEF Charge
  <1> QED BY <1>2, <1>3, <1>5, <1>6, MutationPrepared

\* What the operator asks for, an estimate and a job's charge are prepared.
LEMMA OperatorPrepares ==
    ASSUME TypeOK, AccountInv, ChargeInv, tpc'[Worker] \in {"append", "save"},
           \/ Load(Worker) \/ Edit(Worker) \/ Unload(Worker) \/ RemoveFile(Worker)
           \/ Adjust(Worker)
    PROVE  Prepared(Worker)'
  <1>1. /\ Worker \in Threads /\ Worker \in Workers
        /\ media \in States \cup {None} /\ rolls \in Nat
    BY DEF Threads, Workers, TypeOK
  <1>2. ~Done(Worker) /\ \A pc : At(Worker, pc) => pc \in {"append", "save"}
    BY <1>1, DoneOf, MoveOf
  <1>3. CASE Load(Worker)
    <2>1. PICK n, def : /\ Make(Worker, Rewrite(State(rolls + 1, n, def)))
                        /\ At(Worker, "save")
      BY <1>2, <1>3 DEF Load
    <2>2. tpc'[Worker] = "save" /\ work'[Worker] = Rewrite(State(rolls + 1, n, def))
      BY <1>1, <2>1, MoveOf
    <2> QED BY <2>2 DEF Prepared, Rewrite, State
  <1>4. CASE Edit(Worker)
    <2>1. PICK def : /\ media # None /\ Make(Worker, Rewrite([media EXCEPT !.def = def]))
                     /\ At(Worker, "save") /\ media' = media
      BY <1>2, <1>4 DEF Edit, Nothing, fileVars
    <2>2. tpc'[Worker] = "save" /\ work'[Worker] = Rewrite([media EXCEPT !.def = def])
      BY <1>1, <2>1, MoveOf
    <2>3. SamePage([media EXCEPT !.def = def], media)
      BY <1>1, <2>1 DEF SamePage, States
    <2>4. /\ work'[Worker].draft = [media EXCEPT !.def = def] /\ work'[Worker].why = "edit"
          /\ work'[Worker].debit = 0 /\ work'[Worker].credit = 0
      BY <2>2 DEF Rewrite
    <2> QED BY <2>1, <2>2, <2>3, <2>4 DEF Prepared
  <1>5. CASE Unload(Worker)
    BY <1>2, <1>5 DEF Unload
  <1>6. CASE RemoveFile(Worker)
    BY <1>2, <1>6 DEF RemoveFile
  <1>7. CASE Adjust(Worker)
    <2> DEFINE n == Head(inbox[Worker]).n
    <2>1. /\ Take(Worker, "adjust") /\ media # None /\ At(Worker, "append")
          /\ UNCHANGED <<media, debits, credits>>
          /\ Make(Worker, IF n < 0 THEN Mutation(media, Debited(media, -n), n, -n, 0, "adjust")
                          ELSE Mutation(media, Credited(media, n), n, 0, n, "adjust"))
      BY <1>2, <1>7 DEF Adjust, Nothing, Take, Quiet, fileVars, sumVars
    <2>2. Head(inbox[Worker]) \in Commands /\ Head(inbox[Worker]).op = "adjust"
      BY <1>1, <2>1, TakeType
    <2>3. n \in Deltas
      BY <2>2, CommandForm
    <2>4. /\ debits \in Nat /\ credits \in Nat /\ Sums(media, debits, credits)
          /\ media \in States
      BY <1>1, <2>1 DEF TypeOK, AccountInv
    <2> HIDE DEF n
    <2>5. CASE n < 0
      <3>1. -n \in 0..MaxLabels /\ n \in Int /\ n = -(-n)
        BY <2>3, <2>5, AmountsAssumption DEF MaxLabels
      <3>2. Debited(media, -n) \in States
        BY <2>4, <3>1, StateTypes
      <3>3. /\ Debited(media, -n).roll = media.roll /\ Debited(media, -n).initial = media.initial
            /\ Debited(media, -n).seq = media.seq + 1 /\ Debited(media, -n).exact = media.exact
        BY <2>4 DEF Debited, States
      <3>4. debits + (-n) <= MaxLabels => Debited(media, -n).remaining
                = media.remaining + n + (Debited(media, -n).deficit - media.deficit)
        BY <2>1, <2>4, <3>1, DebitBalance
      <3>5. Make(Worker, Mutation(media, Debited(media, -n), n, -n, 0, "adjust"))
        BY <2>1, <2>5
      <3> QED BY <1>1, <2>1, <3>2, <3>3, <3>4, <3>5, MutationPrepared
    <2>6. CASE ~(n < 0)
      <3>1. n \in 0..MaxLabels
        BY <2>3, <2>6, AmountsAssumption DEF MaxLabels
      <3>2. Credited(media, n) \in States
        BY <2>4, <3>1, StateTypes
      <3>3. /\ Credited(media, n).roll = media.roll /\ Credited(media, n).initial = media.initial
            /\ Credited(media, n).seq = media.seq + 1 /\ Credited(media, n).exact = media.exact
        BY <2>4 DEF Credited, States
      <3>4. media.initial + (credits + n) <= MaxLabels => Credited(media, n).remaining
                = media.remaining + n + (Credited(media, n).deficit - media.deficit)
        BY <2>1, <2>4, <3>1, CreditBalance
      <3>5. Make(Worker, Mutation(media, Credited(media, n), n, 0, n, "adjust"))
        BY <2>1, <2>6
      <3> QED BY <1>1, <2>1, <3>2, <3>3, <3>4, <3>5, MutationPrepared
    <2> QED BY <2>5, <2>6
  <1> QED BY <1>3, <1>4, <1>5, <1>6, <1>7

\* The steps of the worker that leave the files alone.
LEMMA WorkerPrepares ==
    ASSUME TypeOK, Within, AccountInv, ChargeInv, ExplainInv, [Next]_vars,
           \/ Load(Worker) \/ Edit(Worker) \/ Unload(Worker) \/ RemoveFile(Worker)
           \/ Adjust(Worker) \/ Maintain(Worker) \/ Probe(Worker) \/ Deliver(Worker)
           \/ Accept(Worker) \/ NotAccepted(Worker) \/ Consume(Worker),
           media' = media
    PROVE  ExplainInv'
  <1>1. /\ Worker \in Threads /\ Main \in Threads /\ Main # Worker /\ Worker \in Workers
        /\ Threads = {Worker, Main} /\ Jobs \cap Words = {}
        /\ "edit" \in Words /\ "maintenance" \in Words /\ "reconnect" \in Words /\ "boot" \in Words
    BY ThreadsAssumption, WordsAssumption DEF Threads, Workers, Words
  <1>2. UNCHANGED <<ledger, debits, credits>>
    BY DEF Load, Edit, Unload, RemoveFile, Adjust, Maintain, Probe, Deliver, Accept,
       NotAccepted, Consume, Take, Quiet, Nothing, fileVars, sumVars
  <1>3. ASSUME tpc'[Main] = tpc[Main], work'[Main] = work[Main],
               tpc'[Worker] \in {"append", "save"} => Prepared(Worker)'
        PROVE  ExplainInv'
    BY <1>1, <1>2, <1>3, QuietExplains
  <1>4. CASE Load(Worker) \/ Edit(Worker) \/ Unload(Worker) \/ RemoveFile(Worker) \/ Adjust(Worker)
    BY <1>3, <1>4, OperatorDoes, OperatorPrepares
  <1>5. CASE Maintain(Worker) \/ Probe(Worker)
    <2>1. CASE Done(Worker)
      BY <1>1, <1>3, <2>1, DoneOf
    <2>2. ASSUME NEW why \in {"maintenance", "reconnect"}, media # None,
                 Charge(Worker, Estimated(media, Estimate), Estimate, why)
          PROVE  ExplainInv'
      <3>1. Estimate \in 0..MaxLabels /\ (Countable => Estimate <= HalfRange)
        BY AmountsAssumption DEF Countable
      <3>2. Prepared(Worker)'
        BY <1>1, <1>2, <2>2, <3>1, ChargePrepared
      <3>3. tpc'[Main] = tpc[Main] /\ work'[Main] = work[Main]
        BY <1>5, OperatorDoes
      <3> QED BY <1>3, <3>2, <3>3
    <2> QED BY <1>5, <2>1, <2>2 DEF Maintain, Probe
  <1>6. CASE Deliver(Worker) \/ Accept(Worker) \/ NotAccepted(Worker)
    <2>1. \/ \E pc, m : At(Worker, pc) /\ Make(Worker, m) /\ pc \in {"idle", "deliver"}
          \/ At(Worker, "charge") /\ UNCHANGED work
      BY <1>6 DEF Deliver, Accept, NotAccepted, Done
    <2>2. tpc'[Worker] \in {"idle", "deliver", "charge"}
      BY <1>1, <2>1, MoveOf
    <2>3. tpc'[Main] = tpc[Main] /\ work'[Main] = work[Main]
      BY <1>1, <2>1, MoveOf
    <2> QED BY <1>3, <2>2, <2>3
  <1>7. CASE Consume(Worker)
    <2> DEFINE j == work[Worker].why
    <2>1. j \in Jobs
      BY <1>1, <1>7 DEF Consume, TypeOK
    <2>2. CASE Done(Worker)
      BY <1>1, <1>3, <2>2, DoneOf
    <2>3. CASE /\ media # None /\ Labels[j] # None
               /\ Charge(Worker, Debited(media, Labels[j]), Labels[j], j)
      <3>1. Labels[j] \in 0..MaxLabels /\ (Countable => Labels[j] <= HalfRange)
        BY <2>1, <2>3, AmountsAssumption DEF Countable, Counts
      <3>2. j \notin {"maintenance", "reconnect", "boot"} /\ j # "edit"
        BY <1>1, <2>1
      <3> HIDE DEF j
      <3>3. Prepared(Worker)'
        BY <1>1, <1>2, <2>3, <3>1, <3>2, ChargePrepared
      <3>4. tpc'[Main] = tpc[Main] /\ work'[Main] = work[Main]
        BY <1>1, <2>3, MoveOf DEF Charge
      <3> QED BY <1>3, <3>3, <3>4
    <2> QED BY <1>7, <2>2, <2>3 DEF Consume
  <1> QED BY <1>4, <1>5, <1>6, <1>7

\* The line is written: it is the last one of its number.
LEMMA AppendExplains ==
    ASSUME TypeOK, Within, AccountInv, ChargeInv, ExplainInv, [Next]_vars,
           NEW t \in Threads, AppendLine(t)
    PROVE  ExplainInv'
  <1> SUFFICES ASSUME Writable', Intact' PROVE ExplainInv'
    BY DEF ExplainInv, Explained
  <1>1. /\ tpc[t] = "append" /\ UNCHANGED <<media, debits, credits>> /\ Writable /\ Intact
        /\ ledger' = Append(ledger, work[t].line) /\ At(t, "save") /\ work' = work
    <2>1. PICK o \in Outcomes \cup {"torn"} :
            /\ Spend("fault", Faults(o))
            /\ CASE o = "lost" -> UNCHANGED ledger
                 [] o = "torn" -> Write(Torn)
                 [] OTHER      -> Write(work[t].line)
            /\ IF o # "ok" /\ Strict(t) THEN GiveUp(t) ELSE At(t, "save") /\ UNCHANGED <<work, phase>>
      BY DEF AppendLine
    <2>2. o = "ok" /\ Writable
      BY <2>1, OutcomeOk
    <2>3. Write(work[t].line) /\ work[t].line \in Lines /\ ledger \in Seq(Lines)
      BY <2>1, <2>2 DEF TypeOK, Works
    <2>4. Intact
      BY <2>3, WriteIntact
    <2>5. tpc[t] = "append" /\ Prepared(t)
      BY <2>2, <2>4 DEF ExplainInv, AppendLine
    <2>6. work[t].line.seq # 0
      <3>1. media # None /\ work[t].line.seq = media.seq + 1
        BY <2>5 DEF Prepared
      <3>2. media.seq \in Nat
        BY <3>1 DEF TypeOK, States
      <3> QED BY <3>1, <3>2
    <2>7. ledger' = Append(ledger, work[t].line)
      BY <2>3, <2>6, WriteIntact, UnreadableTypes
    <2> QED BY <2>1, <2>2, <2>4, <2>5, <2>7 DEF AppendLine, sumVars
  <1>2. \A u \in Threads : u # t => tpc'[u] = "idle"
    <2>1. Workers = {Worker}
      BY DEF Workers
    <2>2. \A u \in Threads : u # t => tpc[u] = "idle"
      BY <1>1, <2>1, Alone DEF AccountInv
    <2> QED BY <1>1, <2>2, MoveOf
  <1> DEFINE l == work[t].line
  <1>3. /\ Prepared(t) /\ tpc'[t] = "save" /\ l \in Lines /\ ledger \in Seq(Lines)
        /\ media \in States \cup {None} /\ work[t].why # "edit"
    <2>1. Prepared(t) /\ tpc'[t] = "save"
      BY <1>1, MoveOf DEF ExplainInv
    <2> QED BY <1>1, <2>1 DEF Prepared, TypeOK, Works
  <1>4. media # None /\ l.roll = media.roll /\ l.seq = media.seq + 1
    BY <1>3 DEF Prepared
  <1>5. Explained'
    <2> SUFFICES ASSUME Fits', Countable
                 PROVE  \E page \in [1..media.seq -> Lines] : Page(ledger', media, page)
      BY <1>1 DEF Explained
    <2>1. PICK page \in [1..media.seq -> Lines] : Page(ledger, media, page)
      BY <1>1, <1>4 DEF ExplainInv, Explained, Fits
    <2>2. media \in States /\ l.seq \notin 1..media.seq
      BY <1>3, <1>4 DEF States
    <2> HIDE DEF l
    <2>3. Page(Append(ledger, l), media, page)
      BY <1>3, <2>1, <2>2, PageKept
    <2> QED BY <1>1, <2>1, <2>3 DEF l
  <1>6. LastLine(ledger', media.roll, media.seq + 1, l)
    BY <1>1, <1>3, <1>4, LastNew
  <1>7. Prepared(t)'
    BY <1>1, <1>3, <1>6 DEF Prepared
  <1> QED BY <1>2, <1>5, <1>7 DEF ExplainInv

\* The state is saved: its page is the old one, a new one, or has one entry more.
LEMMA SaveExplains ==
    ASSUME TypeOK, Within, AccountInv, ChargeInv, ExplainInv, [Next]_vars,
           NEW t \in Threads, SaveMedia(t)
    PROVE  ExplainInv'
  <1> SUFFICES ASSUME Writable', Intact' PROVE ExplainInv'
    BY DEF ExplainInv, Explained
  <1>1. /\ tpc[t] = "save" /\ ledger' = ledger /\ Writable /\ Intact
        /\ media' = work[t].draft /\ Account(work[t])
        /\ Done(t) \/ (At(t, "mark") /\ Make(t, Idle))
    <2>1. PICK o \in Outcomes :
        /\ Spend("fault", Faults(o))
        /\ IF Landed(o) THEN media' = work[t].draft /\ Account(work[t])
                        ELSE UNCHANGED <<media, sumVars>>
      BY DEF SaveMedia
    <2>2. o = "ok" /\ Writable
      BY <2>1, OutcomeOk
    <2>3. ledger' = ledger /\ Intact
      BY DEF SaveMedia, Intact
    <2> QED BY <2>1, <2>2, <2>3 DEF SaveMedia, Landed, GiveUp
  <1>2. \A u \in Threads : tpc'[u] \notin {"append", "save"}
    <2>1. Workers = {Worker}
      BY DEF Workers
    <2>2. \A u \in Threads : u # t => tpc[u] = "idle"
      BY <1>1, <2>1, Alone DEF AccountInv
    <2>3. tpc'[t] \in {"idle", "mark"} /\ \A u \in Threads : u # t => tpc'[u] = tpc[u]
      BY <1>1, DoneOf, MoveOf
    <2> QED BY <2>2, <2>3
  <1>3. PICK k \in Works : k = work[t]
    BY DEF TypeOK
  <1>4. /\ Prepared(t) /\ media \in States \cup {None} /\ ledger \in Seq(Lines)
        /\ k.draft \in States /\ k.line \in Lines
        /\ debits \in Nat /\ credits \in Nat /\ k.debit \in Nat /\ k.credit \in Nat
    <2>1. Prepared(t)
      BY <1>1 DEF ExplainInv
    <2> QED BY <1>3, <2>1, Limits DEF TypeOK, Works
  <1> SUFFICES ASSUME Fits', Countable
               PROVE  \E page \in [1..k.draft.seq -> Lines] : Page(ledger, k.draft, page)
    BY <1>1, <1>2, <1>3 DEF ExplainInv, Explained
  <1>5. CASE k.draft.seq = 0 /\ k.draft.remaining = k.draft.initial /\ k.draft.deficit = 0
    <2> DEFINE page == [n \in 1..k.draft.seq |-> k.line]
    <2>1. page \in [1..k.draft.seq -> Lines]
      BY <1>4
    <2>2. Page(ledger, k.draft, page)
      BY <1>5 DEF Page
    <2> QED BY <2>1, <2>2
  <1>6. CASE /\ media # None /\ SamePage(k.draft, media) /\ k.why = "edit"
             /\ k.debit = 0 /\ k.credit = 0
    <2>1. debits' = debits /\ credits' = credits
      BY <1>1, <1>3, <1>4, <1>6 DEF Account, SamePage
    <2>2. Fits
      BY <1>1, <1>3, <1>6, <2>1 DEF Fits, SamePage
    <2>3. PICK page \in [1..media.seq -> Lines] : Page(ledger, media, page)
      BY <1>1, <1>6, <2>2 DEF ExplainInv, Explained
    <2>4. Page(ledger, k.draft, page)
      BY <1>6, <2>3 DEF Page, SamePage
    <2> QED BY <1>6, <2>3, <2>4 DEF SamePage
  <1>7. CASE /\ k.why # "edit" /\ media # None
             /\ k.draft.roll = media.roll /\ k.draft.initial = media.initial
             /\ k.draft.seq = media.seq + 1
             /\ Countable /\ debits + k.debit <= MaxLabels
                /\ media.initial + (credits + k.credit) <= MaxLabels =>
                    Entry(k.line, media, k.draft)
             /\ LastLine(ledger, media.roll, media.seq + 1, k.line)
    <2>1. debits' = debits + k.debit /\ credits' = credits + k.credit
      BY <1>1, <1>3, <1>7 DEF Account
    <2>2. /\ debits + k.debit <= MaxLabels
          /\ media.initial + (credits + k.credit) <= MaxLabels
      BY <1>1, <1>3, <1>7, <2>1 DEF Fits
    <2>3. Fits
      <3>1. media.initial \in Nat /\ MaxLabels \in Nat
        BY <1>4, <1>7, Limits DEF States
      <3> QED BY <1>4, <2>2, <3>1 DEF Fits
    <2>4. PICK page \in [1..media.seq -> Lines] : Page(ledger, media, page)
      BY <1>1, <1>7, <2>3 DEF ExplainInv, Explained
    <2>5. media \in States /\ Entry(k.line, media, k.draft)
      BY <1>4, <1>7, <2>2
    <2> QED BY <1>4, <1>7, <2>4, <2>5, PageTurned
  <1> QED BY <1>1, <1>3, <1>4, <1>5, <1>6, <1>7 DEF Prepared

\* Without a roll there is nothing to explain.
LEMMA RemoveExplains ==
    ASSUME TypeOK, Within, AccountInv, ChargeInv, ExplainInv, [Next]_vars, RemoveFile(Worker)
    PROVE  ExplainInv'
  <1>1. CASE media' = media
    BY <1>1, WorkerPrepares
  <1>2. CASE media' = None
    <2>1. Workers = {Worker} /\ Worker \in Threads /\ tpc[Worker] = "remove" /\ Done(Worker)
      BY DEF Workers, Threads, RemoveFile
    <2>2. \A u \in Threads : tpc'[u] = "idle"
      BY <2>1, Alone, DoneOf DEF AccountInv
    <2> QED BY <1>2, <2>2 DEF ExplainInv, Explained
  <1> QED BY <1>1, <1>2 DEF RemoveFile

\* main prepares the charge of a boot.
LEMMA MainExplains ==
    ASSUME TypeOK, Within, AccountInv, ChargeInv, ExplainInv, [Next]_vars,
           Start \/ MarkBoot \/ Serve
    PROVE  ExplainInv'
  <1>1. /\ Worker \in Threads /\ Main \in Threads /\ Main # Worker
        /\ Threads = {Worker, Main} /\ "boot" # "edit"
    BY ThreadsAssumption DEF Threads, Workers
  <1>2. UNCHANGED <<media, ledger, debits, credits>>
    BY DEF Start, MarkBoot, Serve, fileVars, sumVars
  <1>3. ASSUME tpc'[Worker] = tpc[Worker], work'[Worker] = work[Worker],
               tpc'[Main] \in {"append", "save"} => Prepared(Main)'
        PROVE  ExplainInv'
    BY <1>1, <1>2, <1>3, QuietExplains
  <1>4. CASE Start
    <2>1. CASE (At(Main, "ready") \/ At(Main, "mark")) /\ UNCHANGED work
      <3>1. tpc'[Main] \in {"ready", "mark"} /\ tpc'[Worker] = tpc[Worker] /\ work' = work
        BY <1>1, <2>1, MoveOf
      <3> QED BY <1>3, <3>1
    <2>2. CASE media # None /\ Charge(Main, Estimated(media, BootLoss), BootLoss, "boot")
      <3>1. BootLoss \in 0..MaxLabels /\ (Countable => BootLoss <= HalfRange)
        BY AmountsAssumption DEF Countable
      <3>2. Prepared(Main)'
        BY <1>1, <1>2, <2>2, <3>1, ChargePrepared
      <3>3. tpc'[Worker] = tpc[Worker] /\ work'[Worker] = work[Worker]
        BY <1>1, <2>2, MoveOf DEF Charge
      <3> QED BY <1>3, <3>2, <3>3
    <2> QED BY <1>4, <2>1, <2>2 DEF Start
  <1>5. CASE MarkBoot \/ Serve
    <2>1. \/ (At(Main, "ready") \/ At(Main, "idle")) /\ UNCHANGED work
          \/ Done(Main)
      BY <1>5 DEF MarkBoot, Serve, GiveUp
    <2>2. /\ tpc'[Main] \in {"ready", "idle"}
          /\ tpc'[Worker] = tpc[Worker] /\ work'[Worker] = work[Worker]
      BY <1>1, <2>1, MoveOf, DoneOf
    <2> QED BY <1>3, <2>2
  <1> QED BY <1>4, <1>5

LEMMA OutsideExplains ==
    ASSUME TypeOK, Within, ExplainInv, [Next]_vars,
           \/ Request \/ RequestEdit \/ \E j \in Jobs : Submit(j)
           \/ HostBoot \/ UNCHANGED vars
    PROVE  ExplainInv'
  <1>1. UNCHANGED <<media, ledger, debits, credits>>
    BY DEF Request, RequestEdit, Submit, Post, HostBoot, vars, fileVars, sumVars
  <1>2. UNCHANGED <<tpc, work>>
    BY DEF Request, RequestEdit, Submit, Post, HostBoot, vars, threadVars
  <1> QED BY <1>1, <1>2, QuietExplains

\* The line a crash leaves open has no number, so that it is on no page.
LEMMA CrashExplains ==
    ASSUME TypeOK, Within, ExplainInv, [Next]_vars, Crash
    PROVE  ExplainInv'
  <1>1. /\ UNCHANGED <<media, debits, credits>> /\ \A t \in Threads : tpc'[t] = "idle"
        /\ ledger' = ledger \/ Write(Torn)
        /\ ledger \in Seq(Lines) /\ media \in States \cup {None}
        /\ Torn \in Lines /\ Torn.seq = 0
    BY AppendsOf, UnreadableTypes DEF Crash, sumVars, TypeOK
  <1>2. CASE ledger' = ledger
    BY <1>1, <1>2, QuietExplains
  <1>3. CASE ledger # <<>> /\ Last(ledger) = Torn /\ Write(Torn)
    <2>1. ledger' = [ledger EXCEPT ![Len(ledger)] = ledger[Len(ledger)]]
      BY <1>3 DEF Write, Last
    <2>2. ledger' = ledger
      BY <1>1, <2>1
    <2> QED BY <1>2, <2>2
  <1>4. CASE ~(ledger # <<>> /\ Last(ledger) = Torn) /\ Write(Torn)
    <2>1. ledger' = Append(ledger, Torn)
      BY <1>4 DEF Write
    <2> SUFFICES ASSUME media # None, Writable', Fits', Countable, Intact'
                 PROVE  \E page \in [1..media.seq -> Lines] : Page(ledger', media, page)
      BY <1>1 DEF ExplainInv, Explained
    <2>2. Writable /\ Fits
      BY <1>1, WithinStep DEF Fits
    <2>3. \A i \in DOMAIN ledger : i \in DOMAIN ledger' /\ ledger'[i] = ledger[i]
      BY <1>1, <2>1
    <2>4. Intact
      BY <2>3 DEF Intact
    <2>5. PICK page \in [1..media.seq -> Lines] : Page(ledger, media, page)
      BY <2>2, <2>4 DEF ExplainInv, Explained
    <2>6. Torn.seq \notin 1..media.seq
      BY <1>1 DEF States
    <2> HIDE DEF Torn
    <2>7. Page(ledger', media, page)
      BY <1>1, <2>1, <2>5, <2>6, PageKept
    <2> QED BY <2>5, <2>7
  <1> QED BY <1>1, <1>2, <1>3, <1>4

LEMMA ExplainNext ==
    ASSUME TypeOK, Within, AccountInv, ChargeInv, ExplainInv, [Next]_vars
    PROVE  ExplainInv'
  <1>1. Worker \in Threads /\ Main \in Threads
    BY DEF Threads, Workers
  <1>2. ASSUME NEW w \in Workers, WorkerStep(w) PROVE ExplainInv'
    <2>1. WorkerStep(Worker)
      BY <1>2 DEF Workers
    <2>2. CASE AppendLine(Worker) \/ SaveMedia(Worker) \/ RemoveFile(Worker)
      BY <1>1, <2>2, AppendExplains, SaveExplains, RemoveExplains
    <2>3. CASE \/ Load(Worker) \/ Edit(Worker) \/ Unload(Worker) \/ Adjust(Worker)
               \/ Maintain(Worker) \/ Probe(Worker) \/ Deliver(Worker) \/ Accept(Worker)
               \/ NotAccepted(Worker) \/ Consume(Worker)
      <3>1. media' = media
        BY <2>3 DEF Load, Edit, Unload, Adjust, Maintain, Probe, Deliver, Accept,
           NotAccepted, Consume, Nothing, fileVars
      <3> QED BY <2>3, <3>1, WorkerPrepares
    <2> QED BY <2>1, <2>2, <2>3 DEF WorkerStep
  <1>3. CASE MainStep
    BY <1>1, <1>3, AppendExplains, SaveExplains, MainExplains DEF MainStep
  <1> QED BY <1>2, <1>3, OutsideExplains, CrashExplains DEF Next

LEMMA ExplainInit == Init => ExplainInv
  BY DEF Init, ExplainInv, Explained, Threads

\* As long as files can be written, the sums fit 64 bits, no count exceeds an i64
\* and no line was lost to an open one, the lines that count for the loaded roll lead from the new roll to the
\* state in media.json, whatever crashes fall between an append and its save.
THEOREM LedgerExplainsState == Spec => []LedgerExplains
  <1>1. BootInv => Within
    BY DEF BootInv
  <1>2. ExplainInv => Explained
    BY DEF ExplainInv
  <1> QED BY <1>1, <1>2, AccountTyped, AccountInvariant, BootInvariant, ExplainInit,
             ExplainNext, PageExplains, PTL DEF Spec
=============================================================================
