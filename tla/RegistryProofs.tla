---------------------------- MODULE RegistryProofs ----------------------------
(***************************************************************************)
(* Saving a printer, for any number of printers, submissions, requests,    *)
(* pauses and restarts: file, list and workers agree between requests, no  *)
(* job is sent twice and none is forgotten, outside the races and the      *)
(* paused threads the properties name.                                     *)
(***************************************************************************)
EXTENDS Registry, SequenceTheorems, FiniteSetTheorems, TLAPS

-----------------------------------------------------------------------------
(* The strengthening.                                                        *)

InSeq(s, j) == \E i \in DOMAIN s : s[i] = j
Once(s)     == \A i, k \in DOMAIN s : s[i] = s[k] => i = k

\* The thread has the job in hand, in its queue or in its channel.
Has(t, j) == j = t.job \/ InSeq(t.queue, j) \/ InSeq(t.inbox, j)

\* How often a printer can have got a new worker: every request costs one save.
Active  == {a \in Admins : admin[a].pc # "idle"}
Bounded ==
    /\ \A kind \in {"save", "crash", "fault"} : budget[kind] <= Budget[kind]
    /\ IsFiniteSet(Active)
    /\ \A p \in Printers : born[p] + Cardinality(Active) + budget.save <= Budget.save + 1

\* Nothing of the process is left while it is down.
AtRest ==
    ~up => /\ \A p \in Printers : workers[p] = 0 /\ born[p] = 0
           /\ \A p \in Printers, g \in Generations : thread[p][g] = Absent
           /\ \A j \in Jobs : hpc[j] \in {"new", "done"}
           /\ \A a \in Admins : admin[a].pc = "idle"

\* A thread that is in the map, or that a submission looked up, is there.
ThreadShape(p, g) ==
    LET t == thread[p][g] IN
    /\ t.pc = "none" => t = Absent
    /\ t.pc # "none" => t.config \in Enabled
    /\ t.pc = "boot" => t.queue = <<>>
    /\ g > born[p] => t.pc = "none"
    /\ Connected(p, g) => t.pc # "none"

HandlerShape(j) ==
    /\ handle[j] = 0 <=> hpc[j] \in {"new", "done"}
    /\ hpc[j] \in {"new", "create"} => record[j] = "none"
    /\ hpc[j] = "lock" => record[j] = IF j \in V2Jobs THEN "none" ELSE "receiving"
    /\ hpc[j] = "queue" => record[j] = "receiving"
    /\ hpc[j] = "enqueue" => record[j] = "queued"

\* What lies in a queue, or in the hands of a thread, is a job of that printer
\* that its submission handed over.
Filed(p, j) == /\ Target[j] = p /\ hpc[j] \in {"reply", "done"}
               /\ record[j] \notin {"none", "receiving"}
Placed(p) ==
    /\ \A j \in Jobs : InSeq(qfile[p], j) => Filed(p, j)
    /\ \A g \in Generations, j \in Jobs : Has(thread[p][g], j) => Filed(p, j)
    /\ \A g \in Generations : thread[p][g].pc \in {"deliver", "charge", "save"} =>
                                  record[thread[p][g].job] # "queued"

BaseInv ==
    /\ TypeOK /\ Bounded /\ AtRest
    /\ \A p \in Printers : workers[p] <= born[p]
    /\ \A p \in Printers, g \in Generations : ThreadShape(p, g)
    /\ \A j \in Jobs : HandlerShape(j)
    /\ \A p \in Printers : Placed(p)

\* While a worker is being replaced, no job of its printer is under way.
Closed(j) == \/ record[j] = "none" /\ handle[j] = 0
             \/ record[j] \in {"accepted", "unknown", "failed"}
Past(a)   == admin[a].pc \in {"store", "memory", "swap"}
AllClosed == \A a \in Admins, j \in Jobs : Past(a) /\ Target[j] = admin[a].printer => Closed(j)

\* A job that is not handed over yet goes to the worker in the map.
HandlesCurrent == \A j \in Jobs : hpc[j] \in {"create", "lock", "queue", "enqueue"} =>
                                      handle[j] = workers[Target[j]]

\* A thread that was replaced has nothing left but to charge its last job.
OldFinished == \A p \in Printers, g \in Generations : g # workers[p] =>
                   LET t == thread[p][g] IN
                   /\ t.queue = <<>> /\ t.inbox = <<>>
                   /\ t.pc \in {"none", "loop", "charge", "save"}

\* What waits is Queued, and waits in one place.
ThreadQueued(p, g) ==
    LET t == thread[p][g] IN
    /\ \A j \in Jobs : InSeq(t.queue, j) \/ InSeq(t.inbox, j) => record[j] = "queued"
    /\ t.pc \in {"load", "claim"} => record[t.job] = "queued"
    /\ t.pc = "deliver" => record[t.job] = "writing"
WaitingQueued(p) == /\ \A j \in Jobs : InSeq(qfile[p], j) => record[j] = "queued"
                    /\ \A g \in Generations : ThreadQueued(p, g)

\* A thread that has not loaded its queue yet will load queue.json.
ToLoad(p, g) == IF thread[p][g].pc = "boot" THEN qfile[p] ELSE thread[p][g].queue
ThreadPlace(p, g) ==
    LET t == thread[p][g]
        q == ToLoad(p, g)
    IN /\ Once(q) /\ Once(t.inbox)
       /\ \A j \in Jobs : ~(InSeq(q, j) /\ InSeq(t.inbox, j))
       /\ t.pc \in {"load", "claim"} => ~InSeq(q, t.job) /\ ~InSeq(t.inbox, t.job)
       /\ t.pc # "boot" /\ workers[p] = g => qfile[p] = t.queue
OnePlace(p) == \A g \in Generations : ThreadPlace(p, g)

SentRecorded == \A j \in Jobs : /\ sent[j] <= 1
                                /\ sent[j] > 0 => record[j] \in {"writing", "accepted", "unknown"}

\* What lies in queue.json and with the threads.
Waiting == OldFinished /\ SentRecorded /\ \A p \in Printers : WaitingQueued(p) /\ OnePlace(p)
Orderly == AllClosed /\ HandlesCurrent /\ Waiting
OnceInv == ~straddled => Orderly

\* One request at a time is between its save and the end, and the three say what
\* they should at each of its steps.
Want(c)   == IF c \in Enabled THEN c ELSE None
Served(p) == Serving(p) = Want(memory[p])
Landed(a) == admin[a].pc \in {"memory", "swap"}
StepwiseAgreement ==
    /\ \A a, b \in Admins : Landed(a) /\ Landed(b) => a = b
    /\ up /\ (\A a \in Admins : ~Landed(a)) => file = memory /\ \A p \in Printers : Served(p)
    /\ \A a \in Admins :
           LET r == admin[a] IN
           /\ r.pc = "memory" => /\ r.candidate = [memory EXCEPT ![r.printer] = r.config]
                                 /\ file = r.candidate
                                 /\ \A p \in Printers : Served(p)
           /\ r.pc = "swap" => /\ file = memory /\ memory[r.printer] = r.config
                               /\ \A p \in Printers \ {r.printer} : Served(p)
AgreeInv == ~overlapped /\ Writable => StepwiseAgreement

\* Before the first crash: whatever races, a queued job is with a thread, unless a
\* paused thread left it.
InHands(j)   == \/ hpc[j] = "enqueue" \/ j \in left
                \/ \E g \in Generations : Has(thread[Target[j]][g], j)
UntilCrash   == budget.crash = Budget.crash =>
                    \A j \in Jobs : IF up THEN record[j] = "queued" => InHands(j)
                                          ELSE record[j] = "none"
\* After it: also while the process is down, the printer of a queued job is enabled.
AfterCrash   == ~straddled /\ ~overlapped /\ Writable =>
                    \A j \in Jobs : record[j] = "queued" =>
                        IF up THEN hpc[j] = "enqueue" \/ Held(j)
                              ELSE file[Target[j]] \in Enabled

RegistryInv == BaseInv /\ OnceInv /\ AgreeInv /\ UntilCrash /\ AfterCrash

-----------------------------------------------------------------------------
(* Sequences of jobs. *)

LEMMA NothingInEmpty == Once(<<>>) /\ \A j : ~InSeq(<<>>, j)
  BY DEF Once, InSeq

LEMMA HeadAndTail ==
    ASSUME NEW s \in Seq(Jobs), s # <<>>
    PROVE  /\ Head(s) \in Jobs /\ Tail(s) \in Seq(Jobs)
           /\ \A j : InSeq(s, j) <=> j = Head(s) \/ InSeq(Tail(s), j)
           /\ Once(s) => Once(Tail(s)) /\ ~InSeq(Tail(s), Head(s))
<1>1. /\ Head(s) = s[1] /\ Head(s) \in Jobs /\ Tail(s) \in Seq(Jobs)
      /\ DOMAIN s = 1..Len(s) /\ Len(s) \in Nat /\ Len(s) >= 1
      /\ DOMAIN Tail(s) = 1..(Len(s) - 1)
      /\ \A i \in 1..(Len(s) - 1) : Tail(s)[i] = s[i + 1]
  OBVIOUS
<1>2. ASSUME NEW j PROVE InSeq(s, j) <=> j = Head(s) \/ InSeq(Tail(s), j)
  <2>1. ASSUME NEW i \in 1..Len(s), s[i] = j PROVE j = Head(s) \/ InSeq(Tail(s), j)
    <3>1. CASE i = 1
      BY <1>1, <2>1, <3>1
    <3>2. CASE i # 1
      <4>1. i - 1 \in 1..(Len(s) - 1) /\ Tail(s)[i - 1] = s[i]
        BY <1>1, <3>2
      <4> QED BY <1>1, <2>1, <4>1 DEF InSeq
    <3> QED BY <3>1, <3>2
  <2>2. ASSUME NEW i \in 1..(Len(s) - 1), Tail(s)[i] = j PROVE InSeq(s, j)
    <3>1. i + 1 \in 1..Len(s) /\ s[i + 1] = j
      BY <1>1, <2>2
    <3> QED BY <1>1, <3>1 DEF InSeq
  <2>3. j = Head(s) => InSeq(s, j)
    <3>1. 1 \in DOMAIN s
      BY <1>1
    <3> QED BY <1>1, <3>1 DEF InSeq
  <2> QED BY <1>1, <2>1, <2>2, <2>3 DEF InSeq
<1>3. ASSUME Once(s) PROVE Once(Tail(s)) /\ ~InSeq(Tail(s), Head(s))
  <2>1. ASSUME NEW i \in 1..(Len(s) - 1), NEW k \in 1..(Len(s) - 1), Tail(s)[i] = Tail(s)[k]
        PROVE  i = k
    <3>1. i + 1 \in 1..Len(s) /\ k + 1 \in 1..Len(s) /\ s[i + 1] = s[k + 1]
      BY <1>1, <2>1
    <3>2. i + 1 = k + 1
      BY <1>1, <1>3, <3>1 DEF Once
    <3> QED BY <3>2
  <2>2. ASSUME NEW i \in 1..(Len(s) - 1), Tail(s)[i] = Head(s) PROVE FALSE
    <3>1. i + 1 \in 1..Len(s) /\ 1 \in 1..Len(s) /\ s[i + 1] = s[1]
      BY <1>1, <2>2
    <3>2. i + 1 = 1
      BY <1>1, <1>3, <3>1 DEF Once
    <3> QED BY <3>2
  <2> QED BY <1>1, <2>1, <2>2 DEF Once, InSeq
<1> QED BY <1>1, <1>2, <1>3

LEMMA AppendedLast ==
    ASSUME NEW s \in Seq(Jobs), NEW j \in Jobs
    PROVE  /\ Append(s, j) \in Seq(Jobs)
           /\ \A k : InSeq(Append(s, j), k) <=> InSeq(s, k) \/ k = j
           /\ Once(s) /\ ~InSeq(s, j) => Once(Append(s, j))
<1>1. /\ Append(s, j) \in Seq(Jobs) /\ Len(s) \in Nat
      /\ DOMAIN s = 1..Len(s) /\ DOMAIN Append(s, j) = 1..(Len(s) + 1)
      /\ \A i \in 1..Len(s) : Append(s, j)[i] = s[i]
      /\ Append(s, j)[Len(s) + 1] = j
  OBVIOUS
<1>2. \A i \in 1..(Len(s) + 1) : i \in 1..Len(s) \/ i = Len(s) + 1
  BY <1>1
<1>3. ASSUME NEW k PROVE InSeq(Append(s, j), k) <=> InSeq(s, k) \/ k = j
  <2>1. Len(s) + 1 \in 1..(Len(s) + 1) /\ \A i \in 1..Len(s) : i \in 1..(Len(s) + 1)
    BY <1>1
  <2> QED BY <1>1, <1>2, <2>1 DEF InSeq
<1>4. ASSUME Once(s), ~InSeq(s, j) PROVE Once(Append(s, j))
  BY <1>1, <1>2, <1>4 DEF Once, InSeq
<1> QED BY <1>1, <1>3, <1>4

\* The order in which a directory is read: every job of the set, each once.
LEMMA AnyOrder ==
    ASSUME NEW S \in SUBSET Jobs, NEW s \in SetToSeqs(S)
    PROVE  /\ s \in Seq(Jobs) /\ Once(s)
           /\ \A j : InSeq(s, j) <=> j \in S
<1>1. IsFiniteSet(S)
  BY IdsAssumption, FS_Subset
<1>2. /\ Cardinality(S) \in Nat
      /\ s \in [1..Cardinality(S) -> S]
      /\ \A i, k \in 1..Cardinality(S) : i # k => s[i] # s[k]
  BY <1>1, FS_CardinalityType DEF SetToSeqs
<1>3. s \in Seq(Jobs) /\ DOMAIN s = 1..Cardinality(S)
  BY <1>2
<1>4. ASSUME NEW j \in S, ~InSeq(s, j) PROVE FALSE
  <2>1. IsFiniteSet(S \ {j}) /\ Cardinality(S \ {j}) = Cardinality(S) - 1
    BY <1>1, <1>4, FS_RemoveElement
  <2>2. s \in [1..Cardinality(S) -> S \ {j}]
    BY <1>2, <1>4 DEF InSeq
  <2>3. IsFiniteSet(1..Cardinality(S)) /\ Cardinality(1..Cardinality(S)) = Cardinality(S)
    BY <1>2, FS_Interval
  <2> DEFINE D == 1..Cardinality(S)
             T == S \ {j}
  <2>4. Cardinality(T) < Cardinality(D) /\ IsFiniteSet(D) /\ IsFiniteSet(T) /\ s \in [D -> T]
    BY <1>2, <2>1, <2>2, <2>3
  <2>5. \E i, k \in D : i # k /\ s[i] = s[k]
    <3> HIDE DEF D, T
    <3> QED BY <2>4, FS_PigeonHole
  <2> QED BY <1>2, <2>5
<1> QED BY <1>2, <1>3, <1>4 DEF Once, InSeq

-----------------------------------------------------------------------------
(* Types, and what each step of a thread does to it.                         *)

Busy == {"load", "claim", "deliver", "charge", "save"}
AllThreads == [Printers -> [Generations -> Threads]]

LEMMA AbsentType == Absent \in Threads /\ Idle \notin Requests /\ None \notin Jobs
  BY IdsAssumption DEF Absent, Threads, Idle, Requests

LEMMA ThreadType ==
    ASSUME TypeOK, NEW p \in Printers, NEW g \in Generations
    PROVE  LET t == thread[p][g] IN
           /\ t \in Threads
           /\ t.pc \in {"none", "boot", "loop"} \cup Busy
           /\ t.config \in Configs \cup {None} /\ t.queue \in Seq(Jobs) /\ t.inbox \in Seq(Jobs)
           /\ t.job \in Jobs \cup {None} /\ t.read \in Nat
           /\ t.job \in Jobs <=> t.pc \in Busy
           /\ qfile[p] \in Seq(Jobs) /\ roll[p] \in Nat
<1>1. thread[p][g] \in Threads /\ (thread[p][g].job # None) <=> thread[p][g].pc \in Busy
  BY DEF TypeOK, Busy
<1> QED BY <1>1, IdsAssumption DEF TypeOK, Threads, Busy

LEMMA BecomesType ==
    ASSUME TypeOK, NEW p \in Printers, NEW g \in Generations, NEW t \in Threads,
           t.job # None <=> t.pc \in Busy, Becomes(p, g, t)
    PROVE  /\ thread' \in AllThreads /\ thread'[p][g] = t
           /\ \A q \in Printers, h \in Generations :
                  q # p \/ h # g => thread'[q][h] = thread[q][h]
           /\ \A q \in Printers, h \in Generations :
                  (thread'[q][h].job # None) <=> thread'[q][h].pc \in Busy
<1>1. thread \in AllThreads /\ thread' = [thread EXCEPT ![p][g] = t]
  BY DEF TypeOK, AllThreads, Becomes
<1>2. /\ thread' \in AllThreads /\ thread'[p][g] = t
      /\ \A q \in Printers, h \in Generations : q # p \/ h # g => thread'[q][h] = thread[q][h]
  BY <1>1 DEF AllThreads
<1>3. \A q \in Printers, h \in Generations :
          (thread[q][h].job # None) <=> thread[q][h].pc \in Busy
  BY DEF TypeOK, Busy
<1> QED BY <1>2, <1>3

\* Only a pause or a resumption costs something of the budget.
LEMMA PauseSpends ==
    ASSUME TypeOK, Spend("pause", 1) \/ UNCHANGED budget
    PROVE  /\ budget' \in [save : Nat, pause : Nat, crash : Nat, fault : Nat]
           /\ budget'.save = budget.save /\ budget'.crash = budget.crash
           /\ budget'.fault = budget.fault
<1>1. budget \in [save : Nat, pause : Nat, crash : Nat, fault : Nat]
  BY DEF TypeOK
<1>2. CASE UNCHANGED budget
  BY <1>1, <1>2
<1>3. CASE Spend("pause", 1)
  <2>1. budget.pause >= 1 /\ budget' = [budget EXCEPT !.pause = @ - 1]
    BY <1>1, <1>3 DEF Spend
  <2>2. budget.pause - 1 \in Nat
    BY <1>1, <2>1
  <2> QED BY <1>1, <2>1, <2>2
<1> QED BY <1>2, <1>3

\* One step of a thread changes that thread, files of its printer and records.
LEMMA ThreadFrame ==
    ASSUME TypeOK, NEW p \in Printers, NEW g \in Generations, ThreadStep(p, g)
    PROVE  /\ thread' \in AllThreads /\ thread[p][g].pc # "none"
           /\ \A q \in Printers, h \in Generations :
                  q # p \/ h # g => thread'[q][h] = thread[q][h]
           /\ \A q \in Printers, h \in Generations :
                  (thread'[q][h].job # None) <=> thread'[q][h].pc \in Busy
           /\ ProcessQuiet
           /\ Spend("pause", 1) \/ UNCHANGED budget
           /\ pfile' \in [Printers -> BOOLEAN] /\ left' \subseteq Jobs /\ left \subseteq left'
           /\ \A q \in Printers : q # p => qfile'[q] = qfile[q]
<1> DEFINE t == thread[p][g]
<1>1. /\ t \in Threads /\ qfile[p] \in Seq(Jobs) /\ roll[p] \in Nat
      /\ t.job \in Jobs <=> t.pc \in Busy
      /\ t.job = None <=> t.pc \notin Busy
      /\ t.queue \in Seq(Jobs) /\ t.inbox \in Seq(Jobs)
  BY ThreadType, IdsAssumption
<1>0. pfile[p] \in BOOLEAN
  BY DEF TypeOK
<1>2. \E u \in Threads : (u.job # None <=> u.pc \in Busy) /\ Becomes(p, g, u)
  <2>1. CASE LoadQueue(p, g)
    <3>1. [t EXCEPT !.pc = "loop", !.queue = qfile[p], !.paused = pfile[p]] \in Threads
      BY <1>0, <1>1 DEF Threads
    <3> QED BY <1>1, <2>1, <3>1 DEF LoadQueue, At, Busy, Threads
  <2>2. CASE Pop(p, g)
    <3>1. Head(t.queue) \in Jobs /\ Tail(t.queue) \in Seq(Jobs) /\ Head(t.queue) # None
      BY <1>1, <2>2, HeadAndTail, IdsAssumption DEF Pop
    <3>2. [t EXCEPT !.pc = "load", !.queue = Tail(t.queue), !.job = Head(t.queue)] \in Threads
      BY <1>1, <3>1 DEF Threads
    <3> QED BY <1>1, <2>2, <3>1, <3>2 DEF Pop, Busy, Threads
  <2>3. CASE LoadJob(p, g)
    <3>1. /\ [t EXCEPT !.pc = "claim"] \in Threads
          /\ [t EXCEPT !.pc = "loop", !.job = None] \in Threads
      BY <1>1 DEF Threads
    <3> QED BY <1>1, <2>3, <3>1 DEF LoadJob, At, Busy, Threads
  <2>4. CASE Claim(p, g)
    <3>1. [t EXCEPT !.pc = "deliver"] \in Threads
      BY <1>1 DEF Threads
    <3> QED BY <1>1, <2>4, <3>1 DEF Claim, At, Busy, Threads
  <2>5. CASE Accept(p, g)
    <3>1. [t EXCEPT !.pc = "charge"] \in Threads
      BY <1>1 DEF Threads
    <3> QED BY <1>1, <2>5, <3>1 DEF Accept, At, Busy, Threads
  <2>6. CASE LoadMedia(p, g)
    <3>1. [t EXCEPT !.pc = "save", !.read = roll[p]] \in Threads
      BY <1>1 DEF Threads
    <3> QED BY <1>1, <2>6, <3>1 DEF LoadMedia, At, Busy, Threads
  <2>7. CASE SaveMedia(p, g)
    <3>1. [t EXCEPT !.pc = "loop", !.job = None, !.read = 0] \in Threads
      BY <1>1 DEF Threads
    <3> QED BY <1>1, <2>7, <3>1 DEF SaveMedia, At, Busy, Threads
  <2>8. CASE ReceiveEnqueue(p, g)
    <3>1. Head(t.inbox) \in Jobs /\ Tail(t.inbox) \in Seq(Jobs)
      BY <1>1, <2>8, HeadAndTail DEF ReceiveEnqueue
    <3>2. Append(t.queue, Head(t.inbox)) \in Seq(Jobs)
      BY <1>1, <3>1
    <3>3. [t EXCEPT !.queue = Append(t.queue, Head(t.inbox)), !.inbox = Tail(@)] \in Threads
      BY <1>1, <3>1, <3>2 DEF Threads
    <3> QED BY <1>1, <2>8, <3>3 DEF ReceiveEnqueue, Listening, At, Busy, Threads
  <2>9. CASE Exit(p, g)
    BY <2>9, AbsentType DEF Exit, Absent, Busy
  <2>10. CASE SetQueuePaused(p, g)
    <3>1. PICK paused \in BOOLEAN : Becomes(p, g, [t EXCEPT !.paused = paused])
      BY <2>10 DEF SetQueuePaused
    <3>2. [t EXCEPT !.paused = paused] \in Threads
      BY <1>1 DEF Threads
    <3> QED BY <1>1, <2>10, <3>1, <3>2 DEF SetQueuePaused, Listening, At, Busy, Threads
  <2> QED BY <2>1, <2>2, <2>3, <2>4, <2>5, <2>6, <2>7, <2>8, <2>9, <2>10 DEF ThreadStep
<1>3. /\ thread' \in AllThreads
      /\ \A q \in Printers, h \in Generations : q # p \/ h # g => thread'[q][h] = thread[q][h]
      /\ \A q \in Printers, h \in Generations :
             (thread'[q][h].job # None) <=> thread'[q][h].pc \in Busy
  BY <1>2, BecomesType
<1>4. ProcessQuiet /\ t.pc # "none" /\ (Spend("pause", 1) \/ UNCHANGED budget)
  BY DEF ThreadStep, LoadQueue, Pop, LoadJob, Claim, Accept, LoadMedia, SaveMedia,
     ReceiveEnqueue, SetQueuePaused, Exit, Listening, At, ThreadQuiet
<1>6. pfile' \in [Printers -> BOOLEAN]
  <2>1. UNCHANGED pfile \/ \E b \in BOOLEAN : pfile' = [pfile EXCEPT ![p] = b]
    BY DEF ThreadStep, LoadQueue, Pop, LoadJob, Claim, Accept, LoadMedia, SaveMedia,
       ReceiveEnqueue, SetQueuePaused, Exit, ThreadQuiet
  <2> QED BY <2>1 DEF TypeOK
<1>7. left' \subseteq Jobs /\ left \subseteq left'
  <2>1. left' \in {left, left \cup ToSet(t.queue)}
    BY DEF ThreadStep, LoadQueue, Pop, LoadJob, Claim, Accept, LoadMedia, SaveMedia,
       ReceiveEnqueue, SetQueuePaused, Exit, Leaves, ThreadQuiet
  <2>2. left \subseteq Jobs /\ ToSet(t.queue) \subseteq Jobs
    BY <1>1 DEF TypeOK, ToSet
  <2> QED BY <2>1, <2>2
<1>5. \A q \in Printers : q # p => qfile'[q] = qfile[q]
  <2>1. \/ UNCHANGED qfile
        \/ \E s : qfile' = [qfile EXCEPT ![p] = s]
    BY DEF ThreadStep, LoadQueue, Pop, LoadJob, Claim, Accept, LoadMedia, SaveMedia,
       ReceiveEnqueue, SetQueuePaused, Exit
  <2> QED BY <2>1 DEF TypeOK
<1> QED BY <1>3, <1>4, <1>5, <1>6, <1>7

-----------------------------------------------------------------------------
(* What each step of a thread does to it, field by field.                    *)

LEMMA LoadQueueDoes ==
    ASSUME TypeOK, NEW p \in Printers, NEW g \in Generations, LoadQueue(p, g)
    PROVE  LET t == thread[p][g]
               u == thread'[p][g]
           IN /\ t.pc = "boot" /\ u.pc = "loop" /\ u.config = t.config
              /\ u.queue = qfile[p] /\ u.inbox = t.inbox /\ u.job = t.job
              /\ UNCHANGED <<qfile, record, sent>>
<1>1. thread[p][g] \in Threads /\ thread \in AllThreads
  BY DEF TypeOK, AllThreads
<1> QED BY <1>1 DEF LoadQueue, At, Becomes, AllThreads, Threads

LEMMA PopDoes ==
    ASSUME TypeOK, NEW p \in Printers, NEW g \in Generations, Pop(p, g)
    PROVE  LET t == thread[p][g]
               u == thread'[p][g]
           IN /\ t.pc = "loop" /\ t.queue # <<>> /\ u.pc = "load" /\ u.config = t.config
              /\ u.queue = Tail(t.queue) /\ u.inbox = t.inbox /\ u.job = Head(t.queue)
              /\ qfile'[p] = Tail(t.queue)
              /\ UNCHANGED <<record, sent>>
<1>1. thread[p][g] \in Threads /\ thread \in AllThreads /\ qfile \in [Printers -> Seq(Jobs)]
  BY DEF TypeOK, AllThreads
<1> QED BY <1>1 DEF Pop, At, Becomes, AllThreads, Threads

LEMMA LoadJobDoes ==
    ASSUME TypeOK, NEW p \in Printers, NEW g \in Generations, LoadJob(p, g)
    PROVE  LET t == thread[p][g]
               u == thread'[p][g]
           IN /\ t.pc = "load" /\ u.config = t.config
              /\ u.queue = t.queue /\ u.inbox = t.inbox
              /\ \/ record[t.job] = "queued" /\ u.pc = "claim" /\ u.job = t.job
                 \/ record[t.job] # "queued" /\ u.pc = "loop" /\ u.job = None
              /\ UNCHANGED <<qfile, record, sent>>
<1>1. thread[p][g] \in Threads /\ thread \in AllThreads
  BY DEF TypeOK, AllThreads
<1> QED BY <1>1 DEF LoadJob, At, Becomes, AllThreads, Threads

LEMMA ClaimDoes ==
    ASSUME TypeOK, NEW p \in Printers, NEW g \in Generations, Claim(p, g)
    PROVE  LET t == thread[p][g]
               u == thread'[p][g]
           IN /\ t.pc = "claim" /\ t.job \in Jobs /\ u.pc = "deliver" /\ u.config = t.config
              /\ u.queue = t.queue /\ u.inbox = t.inbox /\ u.job = t.job
              /\ record' = [record EXCEPT ![t.job] = "writing"]
              /\ sent' = [sent EXCEPT ![t.job] = @ + 1]
              /\ UNCHANGED qfile
<1>1. thread[p][g] \in Threads /\ thread \in AllThreads
  BY DEF TypeOK, AllThreads
<1>2. thread[p][g].pc = "claim" => thread[p][g].job \in Jobs
  BY ThreadType DEF Busy
<1> QED BY <1>1, <1>2 DEF Claim, At, Becomes, AllThreads, Threads

LEMMA AcceptDoes ==
    ASSUME TypeOK, NEW p \in Printers, NEW g \in Generations, Accept(p, g)
    PROVE  LET t == thread[p][g]
               u == thread'[p][g]
           IN /\ t.pc = "deliver" /\ t.job \in Jobs /\ u.pc = "charge" /\ u.config = t.config
              /\ u.queue = t.queue /\ u.inbox = t.inbox /\ u.job = t.job
              /\ record' = [record EXCEPT ![t.job] = "accepted"]
              /\ UNCHANGED <<qfile, sent>>
<1>1. thread[p][g] \in Threads /\ thread \in AllThreads
  BY DEF TypeOK, AllThreads
<1>2. thread[p][g].pc = "deliver" => thread[p][g].job \in Jobs
  BY ThreadType DEF Busy
<1> QED BY <1>1, <1>2 DEF Accept, At, Becomes, AllThreads, Threads

LEMMA LoadMediaDoes ==
    ASSUME TypeOK, NEW p \in Printers, NEW g \in Generations, LoadMedia(p, g)
    PROVE  LET t == thread[p][g]
               u == thread'[p][g]
           IN /\ t.pc = "charge" /\ u.pc = "save" /\ u.config = t.config
              /\ u.queue = t.queue /\ u.inbox = t.inbox /\ u.job = t.job
              /\ UNCHANGED <<qfile, record, sent>>
<1>1. thread[p][g] \in Threads /\ thread \in AllThreads
  BY DEF TypeOK, AllThreads
<1> QED BY <1>1 DEF LoadMedia, At, Becomes, AllThreads, Threads

LEMMA SaveMediaDoes ==
    ASSUME TypeOK, NEW p \in Printers, NEW g \in Generations, SaveMedia(p, g)
    PROVE  LET t == thread[p][g]
               u == thread'[p][g]
           IN /\ t.pc = "save" /\ u.pc = "loop" /\ u.config = t.config
              /\ u.queue = t.queue /\ u.inbox = t.inbox /\ u.job = None
              /\ UNCHANGED <<qfile, record, sent>>
<1>1. thread[p][g] \in Threads /\ thread \in AllThreads
  BY DEF TypeOK, AllThreads
<1> QED BY <1>1 DEF SaveMedia, At, Becomes, AllThreads, Threads

LEMMA ReceiveEnqueueDoes ==
    ASSUME TypeOK, NEW p \in Printers, NEW g \in Generations, ReceiveEnqueue(p, g)
    PROVE  LET t == thread[p][g]
               u == thread'[p][g]
           IN /\ t.pc = "loop" /\ t.inbox # <<>>
              /\ u.pc = "loop" /\ u.config = t.config
              /\ u.queue = Append(t.queue, Head(t.inbox)) /\ u.inbox = Tail(t.inbox)
              /\ u.job = t.job
              /\ qfile'[p] = Append(t.queue, Head(t.inbox))
              /\ UNCHANGED <<record, sent>>
<1>1. thread[p][g] \in Threads /\ thread \in AllThreads /\ qfile \in [Printers -> Seq(Jobs)]
  BY DEF TypeOK, AllThreads
<1> QED BY <1>1 DEF ReceiveEnqueue, Listening, At, Becomes, AllThreads, Threads

LEMMA SetQueuePausedDoes ==
    ASSUME TypeOK, NEW p \in Printers, NEW g \in Generations, SetQueuePaused(p, g)
    PROVE  LET t == thread[p][g]
               u == thread'[p][g]
           IN /\ t.pc = "loop" /\ u.pc = "loop" /\ u.config = t.config
              /\ u.queue = t.queue /\ u.inbox = t.inbox /\ u.job = t.job
              /\ UNCHANGED <<qfile, record, sent>>
<1>1. thread[p][g] \in Threads /\ thread \in AllThreads
  BY DEF TypeOK, AllThreads
<1> QED BY <1>1 DEF SetQueuePaused, Listening, At, Becomes, AllThreads, Threads

\* A thread that ends with jobs in its queue is paused, and they are noted.
LEMMA ExitDoes ==
    ASSUME TypeOK, NEW p \in Printers, NEW g \in Generations, Exit(p, g)
    PROVE  LET t == thread[p][g] IN
           /\ t.pc = "loop" /\ t.inbox = <<>> /\ ~Connected(p, g)
           /\ \A j \in Jobs : InSeq(t.queue, j) => j \in left'
           /\ thread'[p][g] = Absent
           /\ UNCHANGED <<qfile, record, sent>>
<1>1. thread[p][g] \in Threads /\ thread \in AllThreads
  BY DEF TypeOK, AllThreads
<1>2. \A j \in Jobs : InSeq(thread[p][g].queue, j) => j \in left'
  <2>1. CASE thread[p][g].paused
    <3>1. left' = left \cup ToSet(thread[p][g].queue)
      BY <2>1 DEF Exit, Leaves
    <3> QED BY <3>1 DEF InSeq, ToSet
  <2>2. CASE thread[p][g].queue = <<>>
    BY <2>2, NothingInEmpty
  <2> QED BY <2>1, <2>2 DEF Exit, Listening
<1> QED BY <1>1, <1>2 DEF Exit, Listening, At, Becomes, AllThreads

\* Only the begin and the end of a delivery change a record.
LEMMA ThreadRecords ==
    ASSUME TypeOK, NEW p \in Printers, NEW g \in Generations, ThreadStep(p, g)
    PROVE  LET t == thread[p][g] IN
           \/ UNCHANGED <<record, sent>>
           \/ /\ Claim(p, g) /\ t.pc = "claim" /\ t.job \in Jobs
              /\ record' = [record EXCEPT ![t.job] = "writing"]
              /\ sent' = [sent EXCEPT ![t.job] = @ + 1]
           \/ /\ Accept(p, g) /\ t.pc = "deliver" /\ t.job \in Jobs
              /\ record' = [record EXCEPT ![t.job] = "accepted"] /\ sent' = sent
<1>1. Claim(p, g) \/ Accept(p, g) \/ UNCHANGED <<record, sent>>
  BY DEF ThreadStep, LoadQueue, Pop, LoadJob, LoadMedia, SaveMedia, ReceiveEnqueue,
     SetQueuePaused, Exit
<1> QED BY <1>1, ClaimDoes, AcceptDoes

\* What that means for each record.
LEMMA RecordsOneByOne ==
    ASSUME TypeOK, NEW p \in Printers, NEW g \in Generations, ThreadStep(p, g), NEW j \in Jobs
    PROVE  LET t == thread[p][g] IN
           /\ j # t.job => record'[j] = record[j] /\ sent'[j] = sent[j]
           /\ j = t.job => \/ record'[j] = record[j] /\ sent'[j] = sent[j]
                           \/ /\ Claim(p, g) /\ t.pc = "claim"
                              /\ record'[j] = "writing" /\ sent'[j] = sent[j] + 1
                           \/ /\ Accept(p, g) /\ t.pc = "deliver"
                              /\ record'[j] = "accepted" /\ sent'[j] = sent[j]
<1> DEFINE k == thread[p][g].job
<1>1. record = [i \in Jobs |-> record[i]] /\ sent = [i \in Jobs |-> sent[i]]
  BY DEF TypeOK
<1>2. CASE UNCHANGED <<record, sent>>
  BY <1>2
<1>3. CASE /\ Claim(p, g) /\ thread[p][g].pc = "claim" /\ k \in Jobs
           /\ record' = [record EXCEPT ![k] = "writing"] /\ sent' = [sent EXCEPT ![k] = @ + 1]
  <2> HIDE DEF k
  <2>1. /\ record'[j] = IF j = k THEN "writing" ELSE record[j]
        /\ sent'[j] = IF j = k THEN sent[j] + 1 ELSE sent[j]
    BY <1>1, <1>3
  <2> QED BY <1>3, <2>1 DEF k
<1>4. CASE /\ Accept(p, g) /\ thread[p][g].pc = "deliver" /\ k \in Jobs
           /\ record' = [record EXCEPT ![k] = "accepted"] /\ sent' = sent
  <2> HIDE DEF k
  <2>1. record'[j] = IF j = k THEN "accepted" ELSE record[j]
    BY <1>1, <1>4
  <2> QED BY <1>4, <2>1 DEF k
<1> QED BY <1>2, <1>3, <1>4, ThreadRecords

\* A submission changes its own record and handler, and the channel it sends to.
LEMMA HandlerFrame ==
    ASSUME TypeOK, NEW j \in Jobs, HandlerStep(j) \/ Lookup(j)
    PROVE  /\ \A k \in Jobs : k # j => hpc'[k] = hpc[k] /\ handle'[k] = handle[k]
                                       /\ record'[k] = record[k]
           /\ UNCHANGED <<file, qfile, pfile, roll, up, memory, workers, born, admin, sent,
                          charged, left, overlapped, replied, budget>>
           /\ Enqueue(j) \/ UNCHANGED thread
           /\ Lookup(j) \/ UNCHANGED straddled
<1>1. /\ \/ UNCHANGED record \/ \E s : record' = [record EXCEPT ![j] = s]
      /\ \/ UNCHANGED hpc \/ \E s : hpc' = [hpc EXCEPT ![j] = s]
      /\ \/ UNCHANGED handle \/ \E s : handle' = [handle EXCEPT ![j] = s]
  BY DEF HandlerStep, Receive, AcquireLock, Submit, Enqueue, Answer, Lookup, HandlerAt,
     HandlerQuiet, dataVars
<1>2. DOMAIN record = Jobs /\ DOMAIN hpc = Jobs /\ DOMAIN handle = Jobs
  BY DEF TypeOK
<1>3. /\ UNCHANGED <<file, qfile, pfile, roll, up, memory, workers, born, admin, sent,
                     charged, left, overlapped, replied, budget>>
      /\ Enqueue(j) \/ UNCHANGED thread
      /\ Lookup(j) \/ UNCHANGED straddled
  BY DEF HandlerStep, Receive, AcquireLock, Submit, Enqueue, Answer, Lookup, HandlerQuiet,
     dataVars, seenVars
<1> QED BY <1>1, <1>2, <1>3 DEF TypeOK

LEMMA EnqueueDoes ==
    ASSUME TypeOK, NEW j \in Jobs, HandlerShape(j), Enqueue(j)
    PROVE  /\ Target[j] \in Printers /\ handle[j] \in Generations /\ handle' = handle
           /\ hpc[j] = "enqueue" /\ hpc'[j] = "reply" /\ record' = record
           /\ thread' \in AllThreads
           /\ \A p \in Printers, g \in Generations :
                  LET t == thread[p][g]
                      u == thread'[p][g]
                  IN /\ p # Target[j] \/ g # handle[j] => u = t
                     /\ u.pc = t.pc /\ u.config = t.config /\ u.queue = t.queue /\ u.job = t.job
                     /\ p = Target[j] /\ g = handle[j] => u.inbox = Append(t.inbox, j)
<1>1. /\ Target[j] \in Printers /\ handle[j] \in Generations /\ handle' = handle
      /\ hpc[j] = "enqueue" /\ hpc'[j] = "reply" /\ record' = record
  BY ConfigsAssumption DEF TypeOK, Enqueue, HandlerAt, HandlerShape
<1> DEFINE p0 == Target[j]
           g0 == handle[j]
           u0 == [thread[p0][g0] EXCEPT !.inbox = Append(@, j)]
<1>2. thread \in AllThreads /\ thread' = [thread EXCEPT ![p0][g0] = u0]
  BY DEF Enqueue, TypeOK, AllThreads
<1>3. thread[p0][g0] \in Threads /\ thread[p0][g0].inbox \in Seq(Jobs)
  BY <1>1, ThreadType
<1>4. u0 \in Threads
  BY <1>3, AppendedLast DEF Threads
<1>5. /\ thread' \in AllThreads /\ thread'[p0][g0] = u0
      /\ \A p \in Printers, g \in Generations : p # p0 \/ g # g0 => thread'[p][g] = thread[p][g]
  BY <1>1, <1>2, <1>4 DEF AllThreads
<1>6. /\ u0.pc = thread[p0][g0].pc /\ u0.config = thread[p0][g0].config
      /\ u0.queue = thread[p0][g0].queue /\ u0.job = thread[p0][g0].job
      /\ u0.inbox = Append(thread[p0][g0].inbox, j)
  BY <1>3 DEF Threads
<1> QED BY <1>1, <1>5, <1>6

-----------------------------------------------------------------------------
(* What requests, the end and the start of the process do.                   *)

LEMMA RequestType ==
    ASSUME TypeOK, NEW a \in Admins, admin[a].pc # "idle"
    PROVE  /\ admin[a] \in Requests /\ a \in Active
           /\ admin[a].printer \in Printers /\ admin[a].config \in Configs
           /\ admin[a].candidate \in [Printers -> Configs \cup {None}]
           /\ admin[a].pc \in {"check", "store", "memory", "swap"}
<1>1. admin[a] \in Requests \cup {Idle} /\ Idle.pc = "idle"
  BY DEF TypeOK, Idle
<1> QED BY <1>1 DEF Requests, Active

LEMMA AdminGuards ==
    ASSUME NEW a \in Admins
    PROVE  /\ CloneList(a) => admin[a].pc = "idle"
           /\ CheckOpenJobs(a) => admin[a].pc = "check"
           /\ SaveConfigs(a) => admin[a].pc = "store"
           /\ SetList(a) => admin[a].pc = "memory"
           /\ ReplaceWorker(a) => admin[a].pc = "swap"
<1>1. CheckOpenJobs(a) => admin[a].pc = "check"
  BY DEF CheckOpenJobs
<1>2. SaveConfigs(a) => admin[a].pc = "store"
  BY DEF SaveConfigs
<1>3. SetList(a) => admin[a].pc = "memory"
  BY DEF SetList
<1>4. ReplaceWorker(a) => admin[a].pc = "swap"
  BY DEF ReplaceWorker
<1>5. CloneList(a) => admin[a].pc = "idle"
  BY DEF CloneList, Idle
<1> QED BY <1>1, <1>2, <1>3, <1>4, <1>5

\* A request changes its own entry only; where it may stand afterwards.
LEMMA AdminFrame ==
    ASSUME TypeOK, NEW a \in Admins, AdminStep(a) \/ CloneList(a)
    PROVE  /\ admin' \in [Admins -> Requests \cup {Idle}]
           /\ \A b \in Admins : b # a => admin'[b] = admin[b]
           /\ UNCHANGED <<qfile, pfile, record, roll, up, handlerVars, sent, charged, left>>
           /\ ReplaceWorker(a) \/ UNCHANGED <<workers, born, thread>>
           /\ CloneList(a) => /\ admin[a].pc = "idle" /\ admin'[a].pc = "check"
                              /\ admin'[a].candidate = memory
                              /\ UNCHANGED <<file, memory, straddled, overlapped>>
           /\ ~CloneList(a) => admin[a].pc # "idle"
           /\ CheckOpenJobs(a) => admin[a].pc = "check" /\ admin'[a].pc \in {"idle", "store"}
           /\ SaveConfigs(a) => admin[a].pc = "store" /\ admin'[a].pc \in {"idle", "memory"}
           /\ SetList(a) => admin[a].pc = "memory" /\ admin'[a].pc = "swap"
           /\ ReplaceWorker(a) => admin[a].pc = "swap" /\ admin'[a] = Idle
           /\ admin[a].pc # "idle" /\ admin'[a].pc # "idle" =>
                  admin'[a].printer = admin[a].printer /\ admin'[a].config = admin[a].config
<1>1. admin \in [Admins -> Requests \cup {Idle}] /\ Idle.pc = "idle"
  BY DEF TypeOK, Idle
<1>2. UNCHANGED <<qfile, pfile, record, roll, up, handlerVars, sent, charged, left>>
  BY DEF AdminStep, CloneList, CheckOpenJobs, SaveConfigs, SetList, ReplaceWorker, AdminQuiet
<1>3. ReplaceWorker(a) \/ UNCHANGED <<workers, born, thread>>
  BY DEF AdminStep, CloneList, CheckOpenJobs, SaveConfigs, SetList
<1>4. CASE CloneList(a)
  <2>1. PICK p \in Printers, c \in Configs :
            admin' = [admin EXCEPT ![a] = [pc |-> "check", printer |-> p, config |-> c,
                                           candidate |-> memory]]
    BY <1>4 DEF CloneList
  <2>2. [pc |-> "check", printer |-> p, config |-> c, candidate |-> memory] \in Requests
    BY DEF Requests, TypeOK
  <2>3. admin[a].pc = "idle" /\ admin'[a].pc = "check" /\ admin'[a].candidate = memory
    BY <1>1, <1>4, <2>1 DEF CloneList
  <2>4. admin'[a].candidate = memory
    BY <1>1, <2>1
  <2>5. UNCHANGED <<file, memory, workers, born, thread, straddled, overlapped>>
    BY <1>4 DEF CloneList
  <2>6. /\ admin' \in [Admins -> Requests \cup {Idle}]
        /\ \A b \in Admins : b # a => admin'[b] = admin[b]
    BY <1>1, <2>1, <2>2
  <2>7. ~CheckOpenJobs(a) /\ ~SaveConfigs(a) /\ ~SetList(a) /\ ~ReplaceWorker(a)
    BY <2>3, AdminGuards
  <2> QED BY <1>2, <1>4, <2>3, <2>4, <2>5, <2>6, <2>7
<1>5. CASE CheckOpenJobs(a)
  <2>1. admin[a] \in Requests /\ admin[a].pc = "check"
    BY <1>1, <1>5, RequestType DEF CheckOpenJobs
  <2>2. \/ admin' = [admin EXCEPT ![a] = Idle]
        \/ admin' = [admin EXCEPT ![a].pc = "store",
                                  ![a].candidate[admin[a].printer] = admin[a].config]
    BY <1>5 DEF CheckOpenJobs
  <2> DEFINE r == [[admin[a] EXCEPT !.pc = "store"] EXCEPT
                      !.candidate = [@ EXCEPT ![admin[a].printer] = admin[a].config]]
  <2>3. r \in Requests /\ r.pc = "store" /\ r.printer = admin[a].printer
        /\ r.config = admin[a].config
    BY <2>1 DEF Requests
  <2>4. admin' = [admin EXCEPT ![a] = Idle] \/ admin' = [admin EXCEPT ![a] = r]
    BY <1>1, <2>1, <2>2 DEF Requests
  <2> QED BY <1>1, <1>2, <1>3, <1>5, <2>1, <2>3, <2>4
             DEF CloneList, SaveConfigs, SetList, ReplaceWorker
<1>6. CASE SaveConfigs(a) \/ SetList(a) \/ ReplaceWorker(a)
  <2>1. admin[a] \in Requests
    BY <1>6, RequestType DEF SaveConfigs, SetList, ReplaceWorker
  <2> DEFINE Advanced(s) == [admin[a] EXCEPT !.pc = s]
  <2>2. /\ Advanced("memory") \in Requests /\ Advanced("memory").pc = "memory"
        /\ Advanced("memory").printer = admin[a].printer
        /\ Advanced("memory").config = admin[a].config
    BY <2>1 DEF Requests
  <2>3. /\ Advanced("swap") \in Requests /\ Advanced("swap").pc = "swap"
        /\ Advanced("swap").printer = admin[a].printer
        /\ Advanced("swap").config = admin[a].config
    BY <2>1 DEF Requests
  <2>4. /\ SaveConfigs(a) => \/ admin' = [admin EXCEPT ![a] = Idle]
                             \/ admin' = [admin EXCEPT ![a] = Advanced("memory")]
        /\ SetList(a) => admin' = [admin EXCEPT ![a] = Advanced("swap")]
        /\ ReplaceWorker(a) => admin' = [admin EXCEPT ![a] = Idle]
    BY <1>1, <2>1 DEF SaveConfigs, SetList, ReplaceWorker, Moves
  <2> HIDE DEF Advanced
  <2>5. ASSUME NEW r \in Requests \cup {Idle}, admin' = [admin EXCEPT ![a] = r]
        PROVE  /\ admin' \in [Admins -> Requests \cup {Idle}] /\ admin'[a] = r
               /\ \A b \in Admins : b # a => admin'[b] = admin[b]
    BY <1>1, <2>5
  <2>6. ~CloneList(a) /\ ~CheckOpenJobs(a)
    BY <1>6, AdminGuards
  <2>7. CASE SaveConfigs(a)
    <3>1. ~SetList(a) /\ ~ReplaceWorker(a) /\ admin[a].pc = "store"
      BY <2>7, AdminGuards
    <3> QED BY <1>1, <1>2, <1>3, <2>2, <2>3, <2>4, <2>5, <2>6, <2>7, <3>1
  <2>8. CASE SetList(a)
    <3>1. ~SaveConfigs(a) /\ ~ReplaceWorker(a) /\ admin[a].pc = "memory"
      BY <2>8, AdminGuards
    <3> QED BY <1>1, <1>2, <1>3, <2>2, <2>3, <2>4, <2>5, <2>6, <2>8, <3>1
  <2>9. CASE ReplaceWorker(a)
    <3>1. ~SaveConfigs(a) /\ ~SetList(a) /\ admin[a].pc = "swap"
      BY <2>9, AdminGuards
    <3> QED BY <1>1, <1>2, <1>3, <2>4, <2>5, <2>6, <2>9, <3>1
  <2> QED BY <1>6, <2>7, <2>8, <2>9
<1> QED BY <1>4, <1>5, <1>6 DEF AdminStep

LEMMA SpendDoes ==
    ASSUME TypeOK, NEW kind \in {"save", "pause", "crash", "fault"}, Spend(kind, 1)
    PROVE  /\ budget' \in [save : Nat, pause : Nat, crash : Nat, fault : Nat]
           /\ budget[kind] >= 1 /\ budget'[kind] = budget[kind] - 1
           /\ \A other \in {"save", "pause", "crash", "fault"} \ {kind} :
                   budget'[other] = budget[other]
<1>1. budget \in [save : Nat, pause : Nat, crash : Nat, fault : Nat]
  BY DEF TypeOK
<1>2. budget[kind] \in Nat /\ budget[kind] >= 1
  BY <1>1 DEF Spend
<1>3. budget[kind] - 1 \in Nat /\ budget' = [budget EXCEPT ![kind] = @ - 1]
  BY <1>2 DEF Spend
<1> QED BY <1>1, <1>2, <1>3

\* Room for one more worker: the request that replaces it is one of the active ones.
LEMMA RoomForWorker ==
    ASSUME TypeOK, Bounded, NEW a \in Admins, admin[a].pc # "idle", NEW p \in Printers
    PROVE  born[p] \in Nat /\ born[p] + 1 \in Generations
<1>1. a \in Active /\ IsFiniteSet(Active)
  BY RequestType DEF Bounded
<1>2. Cardinality(Active) \in Nat /\ Cardinality(Active \ {a}) \in Nat
      /\ Cardinality(Active \ {a}) = Cardinality(Active) - 1
  BY <1>1, FS_RemoveElement, FS_CardinalityType
<1>3. budget.save \in Nat /\ Budget.save \in Nat /\ born[p] \in Nat
  BY BudgetAssumption DEF TypeOK, Generations
<1>4. born[p] + Cardinality(Active) + budget.save <= Budget.save + 1
  BY DEF Bounded
<1> HIDE DEF Active
<1> QED BY <1>2, <1>3, <1>4 DEF Generations

\* A worker that is started has nothing yet.
Booted(c) == [Absent EXCEPT !.pc = "boot", !.config = c]

LEMMA FreshThread ==
    ASSUME NEW c \in Configs
    PROVE  LET u == Booted(c) IN
           /\ u \in Threads /\ u.pc = "boot" /\ u.config = c /\ u.queue = <<>>
           /\ u.inbox = <<>> /\ u.job = None /\ \A j \in Jobs : ~Has(u, j)
<1>1. Absent \in Threads
  BY AbsentType
<1>2. Absent.queue = <<>> /\ Absent.inbox = <<>> /\ Absent.job = None
  BY DEF Absent
<1>3. /\ Booted(c) \in Threads /\ Booted(c).pc = "boot" /\ Booted(c).config = c
      /\ Booted(c).queue = Absent.queue /\ Booted(c).inbox = Absent.inbox
      /\ Booted(c).job = Absent.job
  BY <1>1 DEF Threads, Booted
<1> QED BY <1>2, <1>3, NothingInEmpty, AbsentType DEF Has

LEMMA ReplaceDoes ==
    ASSUME TypeOK, Bounded, NEW a \in Admins, ReplaceWorker(a)
    PROVE  LET p == admin[a].printer
               c == admin[a].config
               n == born[p] + 1
           IN /\ p \in Printers /\ c \in Configs /\ n \in Generations /\ born[p] \in Nat
              /\ \A q \in Printers : q # p => workers'[q] = workers[q] /\ born'[q] = born[q]
              /\ \A q \in Printers, g \in Generations :
                     q # p \/ g # n => thread'[q][g] = thread[q][g]
              /\ \/ /\ c \in Enabled /\ born'[p] = n /\ workers'[p] = n
                    /\ thread'[p][n] = Booted(c)
                 \/ c \notin Enabled /\ workers'[p] = 0 /\ UNCHANGED <<born, thread>>
              /\ workers' \in [Printers -> Generations \cup {0}]
              /\ born' \in [Printers -> Generations \cup {0}]
              /\ thread' \in AllThreads
              /\ UNCHANGED <<file, memory, overlapped, budget>>
              /\ straddled' = (straddled \/ Unstarted(p))
<1> DEFINE p == admin[a].printer
           c == admin[a].config
           n == born[p] + 1
<1>1. admin[a].pc = "swap" /\ p \in Printers /\ c \in Configs
  BY RequestType DEF ReplaceWorker
<1>2. born[p] \in Nat /\ n \in Generations
  BY <1>1, RoomForWorker
<1>3. Booted(c) \in Threads
  BY <1>1, FreshThread
<1>4. /\ thread \in AllThreads /\ workers \in [Printers -> Generations \cup {0}]
      /\ born \in [Printers -> Generations \cup {0}]
  BY DEF TypeOK, AllThreads
<1>5. /\ c \in Enabled => /\ born' = [born EXCEPT ![p] = n]
                          /\ workers' = [workers EXCEPT ![p] = n]
                          /\ thread' = [thread EXCEPT ![p][n] = Booted(c)]
      /\ c \notin Enabled => /\ workers' = [workers EXCEPT ![p] = 0]
                             /\ UNCHANGED <<born, thread>>
      /\ UNCHANGED <<file, memory, overlapped, budget>>
      /\ straddled' = (straddled \/ Unstarted(p))
  BY DEF ReplaceWorker, Swap, Booted
<1>6. /\ workers' \in [Printers -> Generations \cup {0}]
      /\ born' \in [Printers -> Generations \cup {0}]
      /\ \A q \in Printers : q # p => workers'[q] = workers[q] /\ born'[q] = born[q]
      /\ c \in Enabled => born'[p] = n /\ workers'[p] = n
      /\ c \notin Enabled => workers'[p] = 0
  BY <1>1, <1>2, <1>4, <1>5
<1> HIDE DEF p, c, n
<1>7. /\ thread' \in AllThreads
      /\ \A q \in Printers, g \in Generations : q # p \/ g # n => thread'[q][g] = thread[q][g]
      /\ c \in Enabled => thread'[p][n] = Booted(c)
  <2>1. CASE c \in Enabled
    <3>1. thread' = [thread EXCEPT ![p][n] = Booted(c)]
      BY <1>5, <2>1
    <3> QED BY <1>1, <1>2, <1>3, <1>4, <3>1 DEF AllThreads
  <2>2. CASE c \notin Enabled
    BY <1>4, <1>5, <2>2
  <2> QED BY <2>1, <2>2
<1> QED BY <1>1, <1>2, <1>5, <1>6, <1>7 DEF p, c, n

LEMMA NothingAbsent ==
    /\ Absent.pc = "none" /\ Absent.queue = <<>> /\ Absent.inbox = <<>> /\ Absent.job = None
    /\ Absent.config = None /\ \A j \in Jobs : ~Has(Absent, j)
<1>1. /\ Absent.pc = "none" /\ Absent.queue = <<>> /\ Absent.inbox = <<>>
      /\ Absent.job = None /\ Absent.config = None
  BY DEF Absent
<1> QED BY <1>1, NothingInEmpty, AbsentType DEF Has

LEMMA StartDoes ==
    ASSUME TypeOK, Start
    PROVE  /\ ~up /\ up' /\ memory' = file
           /\ \A j \in Jobs : record'[j] = CASE record[j] = "receiving" -> "failed"
                                             [] record[j] = "writing" -> "unknown"
                                             [] OTHER -> record[j]
           /\ record' \in [Jobs -> {"none", "receiving", "queued", "writing", "accepted",
                                    "unknown", "failed"}]
           /\ qfile' \in [Printers -> Seq(Jobs)]
           /\ \A p \in Printers : IF file[p] = None THEN qfile'[p] = qfile[p]
                                  ELSE qfile'[p] \in SetToSeqs(QueuedFor(p))
           /\ workers' = born'
           /\ workers' \in [Printers -> {0, 1}]
           /\ \A p \in Printers : workers'[p] = IF file[p] \in Enabled THEN 1 ELSE 0
           /\ thread' \in AllThreads
           /\ \A p \in Printers, g \in Generations :
                  thread'[p][g] = IF file[p] \in Enabled /\ g = 1
                                  THEN Booted(file[p])
                                  ELSE Absent
           /\ UNCHANGED <<file, roll, handlerVars, admin, seenVars, budget>>
<1>1. /\ record' = Recovered /\ ~up /\ up' /\ memory' = file
      /\ UNCHANGED <<file, roll, handlerVars, admin, seenVars, budget>>
      /\ \A p \in Printers : IF file[p] = None THEN qfile'[p] = qfile[p]
                             ELSE qfile'[p] \in SetToSeqs(QueuedFor(p))
  BY DEF Start
<1>2. \A j \in Jobs : record'[j] = CASE record[j] = "receiving" -> "failed"
                                     [] record[j] = "writing" -> "unknown"
                                     [] OTHER -> record[j]
  BY <1>1 DEF Recovered
<1>3. record' \in [Jobs -> {"none", "receiving", "queued", "writing", "accepted",
                            "unknown", "failed"}]
  <2>1. DOMAIN record' = Jobs /\ record' = [j \in Jobs |-> record'[j]]
    BY <1>1 DEF Recovered
  <2>2. ASSUME NEW j \in Jobs
        PROVE  record'[j] \in {"none", "receiving", "queued", "writing", "accepted",
                               "unknown", "failed"}
    BY <1>2, <2>2 DEF TypeOK
  <2> QED BY <2>1, <2>2
<1>4. qfile' \in [Printers -> Seq(Jobs)]
  <2>1. qfile' \in [Printers -> UNION {SetToSeqs(S) : S \in SUBSET Jobs}]
    BY DEF Start
  <2>2. UNION {SetToSeqs(S) : S \in SUBSET Jobs} \subseteq Seq(Jobs)
    BY AnyOrder
  <2> QED BY <2>1, <2>2
<1>5. /\ workers' = born' /\ workers' \in [Printers -> {0, 1}]
      /\ \A p \in Printers : workers'[p] = IF file[p] \in Enabled THEN 1 ELSE 0
  BY DEF Start
<1>6. \A p \in Printers, g \in Generations :
          thread'[p][g] = IF file[p] \in Enabled /\ g = 1
                          THEN Booted(file[p])
                          ELSE Absent
  BY DEF Start, Booted
<1>7. thread' \in AllThreads
  <2>1. /\ DOMAIN thread' = Printers /\ thread' = [p \in Printers |-> thread'[p]]
        /\ \A p \in Printers : /\ DOMAIN thread'[p] = Generations
                               /\ thread'[p] = [g \in Generations |-> thread'[p][g]]
    BY DEF Start
  <2>2. \A p \in Printers, g \in Generations : thread'[p][g] \in Threads
    BY <1>6, FreshThread, AbsentType, ConfigsAssumption
  <2> QED BY <2>1, <2>2 DEF AllThreads
<1> QED BY <1>1, <1>2, <1>3, <1>4, <1>5, <1>6, <1>7

LEMMA CrashDoes ==
    ASSUME TypeOK, Crash
    PROVE  /\ up /\ up' = FALSE /\ Spend("crash", 1) /\ UNCHANGED <<dataVars, memory, seenVars>>
           /\ thread' \in AllThreads
           /\ \A p \in Printers, g \in Generations : thread'[p][g] = Absent
           /\ workers' = [p \in Printers |-> 0] /\ born' = [p \in Printers |-> 0]
           /\ lock' = None /\ replied' = {}
           /\ hpc' \in [Jobs -> {"new", "done"}]
           /\ \A j \in Jobs : /\ hpc'[j] = IF hpc[j] = "new" THEN "new" ELSE "done"
                              /\ handle'[j] = 0
           /\ handle' = [j \in Jobs |-> 0]
           /\ admin' = [a \in Admins |-> Idle]
<1>1. thread' = [p \in Printers |-> [g \in Generations |-> Absent]]
  BY DEF Crash
<1>2. thread' \in AllThreads /\ \A p \in Printers, g \in Generations : thread'[p][g] = Absent
  BY <1>1, AbsentType DEF AllThreads
<1>3. hpc' \in [Jobs -> {"new", "done"}]
  BY DEF Crash
<1> QED BY <1>2, <1>3 DEF Crash

-----------------------------------------------------------------------------
(* Types and bounds are kept. *)

LEMMA BoundedStep ==
    ASSUME TypeOK, Bounded, AtRest, [Next]_vars
    PROVE  Bounded'
<1>1. /\ budget \in [save : Nat, pause : Nat, crash : Nat, fault : Nat]
      /\ Budget \in [save : Nat, pause : Nat, crash : Nat, fault : Nat]
      /\ \A p \in Printers : born[p] \in Nat
  BY BudgetAssumption DEF TypeOK, Generations
<1>2. IsFiniteSet(Active) /\ Cardinality(Active) \in Nat
  BY FS_CardinalityType DEF Bounded
<1>3. CASE UNCHANGED <<admin, born, budget>>
  BY <1>3 DEF Bounded, Active
<1>4. ASSUME NEW a \in Admins, CloneList(a) PROVE Bounded'
  <2>1. Spend("save", 1) /\ UNCHANGED born
    BY <1>4 DEF CloneList
  <2>2. Active' = Active \cup {a} /\ a \notin Active
    BY <1>4, AdminFrame DEF Active
  <2>3. IsFiniteSet(Active') /\ Cardinality(Active') = Cardinality(Active) + 1
    BY <1>2, <2>2, FS_AddElement
  <2>4. budget'.save = budget.save - 1 /\ budget'.crash = budget.crash
        /\ budget'.fault = budget.fault
    BY <2>1, SpendDoes
  <2> HIDE DEF Active
  <2> QED BY <1>1, <1>2, <2>1, <2>3, <2>4 DEF Bounded
<1>5. ASSUME NEW a \in Admins, AdminStep(a) PROVE Bounded'
  <2>1. admin[a].pc # "idle" /\ a \in Active
    BY <1>5, AdminGuards DEF AdminStep, Active
  <2>2. Active' = Active \/ Active' = Active \ {a}
    <3>1. \A b \in Admins : b # a => admin'[b] = admin[b]
      BY <1>5, AdminFrame
    <3> QED BY <2>1, <3>1 DEF Active
  <2>3. /\ IsFiniteSet(Active \ {a})
        /\ Cardinality(Active \ {a}) = Cardinality(Active) - 1
    BY <1>2, <2>1, FS_RemoveElement
  <2>4. UNCHANGED budget \/ Spend("fault", 1)
    BY <1>5 DEF AdminStep, CheckOpenJobs, SaveConfigs, SetList, ReplaceWorker
  <2>5. /\ budget'.save = budget.save /\ budget'.crash = budget.crash
        /\ budget'.fault \in Nat /\ budget'.fault <= budget.fault
    BY <1>1, <2>4, SpendDoes
  <2>6. CASE ReplaceWorker(a)
    <3>1. Active' = Active \ {a}
      <4>1. admin'[a].pc = "idle"
        BY <2>6, AdminFrame DEF AdminStep, Idle
      <4> QED BY <2>1, <2>2, <4>1 DEF Active
    <3>2. \A p \in Printers : born'[p] = born[p] \/ born'[p] = born[p] + 1
      BY <2>6, ReplaceDoes
    <3> HIDE DEF Active
    <3>3. ASSUME NEW p \in Printers
          PROVE  born'[p] + Cardinality(Active') + budget'.save <= Budget.save + 1
      <4>1. born[p] + Cardinality(Active) + budget.save <= Budget.save + 1
        BY DEF Bounded
      <4> QED BY <1>1, <1>2, <2>3, <2>5, <3>1, <3>2, <4>1
    <3>4. \A kind \in {"save", "crash", "fault"} : budget'[kind] <= Budget[kind]
      BY <1>1, <2>5 DEF Bounded
    <3> QED BY <2>3, <3>1, <3>3, <3>4 DEF Bounded
  <2>7. CASE ~ReplaceWorker(a)
    <3>1. UNCHANGED born
      BY <1>5, <2>7, AdminFrame
    <3>2. /\ IsFiniteSet(Active') /\ Cardinality(Active') \in Nat
          /\ Cardinality(Active') <= Cardinality(Active)
      BY <1>2, <2>2, <2>3, FS_CardinalityType
    <3> HIDE DEF Active
    <3>3. ASSUME NEW p \in Printers
          PROVE  born'[p] + Cardinality(Active') + budget'.save <= Budget.save + 1
      <4>1. born[p] + Cardinality(Active) + budget.save <= Budget.save + 1
        BY DEF Bounded
      <4> QED BY <1>1, <1>2, <2>5, <3>1, <3>2, <4>1
    <3>4. \A kind \in {"save", "crash", "fault"} : budget'[kind] <= Budget[kind]
      BY <1>1, <2>5 DEF Bounded
    <3> QED BY <3>2, <3>3, <3>4 DEF Bounded
  <2> QED BY <2>6, <2>7
<1>6. CASE Crash
  <2>1. /\ budget'.crash = budget.crash - 1 /\ budget'.save = budget.save
        /\ budget'.fault = budget.fault /\ budget.crash >= 1
    BY <1>6, CrashDoes, SpendDoes
  <2>2. Active' = {} /\ \A p \in Printers : born'[p] = 0
    BY <1>6, CrashDoes DEF Active, Idle
  <2>3. IsFiniteSet(Active') /\ Cardinality(Active') = 0
    BY <2>2, FS_EmptySet
  <2> HIDE DEF Active
  <2> QED BY <1>1, <2>1, <2>2, <2>3 DEF Bounded
<1>7. CASE Start
  <2>1. /\ \A p \in Printers : born'[p] = 0 \/ born'[p] = 1
        /\ UNCHANGED <<admin, budget>>
    BY <1>7, StartDoes
  <2>2. Active' = Active /\ Active = {} /\ \A p \in Printers : born[p] = 0
    BY <1>7, <2>1, StartDoes DEF Active, AtRest
  <2>3. Cardinality(Active) = 0
    BY <2>2, FS_EmptySet
  <2>4. ASSUME NEW p \in Printers
        PROVE  born'[p] + Cardinality(Active') + budget'.save <= Budget.save + 1
    <3>1. budget.save <= Budget.save
      BY DEF Bounded
    <3> QED BY <1>1, <2>1, <2>2, <2>3, <3>1
  <2> QED BY <1>2, <2>1, <2>2, <2>4 DEF Bounded
<1>8. ASSUME NEW j \in Jobs, Lookup(j) \/ HandlerStep(j) PROVE UNCHANGED <<admin, born, budget>>
  BY <1>8, HandlerFrame
<1>9. ASSUME NEW p \in Printers, NEW g \in Generations, ThreadStep(p, g) PROVE Bounded'
  <2>1. UNCHANGED <<admin, born>> /\ (Spend("pause", 1) \/ UNCHANGED budget)
    BY <1>9, ThreadFrame DEF ProcessQuiet
  <2>2. budget'.save = budget.save /\ budget'.crash = budget.crash /\ budget'.fault = budget.fault
    BY <2>1, PauseSpends
  <2>3. Active' = Active
    BY <2>1 DEF Active
  <2> HIDE DEF Active
  <2> QED BY <2>1, <2>2, <2>3 DEF Bounded
<1>10. UNCHANGED vars => UNCHANGED <<admin, born, budget>>
  BY DEF vars
<1> QED BY <1>3, <1>4, <1>5, <1>6, <1>7, <1>8, <1>9, <1>10 DEF Next

LEMMA TypeStep ==
    ASSUME TypeOK, Bounded, \A j \in Jobs : HandlerShape(j), [Next]_vars
    PROVE  TypeOK'
<1>0. /\ thread \in AllThreads
      /\ \A p \in Printers, g \in Generations :
             (thread[p][g].job # None) <=> thread[p][g].pc \in Busy
  BY DEF TypeOK, AllThreads, Busy
<1>1. ASSUME NEW j \in Jobs, Lookup(j) \/ HandlerStep(j) PROVE TypeOK'
  <2>1. /\ thread' \in AllThreads
        /\ \A p \in Printers, g \in Generations :
               (thread'[p][g].job # None) <=> thread'[p][g].pc \in Busy
    <3>1. CASE Enqueue(j)
      BY <1>0, <3>1, EnqueueDoes
    <3>2. CASE UNCHANGED thread
      BY <1>0, <3>2
    <3> QED BY <1>1, <3>1, <3>2, HandlerFrame
  <2>2. /\ record' \in [Jobs -> {"none", "receiving", "queued", "writing", "accepted",
                                 "unknown", "failed"}]
        /\ hpc' \in [Jobs -> {"new", "create", "lock", "queue", "enqueue", "reply", "done"}]
        /\ handle' \in [Jobs -> Generations \cup {0}]
        /\ lock' \in Jobs \cup {None}
        /\ straddled' \in BOOLEAN
    <3>1. CASE Lookup(j)
      <4>1. Target[j] \in Printers /\ workers[Target[j]] \in Generations \cup {0}
        BY ConfigsAssumption DEF TypeOK
      <4>2. straddled' \in BOOLEAN
        BY <3>1 DEF Lookup, TypeOK
      <4>3. hpc' \in [Jobs -> {"new", "create", "lock", "queue", "enqueue", "reply", "done"}]
        BY <3>1 DEF Lookup, TypeOK, HandlerAt
      <4>4. handle' \in [Jobs -> Generations \cup {0}]
        BY <3>1, <4>1 DEF Lookup, TypeOK
      <4>5. UNCHANGED <<record, lock>>
        BY <3>1 DEF Lookup, dataVars
      <4> QED BY <4>2, <4>3, <4>4, <4>5 DEF TypeOK
    <3>2. CASE Receive(j)
      BY <3>2 DEF Receive, HandlerAt, HandlerQuiet, seenVars, TypeOK
    <3>3. CASE AcquireLock(j)
      BY <3>3 DEF AcquireLock, HandlerAt, HandlerQuiet, seenVars, TypeOK
    <3>4. CASE Submit(j)
      BY <3>4 DEF Submit, HandlerAt, HandlerQuiet, seenVars, TypeOK
    <3>5. CASE Enqueue(j)
      BY <3>5 DEF Enqueue, HandlerAt, HandlerQuiet, seenVars, TypeOK
    <3>6. CASE Answer(j)
      BY <3>6 DEF Answer, HandlerAt, HandlerQuiet, seenVars, TypeOK
    <3> QED BY <1>1, <3>1, <3>2, <3>3, <3>4, <3>5, <3>6 DEF HandlerStep
  <2>3. UNCHANGED <<file, qfile, pfile, roll, up, memory, workers, born, admin, sent, charged,
                    left, overlapped, replied, budget>>
    BY <1>1, HandlerFrame
  <2> QED BY <2>1, <2>2, <2>3 DEF TypeOK, AllThreads, Busy
<1>2. ASSUME NEW p \in Printers, NEW g \in Generations, ThreadStep(p, g) PROVE TypeOK'
  <2> DEFINE t == thread[p][g]
  <2>1. /\ thread' \in AllThreads /\ ProcessQuiet
        /\ pfile' \in [Printers -> BOOLEAN] /\ left' \subseteq Jobs
        /\ Spend("pause", 1) \/ UNCHANGED budget
        /\ \A q \in Printers, h \in Generations :
               (thread'[q][h].job # None) <=> thread'[q][h].pc \in Busy
    BY <1>2, ThreadFrame
  <2>4. budget' \in [save : Nat, pause : Nat, crash : Nat, fault : Nat]
    BY <2>1, PauseSpends
  <2>2. /\ t.queue \in Seq(Jobs) /\ t.inbox \in Seq(Jobs) /\ t.read \in Nat
        /\ t.pc \in Busy => t.job \in Jobs
    BY ThreadType
  <2>3. /\ qfile' \in [Printers -> Seq(Jobs)] /\ roll' \in [Printers -> Nat]
        /\ record' \in [Jobs -> {"none", "receiving", "queued", "writing", "accepted",
                                 "unknown", "failed"}]
        /\ replied' \subseteq Jobs /\ sent' \in [Jobs -> Nat] /\ charged' \subseteq Jobs
    <3>0. /\ qfile \in [Printers -> Seq(Jobs)] /\ roll \in [Printers -> Nat]
          /\ record \in [Jobs -> {"none", "receiving", "queued", "writing", "accepted",
                                  "unknown", "failed"}]
          /\ replied \subseteq Jobs /\ sent \in [Jobs -> Nat] /\ charged \subseteq Jobs
      BY DEF TypeOK
    <3>1. CASE LoadQueue(p, g) \/ LoadJob(p, g) \/ LoadMedia(p, g) \/ Exit(p, g)
               \/ SetQueuePaused(p, g)
      BY <3>0, <3>1 DEF LoadQueue, LoadJob, LoadMedia, Exit, SetQueuePaused
    <3>2. CASE Pop(p, g)
      <4>1. Tail(t.queue) \in Seq(Jobs)
        BY <2>2, <3>2, HeadAndTail DEF Pop
      <4> QED BY <3>0, <3>2, <4>1 DEF Pop
    <3>3. CASE Claim(p, g)
      <4>1. t.job \in Jobs
        BY <2>2, <3>3 DEF Claim, At, Busy
      <4> QED BY <3>0, <3>3, <4>1 DEF Claim
    <3>4. CASE Accept(p, g)
      BY <3>0, <3>4 DEF Accept
    <3>5. CASE SaveMedia(p, g)
      <4>1. t.job \in Jobs
        BY <2>2, <3>5 DEF SaveMedia, At, Busy
      <4> QED BY <2>2, <3>0, <3>5, <4>1 DEF SaveMedia
    <3>6. CASE ReceiveEnqueue(p, g)
      <4>1. Head(t.inbox) \in Jobs
        BY <2>2, <3>6, HeadAndTail DEF ReceiveEnqueue
      <4>2. Append(t.queue, Head(t.inbox)) \in Seq(Jobs)
        BY <2>2, <4>1, AppendedLast
      <4> QED BY <3>0, <3>6, <4>1, <4>2 DEF ReceiveEnqueue
    <3> QED BY <1>2, <3>1, <3>2, <3>3, <3>4, <3>5, <3>6 DEF ThreadStep
  <2> QED BY <2>1, <2>3, <2>4 DEF TypeOK, ProcessQuiet, AllThreads, Busy
<1>3. ASSUME NEW a \in Admins, CloneList(a) \/ AdminStep(a) PROVE TypeOK'
  <2>1. /\ admin' \in [Admins -> Requests \cup {Idle}]
        /\ UNCHANGED <<qfile, pfile, record, roll, up, handlerVars, sent, charged, left>>
    BY <1>3, AdminFrame
  <2>2. budget' \in [save : Nat, pause : Nat, crash : Nat, fault : Nat]
    <3>1. UNCHANGED budget \/ Spend("fault", 1) \/ Spend("save", 1)
      BY <1>3 DEF AdminStep, CloneList, CheckOpenJobs, SaveConfigs, SetList, ReplaceWorker
    <3> QED BY <3>1, SpendDoes DEF TypeOK
  <2>3. /\ {file', memory'} \subseteq [Printers -> Configs \cup {None}]
    <3>1. ~CloneList(a) => admin[a].candidate \in [Printers -> Configs \cup {None}]
      BY <1>3, RequestType, AdminGuards DEF AdminStep
    <3>2. file' \in {file, admin[a].candidate} /\ memory' \in {memory, admin[a].candidate}
      BY <1>3 DEF AdminStep, CloneList, CheckOpenJobs, SaveConfigs, SetList, ReplaceWorker
    <3>3. CloneList(a) => UNCHANGED <<file, memory>>
      BY DEF CloneList
    <3> QED BY <3>1, <3>2, <3>3 DEF TypeOK
  <2>4. straddled' \in BOOLEAN /\ overlapped' \in BOOLEAN
    <3>1. straddled \in BOOLEAN /\ overlapped \in BOOLEAN
      BY DEF TypeOK
    <3>2. CASE CloneList(a) \/ SetList(a)
      BY <3>1, <3>2 DEF CloneList, SetList
    <3>3. CASE CheckOpenJobs(a)
      BY <3>1, <3>3 DEF CheckOpenJobs
    <3>4. CASE SaveConfigs(a)
      BY <3>1, <3>4 DEF SaveConfigs
    <3>5. CASE ReplaceWorker(a)
      BY <3>1, <3>5 DEF ReplaceWorker
    <3> QED BY <1>3, <3>2, <3>3, <3>4, <3>5 DEF AdminStep
  <2>5. /\ thread' \in AllThreads
        /\ workers' \in [Printers -> Generations \cup {0}]
        /\ born' \in [Printers -> Generations \cup {0}]
        /\ \A p \in Printers, g \in Generations :
               (thread'[p][g].job # None) <=> thread'[p][g].pc \in Busy
    <3>1. CASE ReplaceWorker(a)
      <4> DEFINE p == admin[a].printer
                 n == born[p] + 1
      <4>1. /\ p \in Printers /\ n \in Generations /\ admin[a].config \in Configs
            /\ thread' \in AllThreads
            /\ workers' \in [Printers -> Generations \cup {0}]
            /\ born' \in [Printers -> Generations \cup {0}]
            /\ \A q \in Printers, g \in Generations :
                   q # p \/ g # n => thread'[q][g] = thread[q][g]
            /\ thread'[p][n] = Booted(admin[a].config) \/ UNCHANGED thread
        BY <3>1, ReplaceDoes
      <4>2. Booted(admin[a].config).job = None /\ Booted(admin[a].config).pc = "boot"
        BY <4>1, FreshThread
      <4> HIDE DEF p, n
      <4> QED BY <1>0, <4>1, <4>2 DEF Busy
    <3>2. CASE ~ReplaceWorker(a)
      <4>1. UNCHANGED <<thread, workers, born>>
        BY <1>3, <3>2, AdminFrame
      <4> QED BY <1>0, <4>1 DEF TypeOK
    <3> QED BY <3>1, <3>2
  <2> QED BY <2>1, <2>2, <2>3, <2>4, <2>5 DEF TypeOK, AllThreads, Busy, handlerVars
<1>4. CASE Crash
  <2>1. budget' \in [save : Nat, pause : Nat, crash : Nat, fault : Nat]
    BY <1>4, CrashDoes, SpendDoes
  <2>2. /\ workers' \in [Printers -> Generations \cup {0}]
        /\ born' \in [Printers -> Generations \cup {0}]
        /\ handle' \in [Jobs -> Generations \cup {0}] /\ lock' \in Jobs \cup {None}
        /\ replied' \subseteq Jobs /\ up' \in BOOLEAN
        /\ admin' \in [Admins -> Requests \cup {Idle}]
        /\ hpc' \in [Jobs -> {"new", "create", "lock", "queue", "enqueue", "reply", "done"}]
    BY <1>4, CrashDoes
  <2>3. /\ thread' \in AllThreads
        /\ \A p \in Printers, g \in Generations : thread'[p][g] = Absent
        /\ UNCHANGED <<dataVars, memory, seenVars>>
    BY <1>4, CrashDoes
  <2>4. \A p \in Printers, g \in Generations :
            (thread'[p][g].job # None) <=> thread'[p][g].pc \in Busy
    BY <2>3, NothingAbsent DEF Busy
  <2> QED BY <2>1, <2>2, <2>3, <2>4 DEF TypeOK, AllThreads, Busy, dataVars, seenVars
<1>5. CASE Start
  <2>1. /\ up' = TRUE /\ memory' = file
        /\ record' \in [Jobs -> {"none", "receiving", "queued", "writing", "accepted",
                                 "unknown", "failed"}]
        /\ qfile' \in [Printers -> Seq(Jobs)] /\ thread' \in AllThreads
        /\ UNCHANGED <<file, pfile, roll, handlerVars, admin, seenVars, budget>>
    BY <1>5, StartDoes DEF Start
  <2>2. workers' = born' /\ workers' \in [Printers -> Generations \cup {0}]
    <3>1. Budget.save \in Nat
      BY BudgetAssumption
    <3>2. 1 \in Generations
      BY <3>1 DEF Generations
    <3> QED BY <1>5, <3>2, StartDoes
  <2>3. \A p \in Printers, g \in Generations :
            (thread'[p][g].job # None) <=> thread'[p][g].pc \in Busy
    <3>1. ASSUME NEW p \in Printers, NEW g \in Generations
          PROVE  thread'[p][g].job = None /\ thread'[p][g].pc \in {"boot", "none"}
      <4>1. CASE file[p] \in Enabled /\ g = 1
        <5>1. thread'[p][g] = Booted(file[p]) /\ file[p] \in Configs
          BY <1>5, <4>1, StartDoes, ConfigsAssumption
        <5> QED BY <5>1, FreshThread
      <4>2. CASE ~(file[p] \in Enabled /\ g = 1)
        <5>1. thread'[p][g] = Absent
          BY <1>5, <4>2, StartDoes
        <5> QED BY <5>1, NothingAbsent
      <4> QED BY <4>1, <4>2
    <3> QED BY <3>1 DEF Busy
  <2> QED BY <2>1, <2>2, <2>3 DEF TypeOK, AllThreads, Busy, handlerVars, seenVars
<1>6. CASE UNCHANGED vars
  BY <1>6 DEF vars, dataVars, handlerVars, seenVars, TypeOK
<1> QED BY <1>1, <1>2, <1>3, <1>4, <1>5, <1>6 DEF Next

-----------------------------------------------------------------------------
(* The shape of threads and handlers is kept. *)

LEMMA DownUntilStart ==
    ASSUME TypeOK, AtRest, ~up, [Next]_vars
    PROVE  Start \/ UNCHANGED vars
<1>1. ASSUME NEW j \in Jobs, Lookup(j) \/ HandlerStep(j) PROVE FALSE
  <2>1. hpc[j] \in {"new", "done"}
    BY DEF AtRest
  <2> QED BY <1>1, <2>1 DEF Lookup, HandlerStep, Receive, AcquireLock, Submit, Enqueue, Answer
<1>2. ASSUME NEW p \in Printers, NEW g \in Generations, ThreadStep(p, g) PROVE FALSE
  BY <1>2, ThreadFrame, NothingAbsent DEF AtRest
<1>3. ASSUME NEW a \in Admins, CloneList(a) \/ AdminStep(a) PROVE FALSE
  <2>1. ~CloneList(a)
    BY DEF CloneList
  <2>2. ~AdminStep(a)
    BY AdminGuards DEF AtRest, AdminStep
  <2> QED BY <1>3, <2>1, <2>2
<1>4. ~Crash
  BY DEF Crash
<1> QED BY <1>1, <1>2, <1>3, <1>4 DEF Next

LEMMA AtRestStep ==
    ASSUME TypeOK, AtRest, [Next]_vars
    PROVE  AtRest'
<1>1. CASE ~up
  <2>1. CASE Start
    BY <2>1, StartDoes DEF AtRest
  <2>2. CASE UNCHANGED vars
    BY <2>2 DEF AtRest, vars, handlerVars
  <2> QED BY <1>1, <2>1, <2>2, DownUntilStart
<1>2. CASE up
  <2>1. CASE Crash
    <3>1. Idle.pc = "idle"
      BY DEF Idle
    <3> QED BY <2>1, <3>1, CrashDoes DEF AtRest
  <2>2. CASE ~Crash
    <3>1. up'
      <4>1. \A j \in Jobs : Lookup(j) \/ HandlerStep(j) => UNCHANGED up
        BY HandlerFrame
      <4>2. \A p \in Printers, g \in Generations : ThreadStep(p, g) => UNCHANGED up
        BY ThreadFrame DEF ProcessQuiet
      <4>3. \A a \in Admins : CloneList(a) \/ AdminStep(a) => UNCHANGED up
        BY AdminFrame
      <4>4. UNCHANGED vars => UNCHANGED up
        BY DEF vars
      <4>5. Start => up'
        BY DEF Start
      <4> QED BY <1>2, <2>2, <4>1, <4>2, <4>3, <4>4, <4>5 DEF Next
    <3> QED BY <3>1 DEF AtRest
  <2> QED BY <2>1, <2>2
<1> QED BY <1>1, <1>2

Shaped == /\ \A p \in Printers : workers[p] <= born[p]
          /\ \A p \in Printers, g \in Generations : ThreadShape(p, g)

LEMMA ShapedStep ==
    ASSUME TypeOK, Bounded, AtRest, Shaped, \A j \in Jobs : HandlerShape(j), [Next]_vars
    PROVE  Shaped'
<1> USE DEF Connected, Senders
<1>1. ASSUME NEW j \in Jobs, Lookup(j) \/ HandlerStep(j) PROVE Shaped'
  <2>1. /\ UNCHANGED <<workers, born>>
        /\ \A k \in Jobs : k # j => handle'[k] = handle[k]
        /\ Enqueue(j) \/ UNCHANGED thread
    BY <1>1, HandlerFrame
  <2>2. handle'[j] \in {0, handle[j], workers[Target[j]]}
    BY <1>1 DEF TypeOK, Lookup, HandlerStep, Receive, AcquireLock, Submit, Enqueue, Answer
  <2>3. ASSUME NEW p \in Printers, NEW g \in Generations PROVE ThreadShape(p, g)'
    <3>1. Connected(p, g)' => Connected(p, g)
      <4>1. g # 0
        BY BudgetAssumption DEF Generations
      <4> QED BY <2>1, <2>2, <4>1
    <3>2. /\ thread'[p][g].pc = thread[p][g].pc /\ thread'[p][g].config = thread[p][g].config
          /\ thread'[p][g].queue = thread[p][g].queue
      BY <2>1, EnqueueDoes
    <3>3. thread[p][g].pc = "none" => thread'[p][g] = thread[p][g]
      <4>1. CASE Enqueue(j) /\ p = Target[j] /\ g = handle[j]
        BY <4>1 DEF Shaped, ThreadShape
      <4>2. CASE ~(Enqueue(j) /\ p = Target[j] /\ g = handle[j])
        BY <2>1, <4>2, EnqueueDoes
      <4> QED BY <4>1, <4>2
    <3>4. ThreadShape(p, g)
      BY DEF Shaped
    <3> QED BY <2>1, <3>1, <3>2, <3>3, <3>4 DEF ThreadShape
  <2> QED BY <2>1, <2>3 DEF Shaped
<1>2. ASSUME NEW p \in Printers, NEW g \in Generations, ThreadStep(p, g) PROVE Shaped'
  <2>1. /\ \A q \in Printers, h \in Generations : q # p \/ h # g => thread'[q][h] = thread[q][h]
        /\ UNCHANGED <<workers, born, handle>> /\ thread[p][g].pc # "none"
    BY <1>2, ThreadFrame DEF ProcessQuiet
  <2>2. ThreadShape(p, g)'
    <3>1. CASE Exit(p, g)
      BY <2>1, <3>1, ExitDoes, NothingAbsent DEF ThreadShape
    <3>2. CASE ~Exit(p, g)
      <4>1. /\ thread'[p][g].pc \notin {"none", "boot"}
            /\ thread'[p][g].config = thread[p][g].config
        BY <1>2, <3>2, LoadQueueDoes, PopDoes, LoadJobDoes, ClaimDoes, AcceptDoes, LoadMediaDoes,
           SaveMediaDoes, ReceiveEnqueueDoes, SetQueuePausedDoes DEF ThreadStep
      <4>2. ThreadShape(p, g)
        BY DEF Shaped
      <4> QED BY <2>1, <4>1, <4>2 DEF ThreadShape
    <3> QED BY <3>1, <3>2
  <2>3. ASSUME NEW q \in Printers, NEW h \in Generations, q # p \/ h # g
        PROVE  ThreadShape(q, h)'
    <3>1. thread'[q][h] = thread[q][h] /\ ThreadShape(q, h)
      BY <2>1, <2>3 DEF Shaped
    <3> QED BY <2>1, <3>1 DEF ThreadShape
  <2> QED BY <2>1, <2>2, <2>3 DEF Shaped
<1>3. ASSUME NEW a \in Admins, ReplaceWorker(a) PROVE Shaped'
  <2> DEFINE p == admin[a].printer
             c == admin[a].config
             n == born[p] + 1
  <2>1. /\ p \in Printers /\ c \in Configs /\ n \in Generations /\ born[p] \in Nat
        /\ \A q \in Printers : q # p => workers'[q] = workers[q] /\ born'[q] = born[q]
        /\ \A q \in Printers, g \in Generations :
               q # p \/ g # n => thread'[q][g] = thread[q][g]
        /\ \/ /\ c \in Enabled /\ born'[p] = n /\ workers'[p] = n
              /\ thread'[p][n] = Booted(c)
           \/ c \notin Enabled /\ workers'[p] = 0 /\ UNCHANGED <<born, thread>>
    BY <1>3, ReplaceDoes
  <2>2. handle' = handle
    BY <1>3, AdminFrame DEF AdminStep, handlerVars
  <2>3. \A q \in Printers : workers'[q] <= born'[q]
    BY <2>1 DEF Shaped
  <2>4. /\ Booted(c).pc = "boot" /\ Booted(c).config = c /\ Booted(c).queue = <<>>
    BY <2>1, FreshThread
  <2> HIDE DEF p, c, n
  <2>5. ASSUME NEW q \in Printers, NEW g \in Generations PROVE ThreadShape(q, g)'
    <3>1. ThreadShape(q, g)
      BY DEF Shaped
    <3>2. CASE q # p
      BY <2>1, <2>2, <3>1, <3>2 DEF ThreadShape
    <3>3. CASE q = p /\ c \notin Enabled
      <4>1. workers'[q] # g
        BY <2>1, <3>3, BudgetAssumption DEF Generations
      <4> QED BY <2>1, <2>2, <3>1, <3>3, <4>1 DEF ThreadShape
    <3>4. CASE q = p /\ c \in Enabled /\ g = n
      <4>1. thread'[q][g] = Booted(c) /\ born'[q] = g
        BY <2>1, <3>4
      <4>2. ~(g > g)
        BY DEF Generations
      <4> QED BY <2>4, <3>4, <4>1, <4>2 DEF ThreadShape
    <3>5. CASE q = p /\ c \in Enabled /\ g # n
      <4>1. g \in Nat /\ (g > n => g > born[p])
        BY <2>1 DEF Generations, n
      <4> QED BY <2>1, <2>2, <3>1, <3>5, <4>1 DEF ThreadShape
    <3> QED BY <3>2, <3>3, <3>4, <3>5
  <2> QED BY <2>3, <2>5 DEF Shaped
<1>4. ASSUME NEW a \in Admins, CloneList(a) \/ AdminStep(a), ~ReplaceWorker(a) PROVE Shaped'
  <2>1. UNCHANGED <<workers, born, thread, handle>>
    BY <1>4, AdminFrame DEF handlerVars
  <2> QED BY <2>1 DEF Shaped, ThreadShape
<1>5. CASE Crash
  <2>1. /\ \A p \in Printers : workers'[p] = 0 /\ born'[p] = 0
        /\ \A p \in Printers, g \in Generations : thread'[p][g] = Absent
        /\ \A j \in Jobs : handle'[j] = 0
    BY <1>5, CrashDoes
  <2>2. \A g \in Generations : g # 0
    BY BudgetAssumption DEF Generations
  <2> QED BY <2>1, <2>2, NothingAbsent DEF Shaped, ThreadShape
<1>6. CASE Start
  <2>1. /\ handle' = handle /\ \A j \in Jobs : handle[j] = 0
    BY <1>6, StartDoes DEF handlerVars, AtRest, HandlerShape
  <2>2. /\ workers' = born'
        /\ \A p \in Printers : workers'[p] = IF file[p] \in Enabled THEN 1 ELSE 0
        /\ \A p \in Printers, g \in Generations :
               thread'[p][g] = IF file[p] \in Enabled /\ g = 1 THEN Booted(file[p]) ELSE Absent
    BY <1>6, StartDoes
  <2>3. \A g \in Generations : g \in Nat /\ g >= 1
    BY BudgetAssumption DEF Generations
  <2>4. ASSUME NEW p \in Printers, NEW g \in Generations PROVE ThreadShape(p, g)'
    <3>1. CASE file[p] \in Enabled /\ g = 1
      <4>1. file[p] \in Configs /\ thread'[p][g] = Booted(file[p])
        BY <2>2, <3>1, ConfigsAssumption
      <4>2. Booted(file[p]).pc = "boot" /\ Booted(file[p]).config = file[p]
            /\ Booted(file[p]).queue = <<>>
        BY <4>1, FreshThread
      <4> QED BY <2>1, <2>2, <3>1, <4>1, <4>2 DEF ThreadShape
    <3>2. CASE ~(file[p] \in Enabled /\ g = 1)
      <4>1. thread'[p][g] = Absent /\ workers'[p] # g
        BY <2>2, <2>3, <3>2
      <4>2. \A j \in Jobs : handle'[j] # g
        BY <2>1, <2>3
      <4> QED BY <4>1, <4>2, NothingAbsent DEF ThreadShape
    <3> QED BY <3>1, <3>2
  <2>5. \A p \in Printers : workers'[p] <= born'[p]
    BY <2>2
  <2> QED BY <2>4, <2>5 DEF Shaped
<1>7. CASE UNCHANGED vars
  BY <1>7 DEF vars, handlerVars, Shaped, ThreadShape
<1> QED BY <1>1, <1>2, <1>3, <1>4, <1>5, <1>6, <1>7 DEF Next, AdminStep

LEMMA HandlersStep ==
    ASSUME TypeOK, AtRest, \A j \in Jobs : HandlerShape(j), \A p \in Printers : Placed(p),
           [Next]_vars
    PROVE  \A j \in Jobs : HandlerShape(j)'
<1>1. ASSUME NEW j \in Jobs, Lookup(j) \/ HandlerStep(j), NEW k \in Jobs PROVE HandlerShape(k)'
  <2>0. HandlerShape(j) /\ HandlerShape(k)
    OBVIOUS
  <2>1. CASE k # j
    BY <1>1, <2>0, <2>1, HandlerFrame DEF HandlerShape
  <2>2. CASE k = j /\ Lookup(j)
    <3>1. record' = record
      BY <2>2 DEF Lookup, dataVars
    <3>2. \/ hpc'[j] = "done" /\ handle'[j] = 0
          \/ handle'[j] # 0 /\ hpc'[j] = IF j \in V2Jobs THEN "lock" ELSE "create"
      BY <2>0, <2>2 DEF Lookup, HandlerAt, TypeOK, HandlerShape
    <3>3. record[j] = "none"
      BY <2>0, <2>2 DEF Lookup, HandlerShape
    <3> QED BY <2>2, <3>1, <3>2, <3>3 DEF HandlerShape
  <2>3. CASE k = j /\ Receive(j)
    <3>1. /\ record'[j] = "receiving" /\ handle' = handle /\ hpc[j] = "create"
          /\ hpc'[j] = IF j \in V2Jobs THEN "queue" ELSE "lock"
      BY <2>3 DEF Receive, HandlerAt, TypeOK
    <3> QED BY <2>0, <2>3, <3>1 DEF HandlerShape
  <2>4. CASE k = j /\ AcquireLock(j)
    <3>1. /\ record' = record /\ handle' = handle /\ hpc[j] = "lock"
          /\ hpc'[j] = IF j \in V2Jobs THEN "create" ELSE "queue"
      BY <2>4 DEF AcquireLock, HandlerAt, TypeOK
    <3> QED BY <2>0, <2>4, <3>1 DEF HandlerShape
  <2>5. CASE k = j /\ Submit(j)
    <3>1. /\ record'[j] = "queued" /\ handle' = handle /\ hpc[j] = "queue"
          /\ hpc'[j] = "enqueue"
      BY <2>5 DEF Submit, HandlerAt, TypeOK
    <3> QED BY <2>0, <2>5, <3>1 DEF HandlerShape
  <2>6. CASE k = j /\ Enqueue(j)
    <3>1. record' = record /\ handle' = handle /\ hpc[j] = "enqueue" /\ hpc'[j] = "reply"
      BY <2>6 DEF Enqueue, HandlerAt, TypeOK
    <3> QED BY <2>0, <2>6, <3>1 DEF HandlerShape
  <2>7. CASE k = j /\ Answer(j)
    <3>1. record' = record /\ handle'[j] = 0 /\ hpc'[j] = "done"
      BY <2>7 DEF Answer, HandlerAt, TypeOK
    <3> QED BY <2>0, <2>7, <3>1 DEF HandlerShape
  <2> QED BY <1>1, <2>1, <2>2, <2>3, <2>4, <2>5, <2>6, <2>7 DEF HandlerStep
<1>2. ASSUME NEW p \in Printers, NEW g \in Generations, ThreadStep(p, g), NEW k \in Jobs
      PROVE  HandlerShape(k)'
  <2>1. UNCHANGED <<hpc, handle>>
    BY <1>2, ThreadFrame DEF ProcessQuiet
  <2>2. record'[k] = record[k] \/ k = thread[p][g].job
    BY <1>2, RecordsOneByOne
  <2>3. k = thread[p][g].job => hpc[k] \in {"reply", "done"}
    BY DEF Placed, Has, Filed
  <2>4. HandlerShape(k)
    OBVIOUS
  <2> QED BY <2>1, <2>2, <2>3, <2>4 DEF HandlerShape
<1>3. ASSUME NEW a \in Admins, CloneList(a) \/ AdminStep(a), NEW k \in Jobs PROVE HandlerShape(k)'
  <2>1. HandlerShape(k) /\ UNCHANGED <<hpc, handle, record>>
    BY <1>3, AdminFrame DEF handlerVars
  <2> QED BY <2>1 DEF HandlerShape
<1>4. ASSUME Crash, NEW k \in Jobs PROVE HandlerShape(k)'
  <2>1. /\ hpc'[k] = IF hpc[k] = "new" THEN "new" ELSE "done"
        /\ handle'[k] = 0 /\ record' = record
    BY <1>4, CrashDoes DEF dataVars
  <2>2. HandlerShape(k)
    OBVIOUS
  <2> QED BY <2>1, <2>2 DEF HandlerShape
<1>5. ASSUME Start, NEW k \in Jobs PROVE HandlerShape(k)'
  <2>1. /\ UNCHANGED <<hpc, handle>>
        /\ record[k] = "none" => record'[k] = "none"
    BY <1>5, StartDoes DEF handlerVars
  <2>2. HandlerShape(k) /\ hpc[k] \in {"new", "done"}
    BY <1>5, StartDoes DEF AtRest
  <2> QED BY <2>1, <2>2 DEF HandlerShape
<1>6. ASSUME UNCHANGED vars, NEW k \in Jobs PROVE HandlerShape(k)'
  <2>1. HandlerShape(k) /\ UNCHANGED <<hpc, handle, record>>
    BY <1>6 DEF vars, dataVars, handlerVars
  <2> QED BY <2>1 DEF HandlerShape
<1> QED BY <1>1, <1>2, <1>3, <1>4, <1>5, <1>6 DEF Next

-----------------------------------------------------------------------------
(* Where jobs are. *)

\* A step of a thread moves jobs between its own places and its printer's file only.
LEMMA ThreadPlaces ==
    ASSUME TypeOK, NEW p \in Printers, NEW g \in Generations, ThreadStep(p, g), NEW j \in Jobs,
           Has(thread'[p][g], j) \/ InSeq(qfile'[p], j)
    PROVE  Has(thread[p][g], j) \/ InSeq(qfile[p], j)
<1> DEFINE t == thread[p][g]
           u == thread'[p][g]
<1>1. t.queue \in Seq(Jobs) /\ t.inbox \in Seq(Jobs) /\ None \notin Jobs
  BY ThreadType, AbsentType
<1>2. CASE LoadQueue(p, g)
  BY <1>2, LoadQueueDoes DEF Has
<1>3. CASE Pop(p, g)
  <2>1. \A k : InSeq(t.queue, k) <=> k = Head(t.queue) \/ InSeq(Tail(t.queue), k)
    BY <1>1, <1>3, PopDoes, HeadAndTail
  <2> QED BY <1>3, <2>1, PopDoes DEF Has
<1>4. CASE LoadJob(p, g)
  BY <1>1, <1>4, LoadJobDoes DEF Has
<1>5. CASE Claim(p, g)
  BY <1>5, ClaimDoes DEF Has
<1>6. CASE Accept(p, g)
  BY <1>6, AcceptDoes DEF Has
<1>7. CASE LoadMedia(p, g)
  BY <1>7, LoadMediaDoes DEF Has
<1>8. CASE SaveMedia(p, g)
  BY <1>1, <1>8, SaveMediaDoes DEF Has
<1>9. CASE ReceiveEnqueue(p, g)
  <2>1. /\ Head(t.inbox) \in Jobs
        /\ \A k : InSeq(t.inbox, k) <=> k = Head(t.inbox) \/ InSeq(Tail(t.inbox), k)
    BY <1>1, <1>9, ReceiveEnqueueDoes, HeadAndTail
  <2>2. \A k : InSeq(Append(t.queue, Head(t.inbox)), k) <=>
                   InSeq(t.queue, k) \/ k = Head(t.inbox)
    BY <1>1, <2>1, AppendedLast
  <2> QED BY <1>9, <2>1, <2>2, ReceiveEnqueueDoes DEF Has
<1>10. CASE Exit(p, g)
  BY <1>10, ExitDoes, NothingAbsent
<1>11. CASE SetQueuePaused(p, g)
  BY <1>11, SetQueuePausedDoes DEF Has
<1> QED BY <1>2, <1>3, <1>4, <1>5, <1>6, <1>7, <1>8, <1>9, <1>10, <1>11 DEF ThreadStep

\* A job that was handed over stays so, and is never made Queued again.
LEMMA FiledStays ==
    ASSUME TypeOK, [Next]_vars, NEW p \in Printers, NEW j \in Jobs, Filed(p, j)
    PROVE  Filed(p, j)' /\ (record'[j] = "queued" => record[j] = "queued")
<1>1. ASSUME NEW k \in Jobs, Lookup(k) \/ HandlerStep(k)
      PROVE  Filed(p, j)' /\ record'[j] = record[j]
  <2>1. CASE k # j
    BY <1>1, <2>1, HandlerFrame DEF Filed
  <2>2. CASE k = j
    <3>1. Answer(j)
      BY <1>1, <2>2 DEF Filed, Lookup, HandlerStep, Receive, AcquireLock, Submit, Enqueue
    <3>2. record' = record /\ hpc'[j] = "done"
      BY <3>1 DEF Answer, HandlerAt, TypeOK
    <3> QED BY <3>2 DEF Filed
  <2> QED BY <2>1, <2>2
<1>2. ASSUME NEW q \in Printers, NEW g \in Generations, ThreadStep(q, g)
      PROVE  Filed(p, j)' /\ (record'[j] = "queued" => record[j] = "queued")
  <2>1. UNCHANGED hpc
    BY <1>2, ThreadFrame DEF ProcessQuiet
  <2>2. record'[j] \in {record[j], "writing", "accepted"}
    BY <1>2, RecordsOneByOne
  <2> QED BY <2>1, <2>2 DEF Filed
<1>3. ASSUME NEW a \in Admins, CloneList(a) \/ AdminStep(a) PROVE UNCHANGED <<hpc, record>>
  BY <1>3, AdminFrame DEF handlerVars
<1>4. CASE Crash
  BY <1>4, CrashDoes DEF Filed, dataVars
<1>5. CASE Start
  BY <1>5, StartDoes DEF Filed, handlerVars
<1>6. UNCHANGED vars => UNCHANGED <<hpc, record>>
  BY DEF vars, dataVars, handlerVars
<1> QED BY <1>1, <1>2, <1>3, <1>4, <1>5, <1>6 DEF Next, Filed

LEMMA PlacedStep ==
    ASSUME BaseInv, [Next]_vars
    PROVE  \A p \in Printers : Placed(p)'
<1>0. TypeOK /\ Bounded /\ AtRest /\ (\A j \in Jobs : HandlerShape(j))
      /\ (\A p \in Printers : Placed(p))
  BY DEF BaseInv
<1> SUFFICES ASSUME NEW p \in Printers PROVE Placed(p)'
  OBVIOUS
<1>1. /\ Placed(p)
      /\ \A j \in Jobs : Filed(p, j) =>
             Filed(p, j)' /\ (record'[j] = "queued" => record[j] = "queued")
  BY <1>0, FiledStays
<1>2. CASE UNCHANGED <<qfile, thread>>
  <2>1. \A g \in Generations : thread[p][g].pc \in {"deliver", "charge", "save"} =>
                                   /\ thread[p][g].job \in Jobs
                                   /\ Has(thread[p][g], thread[p][g].job)
    BY <1>0, ThreadType DEF Busy, Has
  <2>2. ASSUME NEW g \in Generations, thread[p][g].pc \in {"deliver", "charge", "save"}
        PROVE  record'[thread[p][g].job] # "queued"
    <3>1. thread[p][g].job \in Jobs /\ Has(thread[p][g], thread[p][g].job)
      BY <2>1, <2>2
    <3>2. Filed(p, thread[p][g].job) /\ record[thread[p][g].job] # "queued"
      BY <1>1, <2>2, <3>1 DEF Placed
    <3> QED BY <1>1, <3>1, <3>2
  <2>3. /\ \A j \in Jobs : InSeq(qfile[p], j) => Filed(p, j)'
        /\ \A g \in Generations, j \in Jobs : Has(thread[p][g], j) => Filed(p, j)'
    BY <1>1 DEF Placed
  <2> QED BY <1>2, <2>2, <2>3 DEF Placed
<1>3. ASSUME NEW j \in Jobs, Enqueue(j) PROVE Placed(p)'
  <2>0. HandlerShape(j) /\ qfile' = qfile
    BY <1>0, <1>3, HandlerFrame DEF HandlerStep
  <2>1. /\ qfile' = qfile /\ hpc'[j] = "reply" /\ record'[j] = "queued" /\ record' = record
        /\ \A g \in Generations :
               LET t == thread[p][g]
                   u == thread'[p][g]
               IN /\ p # Target[j] \/ g # handle[j] => u = t
                  /\ u.pc = t.pc /\ u.queue = t.queue /\ u.job = t.job
                  /\ p = Target[j] /\ g = handle[j] => u.inbox = Append(t.inbox, j)
    <3>1. record[j] = "queued"
      BY <1>3, <2>0 DEF Enqueue, HandlerShape
    <3> QED BY <1>0, <1>3, <2>0, <3>1, EnqueueDoes
  <2>2. Filed(Target[j], j)'
    BY <2>1 DEF Filed
  <2>3. ASSUME NEW g \in Generations, NEW k \in Jobs, Has(thread'[p][g], k)
        PROVE  Filed(p, k)'
    <3>1. CASE Has(thread[p][g], k)
      BY <1>1, <3>1 DEF Placed
    <3>2. CASE ~Has(thread[p][g], k)
      <4>1. p = Target[j] /\ g = handle[j] /\ thread'[p][g].inbox = Append(thread[p][g].inbox, j)
        BY <2>1, <2>3, <3>2
      <4>2. InSeq(Append(thread[p][g].inbox, j), k) /\ ~InSeq(thread[p][g].inbox, k)
        BY <2>1, <2>3, <3>2, <4>1 DEF Has
      <4>3. thread[p][g].inbox \in Seq(Jobs)
        BY <1>0, ThreadType
      <4>4. k = j
        BY <4>2, <4>3, AppendedLast
      <4> QED BY <2>2, <4>1, <4>4
    <3> QED BY <3>1, <3>2
  <2>4. \A g \in Generations : thread'[p][g].pc \in {"deliver", "charge", "save"} =>
                                   record'[thread'[p][g].job] # "queued"
    BY <1>1, <2>1 DEF Placed
  <2> QED BY <1>1, <2>1, <2>3, <2>4 DEF Placed
<1>4. ASSUME NEW q \in Printers, NEW g \in Generations, ThreadStep(q, g) PROVE Placed(p)'
  <2>1. /\ \A r \in Printers, h \in Generations : r # q \/ h # g => thread'[r][h] = thread[r][h]
        /\ \A r \in Printers : r # q => qfile'[r] = qfile[r]
    BY <1>0, <1>4, ThreadFrame
  <2>2. ASSUME NEW j \in Jobs, InSeq(qfile'[p], j) PROVE Filed(p, j)'
    <3>1. InSeq(qfile[p], j) \/ \E h \in Generations : Has(thread[p][h], j)
      BY <1>0, <1>4, <2>1, <2>2, ThreadPlaces
    <3> QED BY <1>1, <3>1 DEF Placed
  <2>3. ASSUME NEW h \in Generations, NEW j \in Jobs, Has(thread'[p][h], j) PROVE Filed(p, j)'
    <3>1. InSeq(qfile[p], j) \/ Has(thread[p][h], j)
      BY <1>0, <1>4, <2>1, <2>3, ThreadPlaces
    <3> QED BY <1>1, <3>1 DEF Placed
  <2>4. ASSUME NEW h \in Generations, thread'[p][h].pc \in {"deliver", "charge", "save"}
        PROVE  record'[thread'[p][h].job] # "queued"
    <3>1. CASE p # q \/ h # g
      <4>1. thread'[p][h] = thread[p][h] /\ thread[p][h].job \in Jobs
        BY <1>0, <2>1, <2>4, <3>1, ThreadType DEF Busy
      <4> QED BY <1>1, <2>4, <4>1 DEF Placed, Has
    <3>2. CASE p = q /\ h = g /\ ~Claim(q, g) /\ ~Accept(q, g)
      <4>1. /\ thread[p][h].pc \in {"deliver", "charge", "save"}
            /\ thread'[p][h].job = thread[p][h].job /\ UNCHANGED record
        BY <1>0, <1>4, <2>4, <3>2, LoadQueueDoes, PopDoes, LoadJobDoes, LoadMediaDoes,
           SaveMediaDoes, ReceiveEnqueueDoes, SetQueuePausedDoes, ExitDoes, NothingAbsent
           DEF ThreadStep
      <4> QED BY <1>1, <4>1 DEF Placed
    <3>3. CASE p = q /\ h = g /\ (Claim(q, g) \/ Accept(q, g))
      <4>1. /\ thread'[p][h].job = thread[p][h].job /\ thread[p][h].job \in Jobs
            /\ \/ record' = [record EXCEPT ![thread[p][h].job] = "writing"]
               \/ record' = [record EXCEPT ![thread[p][h].job] = "accepted"]
        BY <1>0, <3>3, ClaimDoes, AcceptDoes
      <4> QED BY <1>0, <4>1 DEF TypeOK
    <3> QED BY <3>1, <3>2, <3>3
  <2> QED BY <2>2, <2>3, <2>4 DEF Placed
<1>5. ASSUME NEW a \in Admins, ReplaceWorker(a) PROVE Placed(p)'
  <2>1. qfile' = qfile /\ record' = record
    BY <1>0, <1>5, AdminFrame DEF AdminStep
  <2>2. \A g \in Generations : thread'[p][g] = thread[p][g]
                               \/ \E c \in Configs : thread'[p][g] = Booted(c)
    BY <1>0, <1>5, ReplaceDoes
  <2>3. ASSUME NEW g \in Generations
        PROVE  /\ \A j \in Jobs : Has(thread'[p][g], j) => Has(thread[p][g], j)
               /\ thread'[p][g].pc \in {"deliver", "charge", "save"} =>
                      thread'[p][g] = thread[p][g]
    BY <2>2, FreshThread
  <2> QED BY <1>1, <2>1, <2>3 DEF Placed
<1>6. CASE Crash
  <2>1. qfile' = qfile /\ \A g \in Generations : thread'[p][g] = Absent
    BY <1>0, <1>6, CrashDoes DEF dataVars
  <2> QED BY <1>1, <2>1, NothingAbsent DEF Placed
<1>7. CASE Start
  <2>1. ASSUME NEW j \in Jobs, InSeq(qfile'[p], j) PROVE Filed(p, j)'
    <3>1. CASE file[p] = None
      <4>1. qfile'[p] = qfile[p]
        BY <1>0, <1>7, <3>1, StartDoes
      <4> QED BY <1>1, <2>1, <4>1 DEF Placed
    <3>2. CASE file[p] # None
      <4>1. qfile'[p] \in SetToSeqs(QueuedFor(p)) /\ QueuedFor(p) \subseteq Jobs
        BY <1>0, <1>7, <3>2, StartDoes DEF QueuedFor
      <4>2. j \in QueuedFor(p)
        BY <2>1, <4>1, AnyOrder
      <4>3. Filed(p, j)
        BY <1>0, <1>7, <4>2, StartDoes DEF QueuedFor, Filed, HandlerShape, AtRest
      <4> QED BY <1>1, <4>3
    <3> QED BY <3>1, <3>2
  <2>2. \A g \in Generations : thread'[p][g] = Absent
                               \/ \E c \in Configs : thread'[p][g] = Booted(c)
    BY <1>0, <1>7, StartDoes, ConfigsAssumption
  <2>3. \A g \in Generations : /\ \A j \in Jobs : ~Has(thread'[p][g], j)
                               /\ thread'[p][g].pc \notin {"deliver", "charge", "save"}
    BY <2>2, NothingAbsent, FreshThread
  <2> QED BY <2>1, <2>3 DEF Placed
<1>8. ASSUME NEW j \in Jobs, Lookup(j) \/ HandlerStep(j), ~Enqueue(j)
      PROVE  UNCHANGED <<qfile, thread>>
  BY <1>0, <1>8, HandlerFrame
<1>9. ASSUME NEW a \in Admins, CloneList(a) \/ AdminStep(a), ~ReplaceWorker(a)
      PROVE  UNCHANGED <<qfile, thread>>
  BY <1>0, <1>9, AdminFrame
<1>10. UNCHANGED vars => UNCHANGED <<qfile, thread>>
  BY DEF vars, dataVars
<1> QED BY <1>2, <1>3, <1>4, <1>5, <1>6, <1>7, <1>8, <1>9, <1>10 DEF Next, AdminStep, HandlerStep

LEMMA BaseInit == Init => BaseInv
<1> SUFFICES ASSUME Init PROVE BaseInv
  OBVIOUS
<1>1. /\ \A p \in Printers, g \in Generations : thread[p][g] = Absent
      /\ \A p \in Printers : workers[p] = 0 /\ born[p] = 0 /\ qfile[p] = <<>>
      /\ \A j \in Jobs : hpc[j] = "new" /\ handle[j] = 0 /\ record[j] = "none"
      /\ \A a \in Admins : admin[a] = Idle
  BY DEF Init
<1>2. TypeOK
  <2>1. thread \in AllThreads
    BY AbsentType DEF Init, AllThreads
  <2>2. file \in [Printers -> Configs \cup {None}] /\ memory = file
    BY ConfigsAssumption DEF Init
  <2>3. \A p \in Printers, g \in Generations :
            (thread[p][g].job # None) <=> thread[p][g].pc \in Busy
    BY <1>1, NothingAbsent DEF Busy
  <2>6. qfile \in [Printers -> Seq(Jobs)] /\ qfile = [p \in Printers |-> <<>>]
    <3>1. <<>> \in Seq(Jobs)
      OBVIOUS
    <3> QED BY <3>1 DEF Init
  <2>7. admin \in [Admins -> Requests \cup {Idle}]
    BY DEF Init
  <2>4. /\ roll \in [Printers -> Nat] /\ lock \in Jobs \cup {None}
        /\ workers \in [Printers -> Generations \cup {0}]
        /\ born \in [Printers -> Generations \cup {0}]
        /\ record \in [Jobs -> {"none", "receiving", "queued", "writing", "accepted",
                                "unknown", "failed"}]
        /\ hpc \in [Jobs -> {"new", "create", "lock", "queue", "enqueue", "reply", "done"}]
        /\ handle \in [Jobs -> Generations \cup {0}] /\ replied \subseteq Jobs
        /\ sent \in [Jobs -> Nat] /\ charged \subseteq Jobs
        /\ straddled \in BOOLEAN /\ overlapped \in BOOLEAN /\ up \in BOOLEAN
        /\ left \subseteq Jobs
    BY DEF Init
  <2>8. pfile \in [Printers -> BOOLEAN]
    BY DEF Init
  <2>5. budget \in [save : Nat, pause : Nat, crash : Nat, fault : Nat]
    BY BudgetAssumption DEF Init
  <2> QED BY <2>1, <2>2, <2>3, <2>4, <2>5, <2>6, <2>7, <2>8 DEF TypeOK, AllThreads, Busy
<1>3. Bounded
  <2>1. Active = {}
    BY <1>1 DEF Active, Idle
  <2>2. IsFiniteSet(Active) /\ Cardinality(Active) = 0
    BY <2>1, FS_EmptySet
  <2>3. budget = Budget /\ Budget \in [save : Nat, pause : Nat, crash : Nat, fault : Nat]
    BY BudgetAssumption DEF Init
  <2> HIDE DEF Active
  <2>4. \A kind \in {"save", "crash", "fault"} : budget[kind] <= Budget[kind]
    BY <2>3
  <2>5. \A p \in Printers : born[p] + Cardinality(Active) + budget.save <= Budget.save + 1
    BY <1>1, <2>2, <2>3
  <2> QED BY <2>2, <2>4, <2>5 DEF Bounded
<1>4. AtRest
  BY <1>1 DEF AtRest, Idle
<1>5. \A p \in Printers, g \in Generations : ThreadShape(p, g)
  <2>1. \A g \in Generations : g # 0
    BY BudgetAssumption DEF Generations
  <2>2. \A p \in Printers, g \in Generations : ~Connected(p, g)
    BY <1>1, <2>1 DEF Connected, Senders
  <2> QED BY <1>1, <2>2, NothingAbsent DEF ThreadShape
<1>6. \A j \in Jobs : HandlerShape(j)
  BY <1>1 DEF HandlerShape
<1>7. \A p \in Printers : Placed(p)
  BY <1>1, NothingInEmpty, NothingAbsent DEF Placed
<1> QED BY <1>1, <1>2, <1>3, <1>4, <1>5, <1>6, <1>7 DEF BaseInv

LEMMA BaseStep == BaseInv /\ [Next]_vars => BaseInv'
<1> SUFFICES ASSUME BaseInv, [Next]_vars PROVE BaseInv'
  OBVIOUS
<1>0. /\ TypeOK /\ Bounded /\ AtRest /\ Shaped
      /\ (\A j \in Jobs : HandlerShape(j)) /\ (\A p \in Printers : Placed(p))
  BY DEF BaseInv, Shaped
<1>1. TypeOK' /\ Bounded' /\ AtRest'
  BY <1>0, TypeStep, BoundedStep, AtRestStep
<1>2. Shaped'
  BY <1>0, ShapedStep
<1>3. (\A j \in Jobs : HandlerShape(j)') /\ (\A p \in Printers : Placed(p)')
  BY <1>0, HandlersStep, PlacedStep
<1> QED BY <1>1, <1>2, <1>3 DEF BaseInv, Shaped


-----------------------------------------------------------------------------
(* The file, the list and the workers.                                       *)

\* What was observed stays observed, and bounds are only used up.
LEMMA Observed ==
    ASSUME TypeOK, [Next]_vars
    PROVE  /\ straddled => straddled'
           /\ overlapped => overlapped'
           /\ left \subseteq left'
           /\ \A kind \in {"save", "crash", "fault"} : budget'[kind] <= budget[kind]
<1>0. budget \in [save : Nat, pause : Nat, crash : Nat, fault : Nat]
  BY DEF TypeOK
<1>1. ASSUME NEW j \in Jobs, Lookup(j) \/ HandlerStep(j)
      PROVE  UNCHANGED <<left, overlapped, budget>> /\ (straddled => straddled')
  <2>1. UNCHANGED <<left, overlapped, budget>> /\ (Lookup(j) \/ UNCHANGED straddled)
    BY <1>1, HandlerFrame
  <2>2. Lookup(j) => (straddled => straddled')
    BY DEF Lookup
  <2> QED BY <2>1, <2>2
<1>2. ASSUME NEW p \in Printers, NEW g \in Generations, ThreadStep(p, g)
      PROVE  /\ UNCHANGED <<straddled, overlapped>> /\ left \subseteq left'
             /\ Spend("pause", 1) \/ UNCHANGED budget
  BY <1>2, ThreadFrame DEF ProcessQuiet
<1>3. ASSUME NEW a \in Admins, CloneList(a) \/ AdminStep(a)
      PROVE  /\ straddled => straddled'
             /\ overlapped => overlapped'
             /\ UNCHANGED left
             /\ UNCHANGED budget \/ Spend("save", 1) \/ Spend("fault", 1)
  <2>1. CASE CloneList(a) \/ SetList(a)
    BY <2>1 DEF CloneList, SetList, AdminQuiet
  <2>2. CASE CheckOpenJobs(a)
    <3>1. UNCHANGED <<left, overlapped>>
      BY <2>2 DEF CheckOpenJobs, AdminQuiet
    <3>2. straddled => straddled'
      BY <2>2 DEF CheckOpenJobs
    <3>3. UNCHANGED budget \/ Spend("fault", 1)
      BY <2>2 DEF CheckOpenJobs
    <3> QED BY <3>1, <3>2, <3>3
  <2>3. CASE SaveConfigs(a)
    BY <2>3 DEF SaveConfigs, AdminQuiet
  <2>4. CASE ReplaceWorker(a)
    BY <2>4 DEF ReplaceWorker, AdminQuiet
  <2> QED BY <1>3, <2>1, <2>2, <2>3, <2>4 DEF AdminStep
<1>4. Crash => UNCHANGED <<left, straddled, overlapped>> /\ Spend("crash", 1)
  BY CrashDoes DEF seenVars
<1>5. Start => UNCHANGED <<left, straddled, overlapped, budget>>
  BY StartDoes DEF seenVars
<1>6. UNCHANGED vars => UNCHANGED <<left, straddled, overlapped, budget>>
  BY DEF vars, seenVars
<1>7. ASSUME NEW kind \in {"save", "pause", "crash", "fault"}, Spend(kind, 1)
      PROVE  \A other \in {"save", "crash", "fault"} : budget'[other] <= budget[other]
  BY <1>0, <1>7, SpendDoes
<1>8. UNCHANGED budget => \A other \in {"save", "crash", "fault"} : budget'[other] <= budget[other]
  BY <1>0
<1>9. \/ UNCHANGED budget \/ Spend("save", 1) \/ Spend("fault", 1) \/ Spend("crash", 1)
      \/ Spend("pause", 1)
  BY <1>1, <1>2, <1>3, <1>4, <1>5, <1>6 DEF Next
<1>10. (straddled => straddled') /\ (overlapped => overlapped') /\ left \subseteq left'
  BY <1>1, <1>2, <1>3, <1>4, <1>5, <1>6 DEF Next
<1>11. \A kind \in {"save", "crash", "fault"} : budget'[kind] <= budget[kind]
  BY <1>7, <1>8, <1>9
<1> QED BY <1>10, <1>11

\* Submissions and threads do not touch what a printer is served with: the
\* thread in the map does not end.
LEMMA ServingKept ==
    ASSUME BaseInv,
           \/ \E j \in Jobs : Lookup(j) \/ HandlerStep(j)
           \/ \E p \in Printers, g \in Generations : ThreadStep(p, g)
           \/ UNCHANGED vars
    PROVE  /\ UNCHANGED <<file, memory, workers, admin, up>>
           /\ \A q \in Printers : Serving(q)' = Serving(q)
<1>0. /\ TypeOK /\ \A j \in Jobs : HandlerShape(j)
      /\ \A q \in Printers : workers[q] \in Generations \cup {0}
  BY DEF BaseInv, TypeOK
<1>1. ASSUME NEW j \in Jobs, Lookup(j) \/ HandlerStep(j)
      PROVE  /\ UNCHANGED <<file, memory, workers, admin, up>>
             /\ \A q \in Printers : Serving(q)' = Serving(q)
  <2>1. UNCHANGED <<file, memory, workers, admin, up>> /\ (Enqueue(j) \/ UNCHANGED thread)
    BY <1>0, <1>1, HandlerFrame
  <2>2. \A q \in Printers, g \in Generations : thread'[q][g].config = thread[q][g].config
    BY <1>0, <2>1, EnqueueDoes
  <2> QED BY <1>0, <2>1, <2>2 DEF Serving
<1>2. ASSUME NEW p \in Printers, NEW g \in Generations, ThreadStep(p, g)
      PROVE  /\ UNCHANGED <<file, memory, workers, admin, up>>
             /\ \A q \in Printers : Serving(q)' = Serving(q)
  <2>1. /\ UNCHANGED <<file, memory, workers, admin, up>>
        /\ \A q \in Printers, h \in Generations : q # p \/ h # g => thread'[q][h] = thread[q][h]
    BY <1>0, <1>2, ThreadFrame DEF ProcessQuiet
  <2>2. thread'[p][g].config = thread[p][g].config \/ workers[p] # g
    BY <1>0, <1>2, LoadQueueDoes, PopDoes, LoadJobDoes, ClaimDoes, AcceptDoes, LoadMediaDoes,
       SaveMediaDoes, ReceiveEnqueueDoes, SetQueuePausedDoes, ExitDoes DEF ThreadStep, Connected
  <2> QED BY <1>0, <2>1, <2>2 DEF Serving
<1>3. ASSUME UNCHANGED vars
      PROVE  /\ UNCHANGED <<file, memory, workers, admin, up>>
             /\ \A q \in Printers : Serving(q)' = Serving(q)
  BY <1>3 DEF vars, dataVars, Serving
<1> QED BY <1>1, <1>2, <1>3

\* What a request that saves the file leaves, and what one that sets the list does.
LEMMA SaveConfigsDoes ==
    ASSUME TypeOK, NEW a \in Admins, SaveConfigs(a)
    PROVE  /\ UNCHANGED <<memory, workers, thread>>
           /\ overlapped' = (overlapped \/ ~Alone(a))
           /\ \/ budget'.fault < budget.fault
              \/ /\ file' = admin[a].candidate /\ admin'[a].pc = "memory"
                 /\ admin'[a].candidate = admin[a].candidate
                 /\ admin'[a].printer = admin[a].printer /\ admin'[a].config = admin[a].config
<1>1. /\ admin[a] \in Requests /\ admin \in [Admins -> Requests \cup {Idle}]
      /\ budget.fault \in Nat
  BY RequestType DEF SaveConfigs, TypeOK
<1>2. CASE Spend("fault", 1)
  <2>1. budget'.fault = budget.fault - 1
    BY <1>2, SpendDoes
  <2> QED BY <1>1, <2>1 DEF SaveConfigs
<1>3. CASE file' = admin[a].candidate /\ Moves(a, "memory")
  <2>1. admin' = [admin EXCEPT ![a] = [admin[a] EXCEPT !.pc = "memory"]]
    BY <1>1, <1>3 DEF Moves
  <2>2. admin'[a] = [admin[a] EXCEPT !.pc = "memory"]
    BY <1>1, <2>1
  <2>3. /\ admin'[a].pc = "memory" /\ admin'[a].candidate = admin[a].candidate
        /\ admin'[a].printer = admin[a].printer /\ admin'[a].config = admin[a].config
    BY <1>1, <2>2 DEF Requests
  <2> QED BY <1>3, <2>3 DEF SaveConfigs
<1> QED BY <1>2, <1>3 DEF SaveConfigs

LEMMA SetListDoes ==
    ASSUME TypeOK, NEW a \in Admins, SetList(a)
    PROVE  /\ UNCHANGED <<file, workers, thread>> /\ memory' = admin[a].candidate
           /\ admin[a].pc = "memory" /\ admin'[a].pc = "swap"
           /\ admin'[a].printer = admin[a].printer /\ admin'[a].config = admin[a].config
<1>1. ~CloneList(a) /\ admin[a].pc = "memory"
  BY AdminGuards
<1> QED BY <1>1, AdminFrame DEF SetList, AdminStep

LEMMA AgreeStep ==
    ASSUME BaseInv, AgreeInv, [Next]_vars
    PROVE  AgreeInv'
<1> SUFFICES ASSUME ~overlapped', Writable' PROVE StepwiseAgreement'
  BY DEF AgreeInv
<1>0. /\ TypeOK /\ Bounded /\ AtRest /\ \A j \in Jobs : HandlerShape(j)
      /\ memory \in [Printers -> Configs \cup {None}]
  BY DEF BaseInv, TypeOK
<1>1. ~overlapped /\ Writable /\ budget'.fault >= budget.fault
  <2>1. budget.fault \in Nat /\ Budget.fault \in Nat /\ budget.fault <= Budget.fault
        /\ budget'.fault <= budget.fault
    BY <1>0, Observed, BudgetAssumption DEF TypeOK, Bounded
  <2> QED BY <1>0, <2>1, Observed DEF Writable
<1>2. StepwiseAgreement
  BY <1>1 DEF AgreeInv
<1>3. CASE \/ \E j \in Jobs : Lookup(j) \/ HandlerStep(j)
           \/ \E p \in Printers, g \in Generations : ThreadStep(p, g)
           \/ UNCHANGED vars
  <2>1. /\ UNCHANGED <<file, memory, workers, admin, up>>
        /\ \A q \in Printers : Serving(q)' = Serving(q)
    BY <1>3, ServingKept
  <2> QED BY <1>2, <2>1 DEF StepwiseAgreement, Served, Landed
<1>4. ASSUME NEW a \in Admins, CloneList(a) \/ CheckOpenJobs(a) PROVE StepwiseAgreement'
  <2>1. /\ UNCHANGED <<file, memory, workers, thread, up>>
        /\ \A b \in Admins : b # a => admin'[b] = admin[b]
        /\ admin[a].pc \in {"idle", "check"} /\ admin'[a].pc \in {"idle", "check", "store"}
    <3>1. ~ReplaceWorker(a)
      BY <1>4, AdminGuards
    <3> QED BY <1>0, <1>4, <3>1, AdminFrame DEF AdminStep, CloneList, CheckOpenJobs
  <2>2. \A q \in Printers : Served(q)' = Served(q)
    BY <2>1 DEF Served, Serving
  <2>3. \A b \in Admins : Landed(b)' = Landed(b) /\ (Landed(b)' => admin'[b] = admin[b])
    BY <2>1 DEF Landed
  <2>4. \A b \in Admins : /\ admin'[b].pc = "memory" => admin[b].pc = "memory"
                          /\ admin'[b].pc = "swap" => admin[b].pc = "swap"
    BY <2>1
  <2> QED BY <1>2, <2>1, <2>2, <2>3, <2>4 DEF StepwiseAgreement, Landed
<1>5. ASSUME NEW a \in Admins, SaveConfigs(a) PROVE StepwiseAgreement'
  <2>1. /\ \A b \in Admins : b # a => admin'[b] = admin[b]
        /\ UNCHANGED up /\ admin[a].pc = "store"
    BY <1>0, <1>5, AdminFrame DEF AdminStep
  <2>2. /\ UNCHANGED <<memory, workers, thread>> /\ Alone(a)
        /\ file' = admin[a].candidate /\ admin'[a].pc = "memory"
        /\ admin'[a].candidate = admin[a].candidate
        /\ admin'[a].printer = admin[a].printer /\ admin'[a].config = admin[a].config
    <3>1. ~(budget'.fault < budget.fault)
      BY <1>0, <1>1, BudgetAssumption DEF TypeOK, Writable
    <3> QED BY <1>0, <1>5, <3>1, SaveConfigsDoes
  <2>3. up /\ \A b \in Admins : ~Landed(b)
    BY <1>0, <2>1, <2>2 DEF AtRest, Alone, Landed
  <2>4. \A q \in Printers : Served(q)'
    <3>1. \A q \in Printers : Served(q)
      BY <1>2, <2>3 DEF StepwiseAgreement
    <3> QED BY <2>2, <3>1 DEF Served, Serving
  <2>5. \A b \in Admins : b # a => ~Landed(b)'
    BY <2>1, <2>3 DEF Landed
  <2>6. admin'[a].candidate = [memory' EXCEPT ![admin'[a].printer] = admin'[a].config]
    BY <2>2 DEF Alone
  <2> QED BY <2>2, <2>4, <2>5, <2>6 DEF StepwiseAgreement, Landed
<1>6. ASSUME NEW a \in Admins, SetList(a) PROVE StepwiseAgreement'
  <2>1. /\ \A b \in Admins : b # a => admin'[b] = admin[b]
        /\ UNCHANGED <<up, file, workers, thread>> /\ admin[a].pc = "memory"
        /\ memory' = admin[a].candidate
        /\ admin'[a].pc = "swap" /\ admin'[a].printer = admin[a].printer
        /\ admin'[a].config = admin[a].config
    BY <1>0, <1>6, AdminFrame, SetListDoes DEF AdminStep
  <2>2. /\ memory' = [memory EXCEPT ![admin[a].printer] = admin[a].config]
        /\ file' = memory' /\ \A q \in Printers : Served(q)
        /\ admin[a].printer \in Printers
    BY <1>0, <1>2, <2>1, RequestType DEF StepwiseAgreement
  <2>3. \A b \in Admins : b # a => ~Landed(b)'
    BY <1>2, <2>1 DEF StepwiseAgreement, Landed
  <2>4. /\ memory'[admin'[a].printer] = admin'[a].config
        /\ \A q \in Printers \ {admin'[a].printer} : Served(q)'
    BY <1>0, <2>1, <2>2 DEF Served, Serving
  <2> QED BY <2>1, <2>2, <2>3, <2>4 DEF StepwiseAgreement, Landed
<1>7. ASSUME NEW a \in Admins, ReplaceWorker(a) PROVE StepwiseAgreement'
  <2> DEFINE p == admin[a].printer
             c == admin[a].config
             n == born[p] + 1
  <2>1. /\ \A b \in Admins : b # a => admin'[b] = admin[b]
        /\ UNCHANGED up /\ admin[a].pc = "swap" /\ admin'[a] = Idle
    BY <1>0, <1>7, AdminFrame DEF AdminStep
  <2>2. /\ p \in Printers /\ c \in Configs /\ n \in Generations
        /\ \A q \in Printers : q # p => workers'[q] = workers[q]
        /\ \A q \in Printers, g \in Generations : q # p => thread'[q][g] = thread[q][g]
        /\ \/ c \in Enabled /\ workers'[p] = n /\ thread'[p][n] = Booted(c)
           \/ c \notin Enabled /\ workers'[p] = 0
        /\ UNCHANGED <<file, memory>>
    BY <1>0, <1>7, ReplaceDoes
  <2>3. /\ file = memory /\ memory[p] = c /\ \A q \in Printers \ {p} : Served(q)
    BY <1>2, <2>1 DEF StepwiseAgreement
  <2>4. \A b \in Admins : ~Landed(b)' /\ admin'[b].pc # "memory" /\ admin'[b].pc # "swap"
    BY <1>2, <2>1 DEF StepwiseAgreement, Landed, Idle
  <2>5. Booted(c).config = c /\ n # 0
    BY <2>2, FreshThread DEF Generations
  <2>6. \A q \in Printers : workers[q] \in Generations \cup {0}
    BY <1>0 DEF TypeOK
  <2> HIDE DEF p, c, n
  <2>7. ASSUME NEW q \in Printers PROVE Served(q)'
    <3>1. CASE q = p
      <4>1. Serving(q)' = Want(c)
        BY <2>2, <2>5, <3>1 DEF Serving, Want
      <4> QED BY <2>2, <2>3, <3>1, <4>1 DEF Served
    <3>2. CASE q # p
      <4>1. Serving(q)' = Serving(q) /\ Served(q)
        BY <2>2, <2>3, <2>6, <3>2 DEF Serving
      <4> QED BY <2>2, <4>1 DEF Served
    <3> QED BY <3>1, <3>2
  <2> QED BY <2>2, <2>3, <2>4, <2>7 DEF StepwiseAgreement
<1>8. CASE Crash
  <2>1. ~up' /\ \A b \in Admins : admin'[b].pc = "idle"
    BY <1>0, <1>8, CrashDoes DEF Idle
  <2> QED BY <2>1 DEF StepwiseAgreement, Landed
<1>9. CASE Start
  <2>1. \A b \in Admins : admin'[b].pc = "idle"
    BY <1>0, <1>9, StartDoes DEF AtRest
  <2>2. file' = memory' /\ memory' = file
    BY <1>0, <1>9, StartDoes
  <2>3. ASSUME NEW q \in Printers PROVE Served(q)'
    <3>1. 1 \in Generations /\ (file[q] \in Enabled => file[q] \in Configs)
      BY BudgetAssumption, ConfigsAssumption DEF Generations
    <3>2. /\ workers'[q] = IF file[q] \in Enabled THEN 1 ELSE 0
          /\ file[q] \in Enabled => thread'[q][1] = Booted(file[q])
      BY <1>0, <1>9, <3>1, StartDoes
    <3> QED BY <2>2, <3>1, <3>2, FreshThread DEF Served, Serving, Want
  <2> QED BY <2>1, <2>2, <2>3 DEF StepwiseAgreement, Landed
<1> QED BY <1>3, <1>4, <1>5, <1>6, <1>7, <1>8, <1>9 DEF Next, AdminStep

LEMMA AgreeInit == Init => AgreeInv
  BY DEF Init, AgreeInv, StepwiseAgreement, Landed, Idle


-----------------------------------------------------------------------------
(* No job is sent twice. *)

LEMMA NothingWaits ==
    ASSUME NEW s \in Seq(Jobs), \A j \in Jobs : ~InSeq(s, j)
    PROVE  s = <<>>
<1> SUFFICES ASSUME s # <<>> PROVE FALSE
  OBVIOUS
<1> QED BY HeadAndTail

\* What a thread has in hand, in its queue or its channel was handed over to it.
LEMMA HeldFiled ==
    ASSUME BaseInv, NEW p \in Printers, NEW g \in Generations
    PROVE  LET t == thread[p][g] IN
           /\ \A j \in Jobs : InSeq(t.queue, j) \/ InSeq(t.inbox, j) \/ InSeq(qfile[p], j)
                                  => Filed(p, j)
           /\ t.pc \in Busy => t.job \in Jobs /\ Filed(p, t.job)
           /\ t.queue \in Seq(Jobs) /\ t.inbox \in Seq(Jobs) /\ qfile[p] \in Seq(Jobs)
<1>1. TypeOK /\ Placed(p)
  BY DEF BaseInv
<1>2. /\ thread[p][g].pc \in Busy => thread[p][g].job \in Jobs
      /\ thread[p][g].queue \in Seq(Jobs) /\ thread[p][g].inbox \in Seq(Jobs)
      /\ qfile[p] \in Seq(Jobs)
  BY <1>1, ThreadType
<1> QED BY <1>1, <1>2 DEF Placed, Has

\* Steps that leave queues and threads alone: the records they change are those
\* of jobs that are not handed over.
LEMMA WaitingKept ==
    ASSUME BaseInv, Waiting, UNCHANGED <<thread, workers, qfile, sent>>,
           \A k \in Jobs : record'[k] = record[k] \/ hpc[k] \in {"create", "queue"}
    PROVE  Waiting'
<1>0. TypeOK /\ \A k \in Jobs : HandlerShape(k)
  BY DEF BaseInv
<1>1. \A p \in Printers, k \in Jobs : Filed(p, k) => record'[k] = record[k]
  BY DEF Filed
<1>2. OldFinished'
  BY DEF Waiting, OldFinished
<1>3. SentRecorded'
  BY <1>0 DEF Waiting, SentRecorded, HandlerShape
<1>4. ASSUME NEW p \in Printers PROVE WaitingQueued(p)'
  <2>1. WaitingQueued(p)
    BY DEF Waiting
  <2>2. ASSUME NEW j \in Jobs, InSeq(qfile[p], j) PROVE record'[j] = "queued"
    <3>1. Filed(p, j)
      BY <2>2 DEF BaseInv, Placed
    <3> QED BY <1>1, <2>1, <2>2, <3>1 DEF WaitingQueued, ThreadQueued
  <2>3. ASSUME NEW g \in Generations
        PROVE  LET t == thread[p][g] IN
               /\ \A j \in Jobs : InSeq(t.queue, j) \/ InSeq(t.inbox, j) => record'[j] = "queued"
               /\ t.pc \in {"load", "claim"} => record'[t.job] = "queued"
               /\ t.pc = "deliver" => record'[t.job] = "writing"
    <3>1. LET t == thread[p][g] IN
          /\ \A j \in Jobs : InSeq(t.queue, j) \/ InSeq(t.inbox, j) => Filed(p, j)
          /\ t.pc \in Busy => t.job \in Jobs /\ Filed(p, t.job)
      BY HeldFiled
    <3> QED BY <1>1, <2>1, <3>1 DEF WaitingQueued, ThreadQueued, Busy
  <2> QED BY <2>2, <2>3 DEF WaitingQueued, ThreadQueued
<1>5. ASSUME NEW p \in Printers PROVE OnePlace(p)'
  <2>1. OnePlace(p)
    BY DEF Waiting
  <2> QED BY <2>1 DEF OnePlace, ThreadPlace, ToLoad
<1> QED BY <1>2, <1>3, <1>4, <1>5 DEF Waiting

LEMMA OrderlyLookup ==
    ASSUME BaseInv, Orderly, ~straddled', NEW j \in Jobs, Lookup(j)
    PROVE  Orderly'
<1>0. TypeOK /\ HandlerShape(j) /\ Target[j] \in Printers
  BY ConfigsAssumption DEF BaseInv
<1>1. /\ \A k \in Jobs : k # j => hpc'[k] = hpc[k] /\ handle'[k] = handle[k]
      /\ UNCHANGED <<qfile, record, workers, admin, sent, thread>>
  BY <1>0, HandlerFrame DEF Lookup, dataVars
<1>2. Waiting'
  BY <1>1, WaitingKept DEF Orderly
<1>3. \/ hpc'[j] = "done" /\ handle'[j] = handle[j]
      \/ /\ handle'[j] = workers[Target[j]] /\ ~Replacing(Target[j])
         /\ hpc'[j] \in {"lock", "create"}
  BY <1>0 DEF Lookup, HandlerAt, TypeOK
<1>4. AllClosed'
  <2>1. ASSUME NEW a \in Admins, NEW k \in Jobs, Past(a), Target[k] = admin[a].printer
        PROVE  handle'[k] = handle[k]
    BY <1>1, <1>3, <2>1 DEF Replacing, Past
  <2> QED BY <1>1, <2>1 DEF Orderly, AllClosed, Past, Closed
<1>5. HandlesCurrent'
  BY <1>1, <1>3 DEF Orderly, HandlesCurrent
<1> QED BY <1>2, <1>4, <1>5 DEF Orderly

LEMMA OrderlyHandler ==
    ASSUME BaseInv, Orderly, NEW j \in Jobs, HandlerStep(j), ~Enqueue(j)
    PROVE  Orderly'
<1>0. TypeOK /\ HandlerShape(j)
  BY DEF BaseInv
<1>1. /\ \A k \in Jobs : k # j => hpc'[k] = hpc[k] /\ handle'[k] = handle[k]
                                  /\ record'[k] = record[k]
      /\ UNCHANGED <<qfile, workers, admin, sent, thread>>
  BY <1>0, HandlerFrame
<1>2. \/ hpc[j] \in {"create", "lock", "queue"} /\ handle'[j] = handle[j]
      \/ hpc[j] = "reply" /\ hpc'[j] = "done" /\ record' = record
  BY <1>0 DEF HandlerStep, Receive, AcquireLock, Submit, Answer, HandlerAt, TypeOK
<1>3. record'[j] = record[j] \/ hpc[j] \in {"create", "queue"}
  BY DEF HandlerStep, Receive, AcquireLock, Submit, Answer
<1>4. Waiting'
  BY <1>1, <1>3, WaitingKept DEF Orderly
<1>5. AllClosed'
  <2>1. ASSUME NEW a \in Admins, NEW k \in Jobs, Past(a), Target[k] = admin[a].printer
        PROVE  Closed(k)'
    <3>1. Closed(k)
      BY <2>1 DEF Orderly, AllClosed
    <3>2. CASE k # j
      BY <1>1, <3>1, <3>2 DEF Closed
    <3>3. CASE k = j
      <4>1. record' = record /\ hpc[j] = "reply"
        BY <1>0, <1>2, <3>1, <3>3 DEF Closed, HandlerShape
      <4>2. record[j] # "none"
        BY <1>0, <3>1, <3>3, <4>1 DEF Closed, HandlerShape
      <4> QED BY <3>1, <3>3, <4>1, <4>2 DEF Closed
    <3> QED BY <3>2, <3>3
  <2> QED BY <1>1, <2>1 DEF AllClosed, Past
<1>6. HandlesCurrent'
  BY <1>1, <1>2 DEF Orderly, HandlesCurrent
<1> QED BY <1>4, <1>5, <1>6 DEF Orderly

\* A command goes to the worker in the map: the job is nowhere yet.
LEMMA OrderlyEnqueue ==
    ASSUME BaseInv, Orderly, NEW j \in Jobs, Enqueue(j)
    PROVE  Orderly'
<1>0. TypeOK /\ HandlerShape(j)
  BY DEF BaseInv
<1>1. /\ \A k \in Jobs : k # j => hpc'[k] = hpc[k]
      /\ UNCHANGED <<qfile, workers, admin, sent>>
  BY <1>0, HandlerFrame DEF HandlerStep
<1> DEFINE p0 == Target[j]
           g0 == handle[j]
<1>2. /\ p0 \in Printers /\ g0 \in Generations /\ handle' = handle /\ record' = record
      /\ hpc[j] = "enqueue" /\ hpc'[j] = "reply" /\ g0 = workers[p0] /\ record[j] = "queued"
  BY <1>0, EnqueueDoes DEF Orderly, HandlesCurrent, HandlerShape
<1>3. \A p \in Printers, g \in Generations :
          LET t == thread[p][g]
              u == thread'[p][g]
          IN /\ p # p0 \/ g # g0 => u = t
             /\ u.pc = t.pc /\ u.queue = t.queue /\ u.job = t.job
             /\ p = p0 /\ g = g0 => u.inbox = Append(t.inbox, j)
  BY <1>0, EnqueueDoes
<1>4. \A p \in Printers : ~Filed(p, j)
  BY <1>2 DEF Filed
<1> HIDE DEF p0, g0
<1>5. AllClosed'
  BY <1>1, <1>2 DEF Orderly, AllClosed, Past, Closed
<1>6. HandlesCurrent'
  BY <1>1, <1>2 DEF Orderly, HandlesCurrent
<1>7. OldFinished'
  BY <1>1, <1>2, <1>3 DEF Orderly, Waiting, OldFinished
<1>8. SentRecorded'
  BY <1>1, <1>2 DEF Orderly, Waiting, SentRecorded
<1>9. /\ ~InSeq(thread[p0][g0].inbox, j) /\ ~InSeq(thread[p0][g0].queue, j)
      /\ ~InSeq(qfile[p0], j) /\ thread[p0][g0].inbox \in Seq(Jobs)
      /\ thread[p0][g0].pc \in Busy => thread[p0][g0].job # j
  BY <1>2, <1>4, HeldFiled
<1>10. LET s == thread[p0][g0].inbox
           r == thread'[p0][g0].inbox
       IN /\ r = Append(s, j) /\ (\A k : InSeq(r, k) <=> InSeq(s, k) \/ k = j)
          /\ Once(s) => Once(r)
  <2> DEFINE s == thread[p0][g0].inbox
  <2>1. s \in Seq(Jobs) /\ ~InSeq(s, j)
    BY <1>9
  <2>2. thread'[p0][g0].inbox = Append(s, j)
    BY <1>2, <1>3
  <2> HIDE DEF s
  <2>3. /\ \A k : InSeq(Append(s, j), k) <=> InSeq(s, k) \/ k = j
        /\ Once(s) => Once(Append(s, j))
    BY <2>1, AppendedLast
  <2> QED BY <2>2, <2>3 DEF s
<1>11. ASSUME NEW p \in Printers PROVE WaitingQueued(p)'
  <2>1. WaitingQueued(p)
    BY DEF Orderly, Waiting
  <2>2. ASSUME NEW g \in Generations
        PROVE  LET u == thread'[p][g] IN
               /\ \A k \in Jobs : InSeq(u.queue, k) \/ InSeq(u.inbox, k) => record[k] = "queued"
               /\ u.pc \in {"load", "claim"} => record[u.job] = "queued"
               /\ u.pc = "deliver" => record[u.job] = "writing"
    <3>1. CASE p = p0 /\ g = g0
      <4>1. LET t == thread[p0][g0]
                u == thread'[p0][g0]
            IN /\ u.pc = t.pc /\ u.queue = t.queue /\ u.job = t.job
               /\ \A k \in Jobs : InSeq(u.inbox, k) => InSeq(t.inbox, k) \/ k = j
        BY <1>2, <1>3, <1>10
      <4>2. LET t == thread[p0][g0] IN
            /\ \A k \in Jobs : InSeq(t.queue, k) \/ InSeq(t.inbox, k) => record[k] = "queued"
            /\ t.pc \in {"load", "claim"} => record[t.job] = "queued"
            /\ t.pc = "deliver" => record[t.job] = "writing"
        BY <1>2, <2>1, <3>1 DEF WaitingQueued, ThreadQueued
      <4> QED BY <1>2, <3>1, <4>1, <4>2
    <3>2. CASE p # p0 \/ g # g0
      BY <1>3, <2>1, <3>2 DEF WaitingQueued, ThreadQueued
    <3> QED BY <3>1, <3>2
  <2> QED BY <1>1, <1>2, <2>1, <2>2 DEF WaitingQueued, ThreadQueued
<1>12. ASSUME NEW p \in Printers PROVE OnePlace(p)'
  <2>1. OnePlace(p)
    BY DEF Orderly, Waiting
  <2>2. ASSUME NEW g \in Generations
        PROVE  LET u == thread'[p][g]
                   q == IF u.pc = "boot" THEN qfile[p] ELSE u.queue
               IN /\ Once(q) /\ Once(u.inbox)
                  /\ \A k \in Jobs : ~(InSeq(q, k) /\ InSeq(u.inbox, k))
                  /\ u.pc \in {"load", "claim"} => ~InSeq(q, u.job) /\ ~InSeq(u.inbox, u.job)
                  /\ u.pc # "boot" /\ workers[p] = g => qfile[p] = u.queue
    <3>1. CASE p = p0 /\ g = g0
      <4> DEFINE t == thread[p0][g0]
                 u == thread'[p0][g0]
                 q == IF t.pc = "boot" THEN qfile[p0] ELSE t.queue
      <4>1. /\ Once(q) /\ Once(t.inbox)
            /\ \A k \in Jobs : ~(InSeq(q, k) /\ InSeq(t.inbox, k))
            /\ t.pc \in {"load", "claim"} => ~InSeq(q, t.job) /\ ~InSeq(t.inbox, t.job)
            /\ t.pc # "boot" /\ workers[p0] = g0 => qfile[p0] = t.queue
        BY <2>1, <3>1 DEF OnePlace, ThreadPlace, ToLoad
      <4>2. /\ u.pc = t.pc /\ u.queue = t.queue /\ u.job = t.job
            /\ Once(t.inbox) => Once(u.inbox)
            /\ \A k : InSeq(u.inbox, k) <=> InSeq(t.inbox, k) \/ k = j
        BY <1>2, <1>3, <1>10
      <4>3. ~InSeq(q, j) /\ (t.pc \in {"load", "claim"} => t.job # j)
        BY <1>9 DEF Busy
      <4> HIDE DEF t, u
      <4>4. /\ \A k \in Jobs : ~(InSeq(q, k) /\ InSeq(u.inbox, k))
            /\ t.pc \in {"load", "claim"} => ~InSeq(q, t.job) /\ ~InSeq(u.inbox, t.job)
        BY <4>1, <4>2, <4>3
      <4>5. q = IF u.pc = "boot" THEN qfile[p0] ELSE u.queue
        BY <4>2
      <4> HIDE DEF q
      <4>6. /\ Once(q) /\ Once(u.inbox)
            /\ \A k \in Jobs : ~(InSeq(q, k) /\ InSeq(u.inbox, k))
            /\ u.pc \in {"load", "claim"} => ~InSeq(q, u.job) /\ ~InSeq(u.inbox, u.job)
            /\ u.pc # "boot" /\ workers[p0] = g0 => qfile[p0] = u.queue
        BY <4>1, <4>2, <4>4
      <4> QED BY <3>1, <4>5, <4>6 DEF u
    <3>2. CASE p # p0 \/ g # g0
      BY <1>3, <2>1, <3>2 DEF OnePlace, ThreadPlace, ToLoad
    <3> QED BY <3>1, <3>2
  <2> QED BY <1>1, <2>2 DEF OnePlace, ThreadPlace, ToLoad
<1> QED BY <1>5, <1>6, <1>7, <1>8, <1>11, <1>12 DEF Orderly, Waiting

\* Only the worker in the map pops, loads, sends or takes a job over.
LEMMA OldOnlyCharges ==
    ASSUME BaseInv, OldFinished, NEW p \in Printers, NEW g \in Generations, ThreadStep(p, g),
           g # workers[p]
    PROVE  /\ LoadMedia(p, g) \/ SaveMedia(p, g) \/ Exit(p, g) \/ SetQueuePaused(p, g)
           /\ UNCHANGED <<record, sent, qfile>>
<1>0. TypeOK /\ thread[p][g].queue = <<>> /\ thread[p][g].inbox = <<>>
      /\ thread[p][g].pc \in {"none", "loop", "charge", "save"}
  BY DEF BaseInv, OldFinished
<1>1. LoadMedia(p, g) \/ SaveMedia(p, g) \/ Exit(p, g) \/ SetQueuePaused(p, g)
  BY <1>0, LoadQueueDoes, PopDoes, LoadJobDoes, ClaimDoes, AcceptDoes, ReceiveEnqueueDoes
     DEF ThreadStep
<1> QED BY <1>0, <1>1, LoadMediaDoes, SaveMediaDoes, ExitDoes, SetQueuePausedDoes

\* The record a thread changes is not that of a job that waits anywhere.
LEMMA WaitingUntouched ==
    ASSUME BaseInv, Waiting, NEW p \in Printers, NEW g \in Generations, ThreadStep(p, g),
           NEW q \in Printers
    PROVE  /\ \A j \in Jobs : InSeq(qfile[q], j) => record'[j] = "queued"
           /\ \A h \in Generations :
                  LET t == thread[q][h] IN
                  /\ \A j \in Jobs : InSeq(t.queue, j) \/ InSeq(t.inbox, j) => record'[j] = "queued"
                  /\ h # g \/ q # p => ThreadQueued(q, h)'
<1> DEFINE k == thread[p][g].job
<1>0. TypeOK /\ WaitingQueued(q) /\ WaitingQueued(p) /\ OldFinished /\ OnePlace(p)
  BY DEF BaseInv, Waiting
<1>1. ASSUME NEW j \in Jobs, record'[j] # record[j]
      PROVE  /\ j = k /\ Filed(p, j) /\ g = workers[p]
             /\ \/ Claim(p, g) /\ thread[p][g].pc = "claim"
                \/ thread[p][g].pc = "deliver" /\ record[j] = "writing"
  <2>1. j = k /\ \/ Claim(p, g) /\ thread[p][g].pc = "claim"
                 \/ Accept(p, g) /\ thread[p][g].pc = "deliver"
    BY <1>0, <1>1, RecordsOneByOne
  <2>2. Filed(p, j)
    BY <2>1, HeldFiled DEF Busy
  <2>3. g = workers[p]
    BY <1>0, <1>1, OldOnlyCharges
  <2> QED BY <1>0, <2>1, <2>2, <2>3 DEF WaitingQueued, ThreadQueued
<1>2. \A h \in Generations : h # workers[p] =>
          LET t == thread[p][h] IN
          /\ \A j \in Jobs : ~InSeq(t.queue, j) /\ ~InSeq(t.inbox, j)
          /\ t.pc \notin {"boot", "load", "claim", "deliver"}
  BY <1>0, NothingInEmpty DEF OldFinished
<1>3. thread[p][g].pc = "claim" /\ g = workers[p] =>
          ~InSeq(qfile[p], k) /\ ~InSeq(thread[p][g].queue, k) /\ ~InSeq(thread[p][g].inbox, k)
  BY <1>0 DEF OnePlace, ThreadPlace, ToLoad
<1>4. ASSUME NEW j \in Jobs, Filed(q, j), record[j] = "queued", record'[j] # record[j]
      PROVE  /\ q = p /\ g = workers[p] /\ ~InSeq(qfile[p], j)
             /\ \A h \in Generations : /\ ~InSeq(thread[p][h].queue, j)
                                       /\ ~InSeq(thread[p][h].inbox, j)
  <2>1. q = p
    BY <1>1, <1>4 DEF Filed
  <2>2. thread[p][g].pc = "claim" /\ g = workers[p] /\ j = k
    BY <1>1, <1>4
  <2> QED BY <1>2, <1>3, <2>1, <2>2
<1>5. ASSUME NEW j \in Jobs, InSeq(qfile[q], j) PROVE record'[j] = "queued"
  <2>1. Filed(q, j) /\ record[j] = "queued"
    BY <1>0, <1>5 DEF WaitingQueued, BaseInv, Placed
  <2> QED BY <1>4, <1>5, <2>1
<1>6. ASSUME NEW h \in Generations, NEW j \in Jobs,
             InSeq(thread[q][h].queue, j) \/ InSeq(thread[q][h].inbox, j)
      PROVE  record'[j] = "queued"
  <2>1. Filed(q, j) /\ record[j] = "queued"
    BY <1>0, <1>6, HeldFiled DEF WaitingQueued, ThreadQueued
  <2> QED BY <1>4, <1>6, <2>1
<1>7. ASSUME NEW h \in Generations, h # g \/ q # p PROVE ThreadQueued(q, h)'
  <2>1. thread'[q][h] = thread[q][h]
    BY <1>0, <1>7, ThreadFrame
  <2>2. ASSUME thread[q][h].pc \in {"load", "claim", "deliver"}
        PROVE  record'[thread[q][h].job] = record[thread[q][h].job]
    <3>1. thread[q][h].job \in Jobs /\ Filed(q, thread[q][h].job)
      BY <2>2, HeldFiled DEF Busy
    <3>2. q = p => h = workers[p] /\ g # workers[p]
      BY <1>2, <1>7, <2>2
    <3> QED BY <1>1, <3>1, <3>2 DEF Filed
  <2>3. ThreadQueued(q, h)
    BY <1>0 DEF WaitingQueued
  <2> QED BY <1>6, <2>1, <2>2, <2>3 DEF ThreadQueued
<1> QED BY <1>5, <1>6, <1>7

\* What the thread that moves has in its queue and in hand afterwards is Queued.
LEMMA MovedQueued ==
    ASSUME BaseInv, Waiting, NEW p \in Printers, NEW g \in Generations, ThreadStep(p, g)
    PROVE  /\ ThreadQueued(p, g)'
           /\ \A j \in Jobs : InSeq(qfile'[p], j) => record'[j] = "queued"
<1> DEFINE t == thread[p][g]
           u == thread'[p][g]
<1>0. TypeOK /\ WaitingQueued(p) /\ ThreadQueued(p, g)
      /\ t.queue \in Seq(Jobs) /\ t.inbox \in Seq(Jobs)
  BY HeldFiled DEF BaseInv, Waiting, WaitingQueued
<1>1. /\ \A j \in Jobs : InSeq(qfile[p], j) => record'[j] = "queued"
      /\ \A j \in Jobs : InSeq(t.queue, j) \/ InSeq(t.inbox, j) => record'[j] = "queued"
  BY WaitingUntouched
<1>2. CASE LoadQueue(p, g)
  BY <1>0, <1>1, <1>2, LoadQueueDoes DEF ThreadQueued
<1>3. CASE Pop(p, g)
  <2>1. /\ t.pc = "loop" /\ u.pc = "load" /\ u.queue = Tail(t.queue) /\ u.inbox = t.inbox
        /\ u.job = Head(t.queue) /\ qfile'[p] = Tail(t.queue) /\ t.queue # <<>>
    BY <1>0, <1>3, PopDoes
  <2>2. Head(t.queue) \in Jobs /\ InSeq(t.queue, Head(t.queue))
        /\ \A j : InSeq(Tail(t.queue), j) => InSeq(t.queue, j)
    BY <1>0, <2>1, HeadAndTail
  <2> HIDE DEF t
  <2> QED BY <1>1, <2>1, <2>2 DEF ThreadQueued
<1>4. CASE LoadJob(p, g)
  BY <1>0, <1>1, <1>4, LoadJobDoes DEF ThreadQueued
<1>5. CASE Claim(p, g)
  <2>1. /\ u.pc = "deliver" /\ u.queue = t.queue /\ u.inbox = t.inbox /\ u.job = t.job
        /\ t.job \in Jobs /\ record' = [record EXCEPT ![t.job] = "writing"] /\ UNCHANGED qfile
    BY <1>0, <1>5, ClaimDoes
  <2>2. record'[t.job] = "writing"
    BY <1>0, <2>1 DEF TypeOK
  <2> QED BY <1>1, <2>1, <2>2 DEF ThreadQueued
<1>6. CASE Accept(p, g)
  BY <1>0, <1>1, <1>6, AcceptDoes DEF ThreadQueued
<1>7. CASE LoadMedia(p, g)
  BY <1>0, <1>1, <1>7, LoadMediaDoes DEF ThreadQueued
<1>8. CASE SaveMedia(p, g)
  BY <1>0, <1>1, <1>8, SaveMediaDoes DEF ThreadQueued
<1>9. CASE ReceiveEnqueue(p, g)
  <2>1. /\ t.pc = "loop" /\ u.pc = "loop" /\ u.queue = Append(t.queue, Head(t.inbox))
        /\ u.inbox = Tail(t.inbox) /\ qfile'[p] = Append(t.queue, Head(t.inbox))
        /\ t.inbox # <<>>
    BY <1>0, <1>9, ReceiveEnqueueDoes
  <2>2. Head(t.inbox) \in Jobs /\ InSeq(t.inbox, Head(t.inbox))
        /\ \A j : InSeq(Tail(t.inbox), j) => InSeq(t.inbox, j)
    BY <1>0, <2>1, HeadAndTail
  <2>3. \A j : InSeq(Append(t.queue, Head(t.inbox)), j) => InSeq(t.queue, j) \/ InSeq(t.inbox, j)
    BY <1>0, <2>2, AppendedLast
  <2> HIDE DEF t
  <2> QED BY <1>1, <2>1, <2>2, <2>3 DEF ThreadQueued
<1>10. CASE Exit(p, g)
  <2>1. u = Absent /\ UNCHANGED qfile
    BY <1>0, <1>10, ExitDoes
  <2> QED BY <1>1, <2>1, NothingAbsent, NothingInEmpty DEF ThreadQueued
<1>11. CASE SetQueuePaused(p, g)
  BY <1>0, <1>1, <1>11, SetQueuePausedDoes DEF ThreadQueued
<1> QED BY <1>2, <1>3, <1>4, <1>5, <1>6, <1>7, <1>8, <1>9, <1>10, <1>11 DEF ThreadStep

\* The places of the thread that moves; no other thread of its printer is about
\* to load queue.json when it changes.
LEMMA MovedPlace ==
    ASSUME BaseInv, Waiting, NEW p \in Printers, NEW g \in Generations, ThreadStep(p, g)
    PROVE  ThreadPlace(p, g)'
<1> DEFINE t == thread[p][g]
           u == thread'[p][g]
<1>0. /\ TypeOK /\ ThreadPlace(p, g) /\ UNCHANGED workers
      /\ t.queue \in Seq(Jobs) /\ t.inbox \in Seq(Jobs) /\ qfile[p] \in Seq(Jobs)
      /\ t.pc \in Busy => t.job \in Jobs
  <2>1. TypeOK /\ ThreadPlace(p, g)
    BY DEF BaseInv, Waiting, OnePlace
  <2> QED BY <2>1, HeldFiled, ThreadFrame DEF ProcessQuiet
<1>1. CASE LoadQueue(p, g)
  BY <1>0, <1>1, LoadQueueDoes DEF ThreadPlace, ToLoad
<1>2. CASE Pop(p, g)
  <2>1. /\ t.pc = "loop" /\ u.pc = "load" /\ u.queue = Tail(t.queue) /\ u.inbox = t.inbox
        /\ u.job = Head(t.queue) /\ qfile'[p] = Tail(t.queue) /\ t.queue # <<>>
    BY <1>0, <1>2, PopDoes
  <2>2. /\ Once(t.queue) /\ Once(t.inbox)
        /\ \A j \in Jobs : ~(InSeq(t.queue, j) /\ InSeq(t.inbox, j))
    BY <1>0, <2>1 DEF ThreadPlace, ToLoad
  <2>3. /\ Head(t.queue) \in Jobs /\ InSeq(t.queue, Head(t.queue))
        /\ \A j : InSeq(Tail(t.queue), j) => InSeq(t.queue, j)
        /\ Once(Tail(t.queue)) /\ ~InSeq(Tail(t.queue), Head(t.queue))
    BY <1>0, <2>1, <2>2, HeadAndTail
  <2> HIDE DEF t
  <2> QED BY <2>1, <2>2, <2>3 DEF ThreadPlace, ToLoad
<1>3. CASE LoadJob(p, g)
  <2>1. /\ t.pc = "load" /\ u.queue = t.queue /\ u.inbox = t.inbox /\ UNCHANGED qfile
        /\ (u.pc = "claim" /\ u.job = t.job) \/ u.pc = "loop"
    BY <1>0, <1>3, LoadJobDoes
  <2> QED BY <1>0, <2>1 DEF ThreadPlace, ToLoad
<1>4. CASE Claim(p, g)
  BY <1>0, <1>4, ClaimDoes DEF ThreadPlace, ToLoad
<1>5. CASE Accept(p, g)
  BY <1>0, <1>5, AcceptDoes DEF ThreadPlace, ToLoad
<1>6. CASE LoadMedia(p, g)
  BY <1>0, <1>6, LoadMediaDoes DEF ThreadPlace, ToLoad
<1>7. CASE SaveMedia(p, g)
  BY <1>0, <1>7, SaveMediaDoes DEF ThreadPlace, ToLoad
<1>8. CASE ReceiveEnqueue(p, g)
  <2> DEFINE q == Append(t.queue, Head(t.inbox))
  <2>1. /\ t.pc = "loop" /\ u.pc = "loop" /\ u.queue = q
        /\ u.inbox = Tail(t.inbox) /\ qfile'[p] = q /\ t.inbox # <<>>
    BY <1>0, <1>8, ReceiveEnqueueDoes
  <2>2. /\ Once(t.queue) /\ Once(t.inbox)
        /\ \A j \in Jobs : ~(InSeq(t.queue, j) /\ InSeq(t.inbox, j))
    BY <1>0, <2>1 DEF ThreadPlace, ToLoad
  <2>3. /\ Head(t.inbox) \in Jobs /\ InSeq(t.inbox, Head(t.inbox))
        /\ \A j : InSeq(Tail(t.inbox), j) => InSeq(t.inbox, j)
        /\ Once(Tail(t.inbox)) /\ ~InSeq(Tail(t.inbox), Head(t.inbox))
    BY <1>0, <2>1, <2>2, HeadAndTail
  <2>4. Once(q) /\ \A j : InSeq(q, j) <=> InSeq(t.queue, j) \/ j = Head(t.inbox)
    BY <1>0, <2>2, <2>3, AppendedLast
  <2>5. \A j \in Jobs : ~(InSeq(q, j) /\ InSeq(Tail(t.inbox), j))
    BY <2>2, <2>3, <2>4
  <2> HIDE DEF t, q
  <2> QED BY <2>1, <2>3, <2>4, <2>5 DEF ThreadPlace, ToLoad
<1>9. CASE Exit(p, g)
  <2>1. u = Absent /\ workers[p] # g
    BY <1>0, <1>9, ExitDoes DEF Connected
  <2> QED BY <1>0, <2>1, NothingAbsent, NothingInEmpty DEF ThreadPlace, ToLoad
<1>10. CASE SetQueuePaused(p, g)
  BY <1>0, <1>10, SetQueuePausedDoes DEF ThreadPlace, ToLoad
<1> QED BY <1>1, <1>2, <1>3, <1>4, <1>5, <1>6, <1>7, <1>8, <1>9, <1>10 DEF ThreadStep

LEMMA OrderlyThread ==
    ASSUME BaseInv, Orderly, NEW p \in Printers, NEW g \in Generations, ThreadStep(p, g)
    PROVE  Orderly'
<1>0. /\ TypeOK /\ Waiting /\ OldFinished
      /\ \A q \in Printers : WaitingQueued(q) /\ OnePlace(q)
  BY DEF BaseInv, Orderly, Waiting
<1>1. /\ UNCHANGED <<hpc, handle, workers, admin>>
      /\ \A q \in Printers, h \in Generations : q # p \/ h # g => thread'[q][h] = thread[q][h]
      /\ \A q \in Printers : q # p => qfile'[q] = qfile[q]
  BY <1>0, ThreadFrame DEF ProcessQuiet
<1>2. HandlesCurrent'
  BY <1>1 DEF Orderly, HandlesCurrent
<1>3. \A j \in Jobs : \/ record'[j] = record[j] /\ sent'[j] = sent[j]
                      \/ record[j] = "queued" /\ record'[j] = "writing" /\ sent'[j] = sent[j] + 1
                      \/ record[j] = "writing" /\ record'[j] = "accepted" /\ sent'[j] = sent[j]
  BY <1>0, RecordsOneByOne DEF WaitingQueued, ThreadQueued
<1>4. AllClosed'
  BY <1>1, <1>3 DEF Orderly, AllClosed, Past, Closed
<1>5. SentRecorded'
  <2>1. \A j \in Jobs : sent[j] \in Nat
    BY <1>0 DEF TypeOK
  <2> QED BY <1>0, <1>3, <2>1 DEF Waiting, SentRecorded
<1>6. OldFinished'
  <2>1. ASSUME g # workers[p]
        PROVE  LET u == thread'[p][g] IN
               u.queue = <<>> /\ u.inbox = <<>> /\ u.pc \in {"none", "loop", "charge", "save"}
    <3>1. LoadMedia(p, g) \/ SaveMedia(p, g) \/ Exit(p, g) \/ SetQueuePaused(p, g)
      BY <1>0, <2>1, OldOnlyCharges
    <3>2. thread[p][g].queue = <<>> /\ thread[p][g].inbox = <<>>
      BY <1>0, <2>1 DEF OldFinished
    <3> QED BY <1>0, <3>1, <3>2, LoadMediaDoes, SaveMediaDoes, ExitDoes, SetQueuePausedDoes,
               NothingAbsent
  <2> QED BY <1>0, <1>1, <2>1 DEF OldFinished
<1>7. ASSUME NEW q \in Printers PROVE WaitingQueued(q)'
  <2>1. \A h \in Generations : ThreadQueued(q, h)'
    BY <1>0, WaitingUntouched, MovedQueued
  <2>2. \A j \in Jobs : InSeq(qfile'[q], j) => record'[j] = "queued"
    BY <1>0, <1>1, WaitingUntouched, MovedQueued
  <2> QED BY <2>1, <2>2 DEF WaitingQueued
<1>8. ASSUME NEW q \in Printers PROVE OnePlace(q)'
  <2>1. ASSUME NEW h \in Generations, q # p \/ h # g PROVE ThreadPlace(q, h)'
    <3>1. thread'[q][h] = thread[q][h] /\ ThreadPlace(q, h)
      BY <1>0, <1>1, <2>1 DEF OnePlace
    <3>2. CASE qfile'[q] = qfile[q]
      BY <1>1, <3>1, <3>2 DEF ThreadPlace, ToLoad
    <3>3. CASE qfile'[q] # qfile[q]
      <4>1. q = p /\ g = workers[p] /\ h # workers[p]
        BY <1>0, <1>1, <2>1, <3>3, OldOnlyCharges
      <4>2. thread[q][h].pc # "boot"
        BY <1>0, <4>1 DEF OldFinished
      <4> QED BY <1>1, <3>1, <4>1, <4>2 DEF ThreadPlace, ToLoad
    <3> QED BY <3>2, <3>3
  <2> QED BY <1>0, <2>1, MovedPlace DEF OnePlace
<1> QED BY <1>2, <1>4, <1>5, <1>6, <1>7, <1>8 DEF Orderly, Waiting

\* A request that passes the check has seen every job of its printer finished.
LEMMA OrderlyAdmin ==
    ASSUME BaseInv, Orderly, ~straddled', NEW a \in Admins,
           CloneList(a) \/ AdminStep(a), ~ReplaceWorker(a)
    PROVE  Orderly'
<1>0. TypeOK
  BY DEF BaseInv
<1>1. /\ UNCHANGED <<qfile, record, hpc, handle, sent, workers, thread>>
      /\ \A b \in Admins : b # a => admin'[b] = admin[b]
  BY <1>0, AdminFrame DEF handlerVars
<1>2. Waiting'
  BY <1>1, WaitingKept DEF Orderly
<1>3. HandlesCurrent'
  BY <1>1 DEF Orderly, HandlesCurrent
<1>4. ASSUME Past(a)', NEW j \in Jobs, Target[j] = admin'[a].printer PROVE Closed(j)
  <2>1. ~CloneList(a)
    BY <1>0, <1>4, AdminFrame DEF Past
  <2>2. admin[a].pc # "idle" /\ admin'[a].printer = admin[a].printer
    BY <1>0, <1>4, <2>1, AdminFrame DEF Past
  <2>3. CASE CheckOpenJobs(a)
    <3>1. admin[a].pc = "check" /\ admin[a].printer \in Printers
      BY <1>0, <2>2, <2>3, RequestType DEF CheckOpenJobs
    <3>2. admin'[a].pc # "idle"
      BY <1>4 DEF Past
    <3>3. admin' # [admin EXCEPT ![a] = Idle]
      BY <1>0, <3>2 DEF TypeOK, Idle
    <3>4. Unrecorded(admin[a].printer) = {} /\ ~HasOpenJobs(admin[a].printer)
      BY <2>3, <3>3 DEF CheckOpenJobs
    <3>5. record[j] \in {"none", "receiving", "queued", "writing", "accepted", "unknown",
                         "failed"}
      BY <1>0 DEF TypeOK
    <3> QED BY <1>4, <2>2, <3>4, <3>5 DEF Unrecorded, HasOpenJobs, Closed
  <2>4. CASE SaveConfigs(a) \/ SetList(a)
    <3>1. Past(a)
      BY <2>4, AdminGuards DEF Past
    <3> QED BY <1>4, <2>2, <3>1 DEF Orderly, AllClosed
  <2> QED BY <2>1, <2>3, <2>4 DEF AdminStep
<1>5. AllClosed'
  BY <1>1, <1>4 DEF Orderly, AllClosed, Past, Closed
<1> QED BY <1>2, <1>3, <1>5 DEF Orderly

LEMMA OrderlyReplace ==
    ASSUME BaseInv, Orderly, ~straddled', NEW a \in Admins, ReplaceWorker(a)
    PROVE  Orderly'
<1> DEFINE n == born[admin[a].printer] + 1
<1>0. /\ TypeOK /\ Bounded /\ Waiting /\ OldFinished
      /\ \A q \in Printers : WaitingQueued(q) /\ OnePlace(q)
      /\ \A j \in Jobs : HandlerShape(j)
  BY DEF BaseInv, Orderly, Waiting
<1>1. PICK p \in Printers, c \in Configs : p = admin[a].printer /\ c = admin[a].config
  BY <1>0, ReplaceDoes
<1>2. /\ n \in Generations
      /\ \A q \in Printers : q # p => workers'[q] = workers[q]
      /\ \A q \in Printers, g \in Generations : q # p \/ g # n => thread'[q][g] = thread[q][g]
      /\ \/ workers'[p] = n /\ thread'[p][n] = Booted(c)
         \/ workers'[p] = 0 /\ UNCHANGED thread
      /\ ~Unstarted(p)
  BY <1>0, <1>1, ReplaceDoes
<1>3. /\ UNCHANGED <<qfile, record, hpc, handle, sent>>
      /\ \A b \in Admins : b # a => admin'[b] = admin[b]
      /\ admin[a].pc = "swap" /\ admin'[a].pc = "idle"
  BY <1>0, AdminFrame DEF handlerVars, AdminStep, Idle
<1>4. \A j \in Jobs : Target[j] = p => Closed(j)
  BY <1>1, <1>3 DEF Orderly, AllClosed, Past
<1>5. \A j \in Jobs : Target[j] = p => record[j] \notin {"queued", "writing"}
  BY <1>4 DEF Closed
<1> HIDE DEF n
<1>6. AllClosed'
  BY <1>3 DEF Orderly, AllClosed, Past, Closed
<1>7. HandlesCurrent'
  <2>1. ASSUME NEW j \in Jobs, hpc[j] \in {"create", "lock", "queue", "enqueue"}
        PROVE  handle[j] = workers'[Target[j]]
    <3>1. ~Closed(j)
      BY <1>0, <2>1 DEF HandlerShape, Closed
    <3>2. Target[j] \in Printers /\ Target[j] # p
      BY <1>4, <3>1, ConfigsAssumption
    <3> QED BY <1>2, <2>1, <3>2 DEF Orderly, HandlesCurrent
  <2> QED BY <1>3, <2>1 DEF HandlesCurrent
<1>8. \A g \in Generations :
          LET t == thread[p][g] IN
          /\ t.queue = <<>> /\ t.inbox = <<>> /\ qfile[p] = <<>>
          /\ t.pc \in {"none", "loop", "charge", "save"}
  <2> SUFFICES ASSUME NEW g \in Generations
               PROVE  LET t == thread[p][g] IN
                      /\ t.queue = <<>> /\ t.inbox = <<>> /\ qfile[p] = <<>>
                      /\ t.pc \in {"none", "loop", "charge", "save"}
    OBVIOUS
  <2>1. LET t == thread[p][g] IN
        /\ \A j \in Jobs : InSeq(t.queue, j) \/ InSeq(t.inbox, j) \/ InSeq(qfile[p], j)
                               => Filed(p, j)
        /\ t.pc \in Busy => t.job \in Jobs /\ Filed(p, t.job)
        /\ t.queue \in Seq(Jobs) /\ t.inbox \in Seq(Jobs) /\ qfile[p] \in Seq(Jobs)
    BY HeldFiled
  <2>2. LET t == thread[p][g] IN
        \A j \in Jobs : ~InSeq(t.queue, j) /\ ~InSeq(t.inbox, j) /\ ~InSeq(qfile[p], j)
    BY <1>0, <1>5, <2>1 DEF WaitingQueued, ThreadQueued, Filed
  <2>3. thread[p][g].queue = <<>> /\ thread[p][g].inbox = <<>> /\ qfile[p] = <<>>
    BY <2>1, <2>2, NothingWaits
  <2>4. thread[p][g].pc \notin {"load", "claim", "deliver"}
    BY <1>0, <1>5, <2>1 DEF WaitingQueued, ThreadQueued, Filed, Busy
  <2>5. thread[p][g].pc # "boot"
    <3>1. g # 0
      BY BudgetAssumption DEF Generations
    <3> QED BY <1>0, <1>2, <3>1 DEF OldFinished, Unstarted
  <2>6. thread[p][g].pc \in {"none", "boot", "loop"} \cup Busy
    BY <1>0, ThreadType
  <2> QED BY <2>3, <2>4, <2>5, <2>6 DEF Busy
<1>9. Booted(c).pc = "boot" /\ Booted(c).queue = <<>> /\ Booted(c).inbox = <<>>
  BY FreshThread
<1>10. OldFinished'
  <2>1. ASSUME NEW q \in Printers, NEW g \in Generations, g # workers'[q]
        PROVE  LET u == thread'[q][g] IN
               u.queue = <<>> /\ u.inbox = <<>> /\ u.pc \in {"none", "loop", "charge", "save"}
    <3>1. thread'[q][g] = thread[q][g]
      BY <1>2, <2>1
    <3>2. q = p \/ g # workers[q]
      BY <1>2, <2>1
    <3> QED BY <1>0, <1>8, <3>1, <3>2 DEF OldFinished
  <2> QED BY <2>1 DEF OldFinished
<1>11. SentRecorded'
  BY <1>3 DEF Orderly, Waiting, SentRecorded
<1>12. ASSUME NEW q \in Printers, NEW g \in Generations
       PROVE  ThreadQueued(q, g)' /\ ThreadPlace(q, g)'
  <2>1. ThreadQueued(q, g) /\ ThreadPlace(q, g)
    BY <1>0 DEF WaitingQueued, OnePlace
  <2>2. CASE q # p
    BY <1>2, <1>3, <2>1, <2>2 DEF ThreadQueued, ThreadPlace, ToLoad
  <2>3. CASE q = p /\ thread'[q][g] = thread[q][g]
    <3>1. /\ thread[q][g].queue = <<>> /\ thread[q][g].inbox = <<>> /\ qfile[q] = <<>>
          /\ thread[q][g].pc \in {"none", "loop", "charge", "save"}
      BY <1>8, <2>3
    <3> QED BY <1>3, <2>3, <3>1, NothingInEmpty DEF ThreadQueued, ThreadPlace, ToLoad
  <2>4. CASE q = p /\ thread'[q][g] = Booted(c)
    <3>1. qfile[q] = <<>>
      BY <1>8, <2>4
    <3> QED BY <1>3, <1>9, <2>4, <3>1, NothingInEmpty DEF ThreadQueued, ThreadPlace, ToLoad
  <2> QED BY <1>2, <2>2, <2>3, <2>4
<1>13. \A q \in Printers : WaitingQueued(q)' /\ OnePlace(q)'
  BY <1>0, <1>3, <1>12 DEF WaitingQueued, OnePlace
<1> QED BY <1>6, <1>7, <1>10, <1>11, <1>13 DEF Orderly, Waiting

LEMMA OrderlyCrash ==
    ASSUME BaseInv, Orderly, Crash
    PROVE  Orderly'
<1>0. TypeOK /\ SentRecorded /\ \A q \in Printers : WaitingQueued(q)
  BY DEF BaseInv, Orderly, Waiting
<1>1. /\ UNCHANGED <<qfile, record, sent>>
      /\ \A p \in Printers, g \in Generations : thread'[p][g] = Absent /\ workers'[p] # g
      /\ \A j \in Jobs : hpc'[j] \in {"new", "done"}
      /\ \A a \in Admins : admin'[a].pc = "idle"
  <2>1. \A g \in Generations : g # 0
    BY BudgetAssumption DEF Generations
  <2> QED BY <1>0, <2>1, CrashDoes DEF dataVars, seenVars, Idle
<1>2. AllClosed' /\ HandlesCurrent' /\ OldFinished'
  BY <1>1, NothingAbsent DEF AllClosed, Past, HandlesCurrent, OldFinished
<1>3. SentRecorded'
  BY <1>0, <1>1 DEF SentRecorded
<1>4. ASSUME NEW p \in Printers, NEW g \in Generations
      PROVE  ThreadQueued(p, g)' /\ ThreadPlace(p, g)'
  BY <1>1, NothingAbsent, NothingInEmpty DEF ThreadQueued, ThreadPlace, ToLoad
<1>5. \A q \in Printers : WaitingQueued(q)' /\ OnePlace(q)'
  BY <1>0, <1>1, <1>4 DEF WaitingQueued, OnePlace
<1> QED BY <1>2, <1>3, <1>5 DEF Orderly, Waiting

\* recover_jobs leaves Queued jobs alone; each is in the queue of its printer once.
LEMMA OrderlyStart ==
    ASSUME BaseInv, Orderly, Start
    PROVE  Orderly'
<1>0. TypeOK /\ AtRest /\ SentRecorded /\ \A q \in Printers : WaitingQueued(q)
  BY DEF BaseInv, Orderly, Waiting
<1>1. /\ UNCHANGED <<hpc, handle, admin, sent>> /\ ~up
      /\ \A j \in Jobs : /\ record[j] = "queued" => record'[j] = "queued"
                         /\ record[j] = "writing" => record'[j] = "unknown"
                         /\ record[j] \in {"accepted", "unknown"} => record'[j] = record[j]
  BY <1>0, StartDoes DEF handlerVars, seenVars
<1>2. /\ \A j \in Jobs : hpc'[j] \in {"new", "done"}
      /\ \A a \in Admins : admin'[a].pc = "idle"
  BY <1>0, <1>1 DEF AtRest
<1>3. AllClosed' /\ HandlesCurrent'
  BY <1>2 DEF AllClosed, Past, HandlesCurrent
<1>4. SentRecorded'
  BY <1>0, <1>1 DEF SentRecorded
<1>5. ASSUME NEW p \in Printers, NEW g \in Generations
      PROVE  \/ thread'[p][g] = Absent /\ (workers'[p] = g => FALSE)
             \/ /\ file[p] \in Configs /\ thread'[p][g] = Booted(file[p]) /\ workers'[p] = g
                /\ qfile'[p] \in SetToSeqs(QueuedFor(p))
  <2>1. g # 0
    BY BudgetAssumption DEF Generations
  <2> QED BY <1>0, <2>1, StartDoes, ConfigsAssumption, IdsAssumption
<1>6. OldFinished'
  BY <1>5, NothingAbsent DEF OldFinished
<1>7. ASSUME NEW p \in Printers, NEW j \in Jobs, InSeq(qfile'[p], j)
      PROVE  record'[j] = "queued"
  <2>1. CASE file[p] = None
    <3>1. qfile'[p] = qfile[p]
      BY <1>0, <2>1, StartDoes
    <3> QED BY <1>0, <1>1, <1>7, <3>1 DEF WaitingQueued
  <2>2. CASE file[p] # None
    <3>1. qfile'[p] \in SetToSeqs(QueuedFor(p)) /\ QueuedFor(p) \in SUBSET Jobs
      BY <1>0, <2>2, StartDoes DEF QueuedFor
    <3>2. j \in QueuedFor(p)
      BY <1>7, <3>1, AnyOrder
    <3> QED BY <1>1, <3>2 DEF QueuedFor
  <2> QED BY <2>1, <2>2
<1>8. ASSUME NEW p \in Printers, NEW g \in Generations
      PROVE  ThreadQueued(p, g)' /\ ThreadPlace(p, g)'
  <2>1. CASE thread'[p][g] = Absent /\ ~(workers'[p] = g)
    BY <2>1, NothingAbsent, NothingInEmpty DEF ThreadQueued, ThreadPlace, ToLoad
  <2>2. CASE /\ file[p] \in Configs /\ thread'[p][g] = Booted(file[p])
             /\ qfile'[p] \in SetToSeqs(QueuedFor(p))
    <3>1. QueuedFor(p) \in SUBSET Jobs
      BY DEF QueuedFor
    <3>2. Once(qfile'[p])
      BY <2>2, <3>1, AnyOrder
    <3>3. /\ thread'[p][g].pc = "boot" /\ thread'[p][g].queue = <<>>
          /\ thread'[p][g].inbox = <<>>
      BY <2>2, FreshThread
    <3> QED BY <3>2, <3>3, NothingInEmpty DEF ThreadQueued, ThreadPlace, ToLoad
  <2> QED BY <1>5, <2>1, <2>2
<1>9. \A q \in Printers : WaitingQueued(q)' /\ OnePlace(q)'
  BY <1>7, <1>8 DEF WaitingQueued, OnePlace
<1> QED BY <1>3, <1>4, <1>6, <1>9 DEF Orderly, Waiting

LEMMA OnceStep ==
    ASSUME BaseInv, OnceInv, [Next]_vars
    PROVE  OnceInv'
<1> SUFFICES ASSUME ~straddled' PROVE Orderly'
  BY DEF OnceInv
<1>1. Orderly
  BY Observed DEF OnceInv, BaseInv
<1>2. CASE UNCHANGED vars
  <2>1. UNCHANGED <<thread, workers, qfile, sent, record, hpc, handle, admin>>
    BY <1>2 DEF vars, dataVars, handlerVars, seenVars
  <2>2. Waiting'
    BY <1>1, <2>1, WaitingKept DEF Orderly
  <2> QED BY <1>1, <2>1, <2>2 DEF Orderly, AllClosed, Past, Closed, HandlesCurrent
<1> QED BY <1>1, <1>2, OrderlyLookup, OrderlyHandler, OrderlyEnqueue, OrderlyThread,
           OrderlyAdmin, OrderlyReplace, OrderlyCrash, OrderlyStart DEF Next

LEMMA OnceInit == Init => OnceInv
<1> SUFFICES ASSUME Init PROVE Orderly
  BY DEF OnceInv
<1>1. /\ \A p \in Printers, g \in Generations : thread[p][g] = Absent /\ workers[p] # g
      /\ \A p \in Printers : qfile[p] = <<>>
      /\ \A j \in Jobs : hpc[j] = "new" /\ sent[j] = 0
      /\ \A a \in Admins : admin[a].pc = "idle"
  <2>1. \A g \in Generations : g # 0
    BY BudgetAssumption DEF Generations
  <2> QED BY <2>1 DEF Init, Idle
<1>2. AllClosed /\ HandlesCurrent /\ SentRecorded /\ OldFinished
  BY <1>1, NothingAbsent DEF AllClosed, Past, HandlesCurrent, SentRecorded, OldFinished
<1>3. ASSUME NEW p \in Printers, NEW g \in Generations
      PROVE  ThreadQueued(p, g) /\ ThreadPlace(p, g)
  BY <1>1, NothingAbsent, NothingInEmpty DEF ThreadQueued, ThreadPlace, ToLoad
<1>4. \A p \in Printers : WaitingQueued(p) /\ OnePlace(p)
  BY <1>1, <1>3, NothingInEmpty DEF WaitingQueued, OnePlace
<1> QED BY <1>2, <1>4 DEF Orderly, Waiting


-----------------------------------------------------------------------------
(* No job is forgotten. *)

HeldBy(p, g, j) == \/ Has(thread[p][g], j)
                   \/ thread[p][g].pc = "boot" /\ InSeq(qfile[p], j)

LEMMA HeldMeans ==
    ASSUME NEW j \in Jobs
    PROVE  Held(j) <=> \E g \in Generations : HeldBy(Target[j], g, j)
  BY DEF Held, HeldBy, Has, InSeq

\* A Queued job that a thread has stays with it until it is sent, or until the
\* thread ends because it is paused.
LEMMA KeptInHand ==
    ASSUME BaseInv, NEW p \in Printers, NEW g \in Generations, ThreadStep(p, g), NEW j \in Jobs,
           Has(thread[p][g], j), record'[j] = "queued"
    PROVE  \/ Has(thread'[p][g], j)
           \/ Exit(p, g) /\ j \in left' /\ InSeq(thread[p][g].queue, j)
<1> DEFINE t == thread[p][g]
           u == thread'[p][g]
<1>0. /\ TypeOK /\ Placed(p) /\ ThreadShape(p, g)
      /\ t.queue \in Seq(Jobs) /\ t.inbox \in Seq(Jobs)
      /\ t.pc \notin Busy => t.job # j
  <2>1. TypeOK /\ Placed(p) /\ ThreadShape(p, g)
    BY DEF BaseInv
  <2> QED BY <2>1, ThreadType
<1>1. record[j] = "queued"
  BY <1>0, RecordsOneByOne
<1>2. CASE LoadQueue(p, g)
  <2>1. t.pc = "boot" /\ t.queue = <<>> /\ u.inbox = t.inbox
    BY <1>0, <1>2, LoadQueueDoes DEF ThreadShape
  <2> QED BY <1>0, <2>1, NothingInEmpty DEF Has, Busy
<1>3. CASE Pop(p, g)
  <2>1. /\ t.pc = "loop" /\ t.queue # <<>> /\ u.queue = Tail(t.queue) /\ u.inbox = t.inbox
        /\ u.job = Head(t.queue)
    BY <1>0, <1>3, PopDoes
  <2>2. \A k : InSeq(t.queue, k) => k = Head(t.queue) \/ InSeq(Tail(t.queue), k)
    BY <1>0, <2>1, HeadAndTail
  <2> QED BY <1>0, <2>1, <2>2 DEF Has, Busy
<1>4. CASE LoadJob(p, g)
  BY <1>0, <1>1, <1>4, LoadJobDoes DEF Has
<1>5. CASE Claim(p, g)
  BY <1>0, <1>5, ClaimDoes DEF Has
<1>6. CASE Accept(p, g)
  BY <1>0, <1>6, AcceptDoes DEF Has
<1>7. CASE LoadMedia(p, g)
  BY <1>0, <1>7, LoadMediaDoes DEF Has
<1>8. CASE SaveMedia(p, g)
  <2>1. t.pc = "save" /\ u.queue = t.queue /\ u.inbox = t.inbox
    BY <1>0, <1>8, SaveMediaDoes
  <2>2. t.job # j
    BY <1>0, <1>1, <2>1 DEF Placed
  <2> QED BY <2>1, <2>2 DEF Has
<1>9. CASE ReceiveEnqueue(p, g)
  <2>1. /\ t.pc = "loop" /\ t.inbox # <<>> /\ u.queue = Append(t.queue, Head(t.inbox))
        /\ u.inbox = Tail(t.inbox)
    BY <1>0, <1>9, ReceiveEnqueueDoes
  <2>2. /\ Head(t.inbox) \in Jobs
        /\ \A k : InSeq(t.inbox, k) => k = Head(t.inbox) \/ InSeq(Tail(t.inbox), k)
    BY <1>0, <2>1, HeadAndTail
  <2>3. \A k : InSeq(u.queue, k) <=> InSeq(t.queue, k) \/ k = Head(t.inbox)
    BY <1>0, <2>1, <2>2, AppendedLast
  <2> QED BY <1>0, <2>1, <2>2, <2>3 DEF Has, Busy
<1>10. CASE Exit(p, g)
  <2>1. t.pc = "loop" /\ t.inbox = <<>> /\ (InSeq(t.queue, j) => j \in left')
    BY <1>0, <1>10, ExitDoes
  <2> QED BY <1>0, <1>10, <2>1, NothingInEmpty DEF Has, Busy
<1>11. CASE SetQueuePaused(p, g)
  BY <1>0, <1>11, SetQueuePausedDoes DEF Has
<1> QED BY <1>2, <1>3, <1>4, <1>5, <1>6, <1>7, <1>8, <1>9, <1>10, <1>11 DEF ThreadStep

\* A submission that records a job as Queued goes on to hand it over.
LEMMA HandedOver ==
    ASSUME BaseInv, NEW k \in Jobs, Lookup(k) \/ HandlerStep(k), NEW j \in Jobs,
           record'[j] = "queued"
    PROVE  /\ UNCHANGED <<qfile, up>>
           /\ \A p \in Printers, g \in Generations :
                  /\ Has(thread[p][g], j) => Has(thread'[p][g], j)
                  /\ thread'[p][g].pc = thread[p][g].pc
           /\ \/ hpc'[j] = "enqueue"
              \/ \E g \in Generations : Has(thread'[Target[j]][g], j)
              \/ record[j] = "queued" /\ hpc[j] # "enqueue"
<1>0. TypeOK /\ HandlerShape(k) /\ HandlerShape(j)
  BY DEF BaseInv
<1>1. /\ UNCHANGED <<qfile, up>>
      /\ \A i \in Jobs : i # k => hpc'[i] = hpc[i] /\ record'[i] = record[i]
      /\ Enqueue(k) \/ UNCHANGED thread
  BY <1>0, HandlerFrame
<1>2. CASE Enqueue(k)
  <2>1. /\ Target[k] \in Printers /\ handle[k] \in Generations /\ record' = record
        /\ hpc[k] = "enqueue"
        /\ \A p \in Printers, g \in Generations :
               LET t == thread[p][g]
                   u == thread'[p][g]
               IN /\ p # Target[k] \/ g # handle[k] => u = t
                  /\ u.pc = t.pc /\ u.queue = t.queue /\ u.job = t.job
                  /\ p = Target[k] /\ g = handle[k] => u.inbox = Append(t.inbox, k)
    BY <1>0, <1>2, EnqueueDoes
  <2>2. ASSUME NEW p \in Printers, NEW g \in Generations
        PROVE  /\ Has(thread[p][g], j) => Has(thread'[p][g], j)
               /\ thread'[p][g].pc = thread[p][g].pc
               /\ p = Target[k] /\ g = handle[k] => Has(thread'[p][g], k)
    <3>1. CASE p = Target[k] /\ g = handle[k]
      <4>1. thread[p][g].inbox \in Seq(Jobs)
        BY <1>0, ThreadType
      <4>2. \A i : InSeq(Append(thread[p][g].inbox, k), i) <=> InSeq(thread[p][g].inbox, i) \/ i = k
        BY <4>1, AppendedLast
      <4> QED BY <2>1, <3>1, <4>2 DEF Has
    <3>2. CASE ~(p = Target[k] /\ g = handle[k])
      BY <2>1, <3>2
    <3> QED BY <3>1, <3>2
  <2> QED BY <1>1, <2>1, <2>2
<1>3. CASE ~Enqueue(k)
  <2>1. k = j => \/ hpc'[j] = "enqueue"
                 \/ record' = record /\ hpc[j] # "enqueue"
    <3>1. Receive(j) => record'[j] # "queued"
      BY <1>0 DEF Receive, TypeOK
    <3>2. Submit(j) => hpc'[j] = "enqueue"
      BY <1>0 DEF Submit, HandlerAt, TypeOK
    <3>3. Lookup(j) => record' = record /\ hpc[j] = "new"
      BY DEF Lookup, dataVars
    <3>4. AcquireLock(j) \/ Answer(j) => record' = record /\ hpc[j] \in {"lock", "reply"}
      BY DEF AcquireLock, Answer
    <3> QED BY <1>3, <3>1, <3>2, <3>3, <3>4 DEF HandlerStep
  <2> QED BY <1>1, <1>3, <2>1
<1> QED BY <1>2, <1>3

\* A worker that is started takes the place of no other thread.
LEMMA ReplaceKeeps ==
    ASSUME BaseInv, NEW a \in Admins, ReplaceWorker(a), NEW p \in Printers, NEW g \in Generations,
           NEW j \in Jobs, Has(thread[p][g], j)
    PROVE  Has(thread'[p][g], j)
<1>1. TypeOK /\ Bounded /\ ThreadShape(p, g)
  BY DEF BaseInv
<1>2. p # admin[a].printer \/ g # born[p] + 1 => thread'[p][g] = thread[p][g]
  BY <1>1, ReplaceDoes
<1>3. CASE p = admin[a].printer /\ g = born[p] + 1
  <2>1. born[p] \in Nat
    BY <1>1, <1>3, ReplaceDoes
  <2>2. g > born[p]
    BY <1>3, <2>1
  <2> QED BY <1>1, <2>2, NothingAbsent DEF ThreadShape
<1> QED BY <1>2, <1>3

LEMMA UntilCrashStep ==
    ASSUME BaseInv, UntilCrash, [Next]_vars
    PROVE  UntilCrash'
<1>0. TypeOK /\ Bounded /\ AtRest /\ budget.crash \in Nat /\ Budget.crash \in Nat
  BY BudgetAssumption DEF BaseInv, TypeOK
<1> SUFFICES ASSUME budget'.crash = Budget.crash, NEW j \in Jobs
             PROVE  IF up' THEN record'[j] = "queued" => InHands(j)'
                           ELSE record'[j] = "none"
  BY DEF UntilCrash
<1>1. budget.crash = Budget.crash
  <2>1. budget'.crash <= budget.crash /\ budget.crash <= Budget.crash
    BY <1>0, Observed DEF Bounded
  <2> QED BY <1>0, <2>1
<1>2. ~Crash
  <2> SUFFICES ASSUME Crash PROVE FALSE
    OBVIOUS
  <2>1. budget'["crash"] = budget["crash"] - 1
    BY <1>0, CrashDoes, SpendDoes
  <2> QED BY <1>0, <1>1, <2>1
<1>3. Target[j] \in Printers
  BY ConfigsAssumption
<1>4. CASE ~up
  <2>1. record[j] = "none"
    BY <1>1, <1>4 DEF UntilCrash
  <2>2. CASE Start
    BY <1>0, <2>1, <2>2, StartDoes
  <2>3. CASE UNCHANGED vars
    BY <1>4, <2>1, <2>3 DEF vars, dataVars
  <2> QED BY <1>0, <1>4, <2>2, <2>3, DownUntilStart
<1>5. CASE up
  <2>0. record[j] = "queued" => InHands(j)
    BY <1>1, <1>5 DEF UntilCrash
  <2>8. j \in left => j \in left'
    BY <1>0, Observed
  <2>1. CASE UNCHANGED <<up, record, hpc, thread>>
    BY <1>5, <2>0, <2>1, <2>8 DEF InHands
  <2>2. ASSUME NEW k \in Jobs, Lookup(k) \/ HandlerStep(k)
        PROVE  up' /\ (record'[j] = "queued" => InHands(j)')
    <3>1. up'
      BY <1>0, <1>5, <2>2, HandlerFrame
    <3>2. ASSUME record'[j] = "queued" PROVE InHands(j)'
      BY <1>3, <2>0, <2>2, <2>8, <3>2, HandedOver DEF InHands
    <3> QED BY <3>1, <3>2
  <2>3. ASSUME NEW p \in Printers, NEW g \in Generations, ThreadStep(p, g)
        PROVE  up' /\ (record'[j] = "queued" => InHands(j)')
    <3>1. /\ up' /\ UNCHANGED hpc
          /\ \A q \in Printers, h \in Generations : q # p \/ h # g => thread'[q][h] = thread[q][h]
      BY <1>0, <1>5, <2>3, ThreadFrame DEF ProcessQuiet
    <3>2. ASSUME record'[j] = "queued" PROVE InHands(j)'
      <4>1. record[j] = "queued"
        BY <1>0, <2>3, <3>2, RecordsOneByOne
      <4>2. Has(thread[p][g], j) => Has(thread'[p][g], j) \/ j \in left'
        BY <2>3, <3>2, KeptInHand
      <4> QED BY <1>3, <2>0, <2>8, <3>1, <4>1, <4>2 DEF InHands
    <3> QED BY <3>1, <3>2
  <2>4. ASSUME NEW a \in Admins, ReplaceWorker(a)
        PROVE  up' /\ (record'[j] = "queued" => InHands(j)')
    <3>1. UNCHANGED <<up, record, hpc>>
      BY <1>0, <2>4, AdminFrame DEF AdminStep, handlerVars
    <3>2. \A g \in Generations : Has(thread[Target[j]][g], j) => Has(thread'[Target[j]][g], j)
      BY <1>3, <2>4, ReplaceKeeps
    <3> QED BY <1>5, <2>0, <2>8, <3>1, <3>2 DEF InHands
  <2>5. ASSUME NEW a \in Admins, CloneList(a) \/ AdminStep(a), ~ReplaceWorker(a)
        PROVE  UNCHANGED <<up, record, hpc, thread>>
    BY <1>0, <2>5, AdminFrame DEF handlerVars
  <2>6. UNCHANGED vars => UNCHANGED <<up, record, hpc, thread>>
    BY DEF vars, dataVars, handlerVars
  <2>7. ~Start
    BY <1>5 DEF Start
  <2> QED BY <1>2, <2>1, <2>2, <2>3, <2>4, <2>5, <2>6, <2>7 DEF Next
<1> QED BY <1>4, <1>5

\* In a run without the races only the worker in the map has Queued jobs, and the
\* printer it serves is enabled in the file.
LEMMA QueuedIsEnabled ==
    ASSUME BaseInv, Orderly, StepwiseAgreement, up, NEW j \in Jobs, record[j] = "queued",
           hpc[j] = "enqueue" \/ Held(j)
    PROVE  file[Target[j]] \in Enabled
<1> DEFINE p == Target[j]
<1>0. /\ TypeOK /\ HandlerShape(j) /\ p \in Printers /\ OldFinished /\ Placed(p)
      /\ \A g \in Generations : ThreadShape(p, g)
      /\ workers[p] \in Generations \cup {0}
  BY ConfigsAssumption DEF BaseInv, Orderly, Waiting, TypeOK
<1>1. workers[p] # 0
  <2>1. CASE hpc[j] = "enqueue"
    BY <1>0, <2>1 DEF HandlerShape, Orderly, HandlesCurrent
  <2>2. ASSUME NEW g \in Generations, HeldBy(p, g, j) PROVE g = workers[p]
    <3>1. SUFFICES ASSUME g # workers[p] PROVE FALSE
      OBVIOUS
    <3>2. LET t == thread[p][g] IN
          /\ t.queue = <<>> /\ t.inbox = <<>> /\ t.pc \in {"none", "loop", "charge", "save"}
      BY <1>0, <3>1 DEF OldFinished
    <3>3. j = thread[p][g].job
      BY <2>2, <3>2, NothingInEmpty DEF HeldBy, Has
    <3>4. thread[p][g].pc \in {"charge", "save"}
      BY <1>0, <3>2, <3>3, ThreadType DEF Busy
    <3> QED BY <1>0, <3>3, <3>4 DEF Placed
  <2>3. \A g \in Generations : g # 0
    BY BudgetAssumption DEF Generations
  <2> QED BY <2>1, <2>2, <2>3, HeldMeans
<1>2. Serving(p) \in Enabled
  BY <1>0, <1>1 DEF Serving, ThreadShape, Connected
<1>3. Served(p) => memory[p] \in Enabled
  BY <1>2, ConfigsAssumption, IdsAssumption DEF Served, Want
<1>4. ASSUME NEW a \in Admins, Landed(a) PROVE admin[a].printer \in Printers \ {p}
  <2>1. Past(a) /\ ~Closed(j)
    BY <1>0, <1>4 DEF Landed, Past, Closed
  <2> QED BY <1>0, <1>4, <2>1, RequestType DEF Landed, Orderly, AllClosed
<1>5. memory \in [Printers -> Configs \cup {None}]
  BY <1>0 DEF TypeOK
<1>6. CASE \A a \in Admins : ~Landed(a)
  BY <1>0, <1>3, <1>6 DEF StepwiseAgreement
<1>7. ASSUME NEW a \in Admins, Landed(a) PROVE file[p] \in Enabled
  <2>1. CASE admin[a].pc = "memory"
    <3>1. file = [memory EXCEPT ![admin[a].printer] = admin[a].config] /\ Served(p)
      BY <1>0, <2>1 DEF StepwiseAgreement
    <3> QED BY <1>0, <1>3, <1>4, <1>5, <1>7, <3>1
  <2>2. CASE admin[a].pc = "swap"
    <3>1. p \in Printers \ {admin[a].printer}
      BY <1>0, <1>4, <1>7
    <3>2. file = memory /\ Served(p)
      BY <2>2, <3>1 DEF StepwiseAgreement
    <3> QED BY <1>3, <3>2
  <2> QED BY <1>7, <2>1, <2>2 DEF Landed
<1> QED BY <1>6, <1>7

LEMMA AfterCrashStep ==
    ASSUME BaseInv, OnceInv, AgreeInv, AfterCrash, [Next]_vars
    PROVE  AfterCrash'
<1> SUFFICES ASSUME ~straddled', ~overlapped', Writable', NEW j \in Jobs, record'[j] = "queued"
             PROVE  IF up' THEN hpc'[j] = "enqueue" \/ Held(j)' ELSE file'[Target[j]] \in Enabled
  BY DEF AfterCrash
<1> DEFINE p0 == Target[j]
<1>0. TypeOK /\ Bounded /\ AtRest /\ p0 \in Printers
  BY ConfigsAssumption DEF BaseInv
<1>1. ~straddled /\ ~overlapped /\ Writable
  <2>1. budget.fault \in Nat /\ Budget.fault \in Nat /\ budget.fault <= Budget.fault
        /\ budget'.fault <= budget.fault
    BY <1>0, Observed, BudgetAssumption DEF TypeOK, Bounded
  <2> QED BY <1>0, <2>1, Observed DEF Writable
<1>2. Orderly /\ StepwiseAgreement
  BY <1>1 DEF OnceInv, AgreeInv
<1>3. record[j] = "queued" =>
          IF up THEN hpc[j] = "enqueue" \/ \E g \in Generations : HeldBy(p0, g, j)
                ELSE file[p0] \in Enabled
  BY <1>1, HeldMeans DEF AfterCrash
<1>4. (\E g \in Generations : HeldBy(p0, g, j)') => Held(j)'
  BY DEF Held, HeldBy, Has, InSeq
<1>5. ASSUME up, NEW k \in Jobs, Lookup(k) \/ HandlerStep(k)
      PROVE  up' /\ (hpc'[j] = "enqueue" \/ Held(j)')
  <2>1. /\ UNCHANGED <<qfile, up>>
        /\ \A g \in Generations : /\ Has(thread[p0][g], j) => Has(thread'[p0][g], j)
                                  /\ thread'[p0][g].pc = thread[p0][g].pc
        /\ \/ hpc'[j] = "enqueue"
           \/ \E g \in Generations : Has(thread'[p0][g], j)
           \/ record[j] = "queued" /\ hpc[j] # "enqueue"
    BY <1>0, <1>5, HandedOver
  <2> QED BY <1>3, <1>4, <1>5, <2>1 DEF HeldBy
<1>6. ASSUME up, NEW p \in Printers, NEW g \in Generations, ThreadStep(p, g)
      PROVE  up' /\ (hpc'[j] = "enqueue" \/ Held(j)')
  <2>1. /\ up' /\ UNCHANGED hpc
        /\ \A q \in Printers, h \in Generations : q # p \/ h # g => thread'[q][h] = thread[q][h]
        /\ \A q \in Printers : q # p => qfile'[q] = qfile[q]
    BY <1>0, <1>6, ThreadFrame DEF ProcessQuiet
  <2>2. record[j] = "queued"
    BY <1>0, <1>6, RecordsOneByOne
  <2>3. ASSUME NEW h \in Generations, HeldBy(p0, h, j) PROVE HeldBy(p0, h, j)'
    <3>1. CASE Has(thread[p0][h], j)
      <4>1. CASE p0 = p /\ h = g
        <5>1. ~(Exit(p, g) /\ InSeq(thread[p][g].queue, j))
          <6> SUFFICES ASSUME Exit(p, g) PROVE ~InSeq(thread[p][g].queue, j)
            OBVIOUS
          <6>1. g # workers[p]
            BY <1>0, ExitDoes DEF Connected
          <6>2. thread[p][g].queue = <<>>
            BY <1>2, <6>1 DEF Orderly, Waiting, OldFinished
          <6> QED BY <6>2, NothingInEmpty
        <5>2. Has(thread'[p][g], j)
          BY <1>6, <3>1, <4>1, <5>1, KeptInHand
        <5> QED BY <4>1, <5>2 DEF HeldBy
      <4>2. CASE ~(p0 = p /\ h = g)
        BY <1>0, <2>1, <3>1, <4>2 DEF HeldBy
      <4> QED BY <4>1, <4>2
    <3>2. CASE thread[p0][h].pc = "boot" /\ InSeq(qfile[p0], j)
      <4>1. h = workers[p0]
        BY <1>0, <1>2, <3>2 DEF Orderly, Waiting, OldFinished
      <4>2. CASE p0 = p /\ h = g
        <5>1. LoadQueue(p, g)
          BY <1>0, <1>6, <3>2, <4>2, PopDoes, LoadJobDoes, ClaimDoes, AcceptDoes, LoadMediaDoes,
             SaveMediaDoes, ReceiveEnqueueDoes, SetQueuePausedDoes, ExitDoes DEF ThreadStep
        <5> QED BY <1>0, <3>2, <4>2, <5>1, LoadQueueDoes DEF HeldBy, Has
      <4>3. CASE ~(p0 = p /\ h = g)
        <5>1. qfile'[p0] = qfile[p0]
          BY <1>0, <1>2, <1>6, <2>1, <4>1, <4>3, OldOnlyCharges DEF Orderly, Waiting
        <5> QED BY <1>0, <2>1, <3>2, <4>3, <5>1 DEF HeldBy
      <4> QED BY <4>2, <4>3
    <3> QED BY <2>3, <3>1, <3>2 DEF HeldBy
  <2> QED BY <1>3, <1>4, <1>6, <2>1, <2>2, <2>3
<1>7. ASSUME up, NEW a \in Admins, CloneList(a) \/ AdminStep(a)
      PROVE  up' /\ (hpc'[j] = "enqueue" \/ Held(j)')
  <2>1. UNCHANGED <<up, record, hpc, qfile>>
    BY <1>0, <1>7, AdminFrame DEF handlerVars
  <2>2. ASSUME NEW g \in Generations PROVE thread'[p0][g] = thread[p0][g]
    <3>1. CASE ReplaceWorker(a)
      <4>1. p0 # admin[a].printer
        BY <1>2, <2>1, <3>1, AdminGuards DEF Orderly, AllClosed, Past, Closed
      <4> QED BY <1>0, <3>1, <4>1, ReplaceDoes
    <3>2. CASE ~ReplaceWorker(a)
      BY <1>0, <1>7, <3>2, AdminFrame
    <3> QED BY <3>1, <3>2
  <2>3. \A g \in Generations : HeldBy(p0, g, j) => HeldBy(p0, g, j)'
    BY <2>1, <2>2 DEF HeldBy
  <2> QED BY <1>3, <1>4, <1>7, <2>1, <2>3
<1>8. CASE Crash
  <2>1. ~up' /\ UNCHANGED <<file, record>> /\ up
    BY <1>0, <1>8, CrashDoes DEF dataVars
  <2>2. hpc[j] = "enqueue" \/ Held(j)
    BY <1>1, <2>1 DEF AfterCrash
  <2>3. file[p0] \in Enabled
    BY <1>2, <2>1, <2>2, QueuedIsEnabled
  <2> QED BY <2>1, <2>3
<1>9. CASE Start
  <2>1. record[j] = "queued" /\ ~up /\ up'
    BY <1>0, <1>9, StartDoes
  <2>2. file[p0] \in Enabled /\ file[p0] \in Configs /\ file[p0] # None
    BY <1>3, <2>1, ConfigsAssumption, IdsAssumption
  <2>3. 1 \in Generations
    BY BudgetAssumption DEF Generations
  <2>4. thread'[p0][1] = Booted(file[p0]) /\ qfile'[p0] \in SetToSeqs(QueuedFor(p0))
    BY <1>0, <1>9, <2>2, <2>3, StartDoes
  <2>5. QueuedFor(p0) \in SUBSET Jobs /\ j \in QueuedFor(p0)
    BY <2>1 DEF QueuedFor
  <2>6. InSeq(qfile'[p0], j) /\ thread'[p0][1].pc = "boot"
    BY <2>2, <2>4, <2>5, AnyOrder, FreshThread
  <2>7. HeldBy(p0, 1, j)'
    BY <2>6 DEF HeldBy
  <2> QED BY <1>4, <2>1, <2>3, <2>7
<1>10. CASE UNCHANGED vars
  <2>1. UNCHANGED <<file, up, record, hpc, qfile, thread>>
    BY <1>10 DEF vars, dataVars, handlerVars
  <2>2. \A g \in Generations : HeldBy(p0, g, j) => HeldBy(p0, g, j)'
    BY <2>1 DEF HeldBy
  <2> QED BY <1>3, <1>4, <2>1, <2>2
<1>11. CASE ~up /\ ~Start
  BY <1>0, <1>10, <1>11, DownUntilStart
<1> QED BY <1>5, <1>6, <1>7, <1>8, <1>9, <1>10, <1>11 DEF Next

LEMMA ForgottenInit == Init => UntilCrash /\ AfterCrash
  BY DEF Init, UntilCrash, AfterCrash

-----------------------------------------------------------------------------
(* The theorems. *)

\* The strengthening is kept by every step of submissions, threads and requests
\* and by the end and the start of the process.
THEOREM RegistryInvariant == Spec => []RegistryInv
<1>1. Init => RegistryInv
  BY BaseInit, OnceInit, AgreeInit, ForgottenInit DEF RegistryInv
<1>2. RegistryInv /\ [Next]_vars => RegistryInv'
  BY BaseStep, OnceStep, AgreeStep, UntilCrashStep, AfterCrashStep DEF RegistryInv
<1> QED BY <1>1, <1>2, PTL DEF Spec

\* Types are kept, whatever races: a thread has a job in hand exactly when it is
\* at one of the steps of a delivery, and a printer gets no more workers than
\* requests to save it were accepted.
THEOREM TypesHold == Spec => []TypeOK
<1>1. RegistryInv => TypeOK
  BY DEF RegistryInv, BaseInv
<1> QED BY <1>1, RegistryInvariant, PTL

\* Between requests to save a printer, as long as they did not overlap and none
\* failed, printers.json, the list in memory and the workers say the same
\* (v2_admin_save_printer changes the three one after the other).
THEOREM FileListAndWorkersAgree == Spec => []Agreement
<1>1. RegistryInv => Agreement
  <2> SUFFICES ASSUME AgreeInv, up, ~overlapped, Writable,
                      \A a \in Admins : admin[a].pc \in {"idle", "check"}
               PROVE  /\ file = memory
                      /\ \A p \in Printers :
                             Serving(p) = IF memory[p] \in Enabled THEN memory[p] ELSE None
    BY DEF Agreement, RegistryInv
  <2>1. StepwiseAgreement /\ \A a \in Admins : ~Landed(a)
    BY DEF AgreeInv, Landed
  <2> QED BY <2>1 DEF StepwiseAgreement, Served, Want
<1> QED BY <1>1, RegistryInvariant, PTL

\* Replacing workers sends no job to paper twice, for any number of printers,
\* requests, crashes and threads that still end: has_open_jobs sees every job
\* from its first record on.
THEOREM NoJobSentTwice == Spec => []SentOnce
<1>1. RegistryInv => SentOnce
  BY DEF RegistryInv, OnceInv, Orderly, Waiting, SentRecorded, SentOnce
<1> QED BY <1>1, RegistryInvariant, PTL

\* A waiting job is in the hands of a live thread, or of the handler that is about
\* to enqueue it: until the first restart unless a paused thread left it, and in a
\* run without the gaps of has_open_jobs, overlaps and failed saves always.
THEOREM NoJobForgotten == Spec => []NobodyForgotten
<1>1. RegistryInv => NobodyForgotten
  <2> SUFFICES ASSUME RegistryInv, up
               PROVE  /\ budget.crash = Budget.crash => Unheld \subseteq left
                      /\ ~straddled /\ ~overlapped /\ Writable => Unheld = {}
    BY DEF NobodyForgotten
  <2>1. ASSUME budget.crash = Budget.crash, NEW j \in Unheld PROVE j \in left
    <3>1. j \in Jobs /\ record[j] = "queued" /\ hpc[j] # "enqueue" /\ ~Held(j)
      BY DEF Unheld
    <3>2. InHands(j)
      BY <2>1, <3>1 DEF RegistryInv, UntilCrash
    <3> QED BY <3>1, <3>2, HeldMeans DEF InHands, HeldBy
  <2>2. ASSUME ~straddled, ~overlapped, Writable, NEW j \in Unheld PROVE FALSE
    BY <2>2 DEF Unheld, RegistryInv, AfterCrash
  <2> QED BY <2>1, <2>2
<1> QED BY <1>1, RegistryInvariant, PTL

\* The gaps that SentOnce names are the only way to two threads that deliver to one
\* printer at a time (README.md:195): otherwise only the worker in the map does.
THEOREM OneWorkerDelivers == Spec => [](~straddled => OneAtATime)
<1>1. RegistryInv /\ ~straddled => OneAtATime
  <2> SUFFICES ASSUME OldFinished, NEW p \in Printers
               PROVE  Cardinality({g \in Generations : thread[p][g].pc = "deliver"}) <= 1
    BY DEF RegistryInv, OnceInv, Orderly, Waiting, OneAtATime
  <2> DEFINE busy == {g \in Generations : thread[p][g].pc = "deliver"}
  <2>1. busy \in SUBSET {workers[p]}
    BY DEF OldFinished
  <2> HIDE DEF busy
  <2>2. IsFiniteSet({workers[p]}) /\ Cardinality({workers[p]}) = 1
    BY FS_Singleton
  <2>3. Cardinality(busy) <= 1
    BY <2>1, <2>2, FS_Subset
  <2> QED BY <2>3 DEF busy
<1> QED BY <1>1, RegistryInvariant, PTL
==============================================================================
