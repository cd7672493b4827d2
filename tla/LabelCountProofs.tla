--------------------------- MODULE LabelCountProofs ---------------------------
(***************************************************************************)
(* The label counts are right for every text and however the reads cut it, *)
(* and for every request: any size of chunk and carry, any number of pages  *)
(* and copies.                                                             *)
(***************************************************************************)
EXTENDS LabelCount, SequenceTheorems, WellFoundedInduction, TLAPS

-----------------------------------------------------------------------------
(* Naturals and sequences.                                                   *)

Below == {ss \in Nat \X Nat : ss[1] < ss[2]}

LEMMA BelowWellFounded == IsWellFoundedOn(Below, Nat)
  BY NatLessThanWellFounded, Zenon DEF Below, OpToRel

\* A set of naturals that is not empty has a least element.
LEMMA LeastExists ==
    ASSUME NEW T \in SUBSET Nat, T # {}
    PROVE  \E m \in T : \A k \in T : m <= k
  <1>1. T \subseteq Nat
    OBVIOUS
  <1>2. \E m \in T : \A k \in T : ~(<<k, m>> \in Below)
    BY <1>1, BelowWellFounded, WFMin
  <1>3. \A k, m \in Nat : k < m => <<k, m>> \in Below
    BY DEF Below
  <1>4. ASSUME NEW m \in T, NEW k \in T, ~(<<k, m>> \in Below) PROVE m <= k
    BY <1>3, <1>4
  <1> QED BY <1>2, <1>4

\* A part of a sequence.
LEMMA PartOf ==
    ASSUME NEW S, NEW s \in Seq(S), NEW m \in 1..Len(s), NEW n \in 0..Len(s), m <= n + 1
    PROVE  /\ SubSeq(s, m, n) \in Seq(S) /\ Len(SubSeq(s, m, n)) = n + 1 - m
           /\ \A i \in 1..(n + 1 - m) : SubSeq(s, m, n)[i] = s[m + i - 1]
  <1>1. Len(s) \in Nat /\ m \in Int /\ n \in Int /\ \A i \in m..n : s[i] \in S
    BY ElementOfSeq
  <1>2. /\ SubSeq(s, m, n) \in Seq(S)
        /\ Len(SubSeq(s, m, n)) = IF m <= n THEN n - m + 1 ELSE 0
        /\ \A i \in 1..(n - m + 1) : SubSeq(s, m, n)[i] = s[m + i - 1]
    BY <1>1, SubSeqProperties
  <1> QED BY <1>1, <1>2

LEMMA PQIs == /\ PQ \in Seq(Characters) /\ Len(PQ) = 3
              /\ PQ[1] = "^" /\ PQ[2] = "P" /\ PQ[3] = "Q"
  <1>1. Len(PQ) = 3
    BY DEF PQ
  <1>2. PQ[1] = "^" /\ PQ[2] = "P" /\ PQ[3] = "Q"
    BY DEF PQ
  <1>3. PQ \in Seq(Characters)
    BY TextAssumption DEF PQ
  <1> QED BY <1>1, <1>2, <1>3

\* A marker is its three characters.
LEMMA MarkerIs ==
    ASSUME NEW s \in Seq(Characters), NEW i
    PROVE  i \in MarkersIn(s) <=> /\ i \in 1..Len(s) /\ i + 2 <= Len(s)
                                  /\ s[i] = "^" /\ s[i + 1] = "P" /\ s[i + 2] = "Q"
  <1>1. DOMAIN s = 1..Len(s) /\ Len(s) \in Nat
    OBVIOUS
  <1>2. ASSUME i \in 1..Len(s), i + 2 <= Len(s)
        PROVE  SubSeq(s, i, i + 2) = PQ <=> s[i] = "^" /\ s[i + 1] = "P" /\ s[i + 2] = "Q"
    <2>1. i + 2 \in 0..Len(s) /\ i <= i + 2 + 1 /\ i + 2 + 1 - i = 3 /\ i + 1 - 1 = i
          /\ i + 2 - 1 = i + 1 /\ i + 3 - 1 = i + 2
      BY <1>1, <1>2
    <2> DEFINE t == SubSeq(s, i, i + 2)
    <2>2. t \in Seq(Characters) /\ Len(t) = 3 /\ \A k \in 1..3 : t[k] = s[i + k - 1]
      BY <1>2, <2>1, PartOf
    <2>3. t[1] = s[i] /\ t[2] = s[i + 1] /\ t[3] = s[i + 2]
      BY <2>1, <2>2
    <2>4. /\ PQ \in Seq(Characters) /\ Len(PQ) = 3
          /\ PQ[1] = "^" /\ PQ[2] = "P" /\ PQ[3] = "Q"
      BY PQIs
    <2> HIDE DEF t
    <2>5. t = PQ <=> t[1] = "^" /\ t[2] = "P" /\ t[3] = "Q"
      <3>1. ASSUME t[1] = "^", t[2] = "P", t[3] = "Q" PROVE t = PQ
        <4>1. \A k \in 1..3 : k = 1 \/ k = 2 \/ k = 3
          OBVIOUS
        <4>2. \A k \in 1..Len(t) : t[k] = PQ[k]
          BY <2>2, <2>4, <3>1, <4>1
        <4> QED BY <2>2, <2>4, <4>2, SeqEqual
      <3> QED BY <2>4, <3>1
    <2> QED BY <2>3, <2>5 DEF t
  <1> QED BY <1>1, <1>2 DEF MarkersIn

-----------------------------------------------------------------------------
(* parse_pq: the strengthening.  The carry is the end of what was read, and   *)
(* while no number was found every ^PQ that has one still lies ahead of it.  *)

ScanInv ==
    pc = "read" =>
        /\ Len(carry) = IF at > CarrySize THEN CarrySize ELSE at
        /\ \A k \in 1..Len(carry) : carry[k] = job[at - Len(carry) + k]
        /\ found = Unknown
        /\ Numbered(job) => \A i \in MarkersIn(job) : at <= i + 2

\* A window is a stretch of the text that ends where the read does.
LEMMA WindowFacts ==
    ASSUME CountTypeOK, ScanInv, pc = "read", NEW n \in 1..ChunkSize, Reads(n)
    PROVE  LET from == at - Len(carry)
           IN /\ job \in Seq(Characters) /\ at \in Nat /\ Len(carry) \in Nat /\ from \in Nat
              /\ n \in Nat /\ n >= 1 /\ at + n <= Len(job)
              /\ Window(n) \in Seq(Characters) /\ Len(Window(n)) = Len(carry) + n
              /\ \A k \in 1..Len(Window(n)) : Window(n)[k] = job[from + k]
  <1> DEFINE from == at - Len(carry)
  <1>1. /\ job \in Seq(Characters) /\ at \in 0..Len(job) /\ carry \in Seq(Characters)
        /\ Len(carry) <= at
    BY TextAssumption DEF CountTypeOK
  <1>2. n \in Nat /\ n >= 1 /\ at + n <= Len(job) /\ Len(job) \in Nat /\ Len(carry) \in Nat
        /\ at \in Nat
    BY <1>1, LabelLimits DEF Reads
  <1> DEFINE part == SubSeq(job, at + 1, at + n)
  <1>3. part \in Seq(Characters) /\ Len(part) = n /\ \A i \in 1..n : part[i] = job[at + i]
    <2> DEFINE m == at + 1
               e == at + n
    <2>1. m \in 1..Len(job) /\ e \in 0..Len(job) /\ m <= e + 1 /\ e + 1 - m = n
      BY <1>2
    <2>2. \A i \in 1..n : m + i - 1 = at + i
      BY <1>2
    <2> HIDE DEF m, e
    <2>3. /\ SubSeq(job, m, e) \in Seq(Characters) /\ Len(SubSeq(job, m, e)) = e + 1 - m
          /\ \A i \in 1..(e + 1 - m) : SubSeq(job, m, e)[i] = job[m + i - 1]
      BY <1>1, <2>1, PartOf
    <2> QED BY <2>1, <2>2, <2>3 DEF m, e
  <1> HIDE DEF part
  <1>4. /\ carry \o part \in Seq(Characters) /\ Len(carry \o part) = Len(carry) + n
        /\ \A i \in 1..Len(carry) + n :
              (carry \o part)[i] = IF i <= Len(carry) THEN carry[i] ELSE part[i - Len(carry)]
    BY <1>1, <1>3, ConcatProperties
  <1>5. Window(n) = carry \o part
    BY DEF Window, part
  <1>6. ASSUME NEW k \in 1..(Len(carry) + n)
        PROVE  Window(n)[k] = job[from + k]
    <2>1. CASE k <= Len(carry)
      <3>1. k \in 1..Len(carry)
        BY <1>2, <2>1
      <3> QED BY <1>4, <1>5, <2>1, <3>1 DEF ScanInv
    <2>2. CASE ~(k <= Len(carry))
      <3>1. k - Len(carry) \in 1..n /\ at + (k - Len(carry)) = from + k
        BY <1>2, <2>2
      <3> QED BY <1>3, <1>4, <1>5, <2>2, <3>1
    <2> QED BY <2>1, <2>2
  <1> QED BY <1>1, <1>2, <1>4, <1>5, <1>6

\* The markers of a window are those of the text that lie in it, and so are numbers.
LEMMA WindowMarkers ==
    ASSUME CountTypeOK, ScanInv, pc = "read", NEW n \in 1..ChunkSize, Reads(n)
    PROVE  LET from == at - Len(carry)
           IN /\ \A i \in MarkersIn(Window(n)) :
                    /\ i \in 1..Len(Window(n)) - 2 /\ from + i \in MarkersIn(job)
                    /\ from + i + 3 <= at + n /\ HasNumber(job, from + i)
                          => HasNumber(Window(n), i)
              /\ \A k \in MarkersIn(job) :
                    k > from /\ k + 2 <= at + n => k - from \in MarkersIn(Window(n))
  <1> DEFINE from == at - Len(carry)
             W == Window(n)
  <1>1. /\ job \in Seq(Characters) /\ at \in Nat /\ Len(carry) \in Nat /\ from \in Nat
        /\ n \in Nat /\ n >= 1 /\ at + n <= Len(job)
        /\ W \in Seq(Characters) /\ Len(W) = Len(carry) + n
        /\ \A k \in 1..Len(W) : W[k] = job[from + k]
    BY WindowFacts
  <1>2. from + Len(W) = at + n /\ Len(job) \in Nat /\ Len(W) \in Nat
    BY <1>1
  <1> HIDE DEF W, from
  <1>3. ASSUME NEW i \in MarkersIn(W)
        PROVE  /\ i \in 1..Len(W) - 2 /\ from + i \in MarkersIn(job)
               /\ from + i + 3 <= at + n /\ HasNumber(job, from + i) => HasNumber(W, i)
    <2>1. /\ i \in 1..Len(W) /\ i + 2 <= Len(W)
          /\ W[i] = "^" /\ W[i + 1] = "P" /\ W[i + 2] = "Q"
      BY <1>1, MarkerIs
    <2>2. /\ i + 1 \in 1..Len(W) /\ i + 2 \in 1..Len(W)
          /\ from + i \in 1..Len(job) /\ from + i + 2 <= Len(job)
          /\ from + (i + 1) = from + i + 1 /\ from + (i + 2) = from + i + 2
      BY <1>1, <1>2, <2>1
    <2>3. job[from + i] = "^" /\ job[from + i + 1] = "P" /\ job[from + i + 2] = "Q"
      BY <1>1, <2>1, <2>2
    <2>4. from + i \in MarkersIn(job)
      BY <1>1, <2>2, <2>3, MarkerIs
    <2>5. ASSUME from + i + 3 <= at + n, HasNumber(job, from + i) PROVE HasNumber(W, i)
      <3>1. i + 3 \in 1..Len(W) /\ from + (i + 3) = from + i + 3
        BY <1>1, <1>2, <2>1, <2>5
      <3>2. W[i + 3] = job[from + i + 3]
        BY <1>1, <3>1
      <3> QED BY <2>5, <3>1, <3>2 DEF HasNumber
    <2> QED BY <1>2, <2>1, <2>4, <2>5
  <1>4. ASSUME NEW k \in MarkersIn(job), k > from, k + 2 <= at + n
        PROVE  k - from \in MarkersIn(W)
    <2>1. k \in 1..Len(job) /\ job[k] = "^" /\ job[k + 1] = "P" /\ job[k + 2] = "Q"
      BY <1>1, MarkerIs
    <2>2. /\ k - from \in 1..Len(W) /\ k - from + 1 \in 1..Len(W) /\ k - from + 2 \in 1..Len(W)
          /\ from + (k - from) = k /\ from + (k - from + 1) = k + 1
          /\ from + (k - from + 2) = k + 2 /\ k - from + 2 <= Len(W)
      BY <1>1, <1>2, <1>4, <2>1
    <2>3. W[k - from] = "^" /\ W[k - from + 1] = "P" /\ W[k - from + 2] = "Q"
      BY <1>1, <2>1, <2>2
    <2> QED BY <1>1, <2>2, <2>3, MarkerIs
  <1> QED BY <1>3, <1>4 DEF W, from

\* What is kept of a window is its end.
LEMMA LastPartIs ==
    ASSUME NEW window \in Seq(Characters)
    PROVE  /\ LastPart(window) \in Seq(Characters)
           /\ Len(LastPart(window)) = IF Len(window) > CarrySize THEN CarrySize ELSE Len(window)
           /\ \A k \in 1..Len(LastPart(window)) :
                  LastPart(window)[k] = window[Len(window) - Len(LastPart(window)) + k]
  <1> DEFINE m == IF Len(window) > CarrySize THEN Len(window) - CarrySize + 1 ELSE 1
             n == Len(window)
  <1>1. n \in Nat /\ CarrySize \in Nat /\ CarrySize >= 1 /\ m \in 1..(n + 1)
    BY LabelLimits
  <1>2. LastPart(window) = SubSeq(window, m, n)
    BY DEF LastPart
  <1>3. n + 1 - m = IF n > CarrySize THEN CarrySize ELSE n
    BY <1>1
  <1>4. \A i \in m..n : i \in 1..n
    BY <1>1
  <1> HIDE DEF m
  <1>5. /\ SubSeq(window, m, n) \in Seq(Characters)
        /\ Len(SubSeq(window, m, n)) = IF m <= n THEN n - m + 1 ELSE 0
        /\ \A i \in 1..(n - m + 1) : SubSeq(window, m, n)[i] = window[m + i - 1]
    <2>1. \A i \in m..n : window[i] \in Characters
      BY <1>4, ElementOfSeq
    <2>2. m \in Int /\ n \in Int
      BY <1>1
    <2> QED BY <2>1, <2>2, SubSeqProperties
  <1>6. Len(LastPart(window)) = n + 1 - m
    BY <1>1, <1>2, <1>5
  <1>7. \A k \in 1..(n + 1 - m) : LastPart(window)[k] = window[n - (n + 1 - m) + k]
    <2>1. ASSUME NEW k \in 1..(n + 1 - m) PROVE LastPart(window)[k] = window[n - (n + 1 - m) + k]
      <3>1. k \in 1..(n - m + 1) /\ n - (n + 1 - m) + k = m + k - 1
        BY <1>1, <2>1
      <3> QED BY <1>2, <1>5, <3>1
    <2> QED BY <2>1
  <1> QED BY <1>2, <1>3, <1>5, <1>6, <1>7

\* A read that finds no number: every ^PQ that has one still lies ahead.
LEMMA ReadOnKeeps ==
    ASSUME CountTypeOK, ScanInv, ReadOn
    PROVE  ScanInv'
  <1>1. PICK n \in 1..ChunkSize :
            /\ Reads(n)
            /\ ~\E i \in MarkersIn(Window(n)) : IsFirst(i, Window(n)) /\ HasNumber(Window(n), i)
            /\ carry' = LastPart(Window(n))
            /\ at' = at + n
    BY DEF ReadOn
  <1>2. pc = "read" /\ pc' = pc /\ job' = job /\ found' = found
    BY DEF ReadOn
  <1> DEFINE from == at - Len(carry)
             W == Window(n)
  <1>3. /\ job \in Seq(Characters) /\ at \in Nat /\ Len(carry) \in Nat /\ from \in Nat
        /\ n \in Nat /\ n >= 1 /\ at + n <= Len(job)
        /\ W \in Seq(Characters) /\ Len(W) = Len(carry) + n
        /\ \A k \in 1..Len(W) : W[k] = job[from + k]
    BY <1>1, <1>2, WindowFacts
  <1>4. /\ \A i \in MarkersIn(W) :
              /\ i \in 1..Len(W) - 2 /\ from + i \in MarkersIn(job)
              /\ from + i + 3 <= at + n /\ HasNumber(job, from + i) => HasNumber(W, i)
        /\ \A k \in MarkersIn(job) :
              k > from /\ k + 2 <= at + n => k - from \in MarkersIn(W)
    BY <1>1, <1>2, WindowMarkers
  <1>5. CarrySize \in Nat /\ CarrySize >= 3
    BY LabelLimits, PQIs
  <1>6. Len(carry) = IF at > CarrySize THEN CarrySize ELSE at
    BY <1>2 DEF ScanInv
  <1>7. /\ Len(carry') = IF at' > CarrySize THEN CarrySize ELSE at'
        /\ \A k \in 1..Len(carry') : carry'[k] = job'[at' - Len(carry') + k]
    <2>1. /\ Len(carry') = IF Len(W) > CarrySize THEN CarrySize ELSE Len(W)
          /\ \A k \in 1..Len(carry') : carry'[k] = W[Len(W) - Len(carry') + k]
      BY <1>1, <1>3, LastPartIs
    <2>2. Len(W) > CarrySize <=> at' > CarrySize
      BY <1>1, <1>3, <1>5, <1>6
    <2>3. ~(at' > CarrySize) => Len(W) = at'
      BY <1>1, <1>3, <1>5, <1>6
    <2>4. ASSUME NEW k \in 1..Len(carry') PROVE carry'[k] = job'[at' - Len(carry') + k]
      <3>1. /\ Len(W) - Len(carry') + k \in 1..Len(W)
            /\ from + (Len(W) - Len(carry') + k) = at' - Len(carry') + k
        BY <1>1, <1>3, <1>5, <2>1
      <3> QED BY <1>2, <1>3, <2>1, <3>1
    <2> QED BY <2>1, <2>2, <2>3, <2>4
  <1>8. ASSUME Numbered(job), NEW i \in MarkersIn(job), ~(at + n <= i + 2)
        PROVE  FALSE
    <2>1. at <= i + 2 /\ i \in 1..Len(job) /\ HasNumber(job, i)
      BY <1>2, <1>3, <1>8, MarkerIs DEF ScanInv, Numbered
    <2>2. i > from /\ i + 2 <= at + n /\ i + 3 <= at + n
      <3>1. i \in Nat /\ i >= 1
        BY <1>3, <2>1
      <3>2. i + 3 <= at + n
        BY <1>3, <1>8, <3>1
      <3>3. from = IF at > CarrySize THEN at - CarrySize ELSE 0
        BY <1>3, <1>5, <1>6
      <3> HIDE DEF from
      <3>4. i > from
        BY <1>3, <1>5, <2>1, <3>1, <3>3
      <3> QED BY <1>3, <3>1, <3>2, <3>4
    <2>3. i - from \in MarkersIn(W)
      BY <1>4, <2>2
    <2>4. MarkersIn(W) \in SUBSET Nat
      BY <1>3 DEF MarkersIn
    <2>5. PICK j \in MarkersIn(W) : \A k \in MarkersIn(W) : j <= k
      BY <2>3, <2>4, LeastExists
    <2>6. j \in Nat /\ j <= i - from
      BY <2>3, <2>4, <2>5
    <2>7. from + j \in MarkersIn(job) /\ from + j + 3 <= at + n
      BY <1>3, <1>4, <2>1, <2>2, <2>6
    <2>8. HasNumber(W, j)
      BY <1>4, <1>8, <2>7 DEF Numbered
    <2>9. IsFirst(j, W)
      BY <2>5 DEF IsFirst
    <2> HIDE DEF W
    <2> QED BY <1>1, <2>5, <2>8, <2>9 DEF W
  <1>9. Numbered(job') => \A i \in MarkersIn(job') : at' <= i + 2
    BY <1>1, <1>2, <1>8
  <1> QED BY <1>2, <1>7, <1>9 DEF ScanInv

\* The digits a window shows are digits of the text; and the first marker of a window
\* is the first of a text in which every ^PQ has a number.
LEMMA FoundInText ==
    ASSUME CountTypeOK, ScanInv, pc = "read", NEW n \in 1..ChunkSize, Reads(n),
           NEW j \in MarkersIn(Window(n)), IsFirst(j, Window(n)),
           NEW digits \in Seq(Characters), Leads(Window(n), j, digits)
    PROVE  LET i == at - Len(carry) + j
           IN /\ i \in MarkersIn(job) /\ Leads(job, i, digits)
              /\ Numbered(job) => IsFirst(i, job)
  <1> DEFINE from == at - Len(carry)
             W == Window(n)
  <1>1. /\ job \in Seq(Characters) /\ at \in Nat /\ Len(carry) \in Nat /\ from \in Nat
        /\ n \in Nat /\ n >= 1 /\ at + n <= Len(job)
        /\ W \in Seq(Characters) /\ Len(W) = Len(carry) + n
        /\ \A k \in 1..Len(W) : W[k] = job[from + k]
    BY WindowFacts
  <1>2. /\ j \in 1..Len(W) - 2 /\ from + j \in MarkersIn(job)
        /\ \A k \in MarkersIn(job) : k > from /\ k + 2 <= at + n => k - from \in MarkersIn(W)
    BY WindowMarkers
  <1>3. /\ digits # <<>> /\ j + 2 + Len(digits) <= Len(W)
        /\ \A k \in DOMAIN digits : digits[k] = W[j + 2 + k] /\ digits[k] \in Digit
    BY DEF Leads
  <1>4. DOMAIN digits = 1..Len(digits) /\ Len(digits) \in Nat
    OBVIOUS
  <1>5. \A k \in MarkersIn(W) : j <= k
    BY DEF IsFirst
  <1> HIDE DEF from, W
  <1>6. Leads(job, from + j, digits)
    <2>1. from + j + 2 + Len(digits) <= Len(job)
      BY <1>1, <1>2, <1>3, <1>4 DEF from
    <2>2. ASSUME NEW k \in DOMAIN digits PROVE digits[k] = job[from + j + 2 + k]
      <3>1. j + 2 + k \in 1..Len(W) /\ from + (j + 2 + k) = from + j + 2 + k
        <4>1. k \in 1..Len(digits) /\ j \in 1..Len(W) - 2 /\ Len(W) \in Nat
          BY <1>1, <1>2, <1>4
        <4>2. k \in Nat /\ k >= 1 /\ k <= Len(digits) /\ j \in Nat
          BY <1>4, <4>1
        <4>3. j + 2 + Len(digits) <= Len(W) /\ Len(digits) \in Nat /\ from \in Nat
          BY <1>1, <1>3, <1>4
        <4>4. j + 2 + k <= Len(W)
          BY <4>1, <4>2, <4>3
        <4> QED BY <4>1, <4>2, <4>3, <4>4
      <3> QED BY <1>1, <1>3, <3>1
    <2> QED BY <1>3, <2>1, <2>2 DEF Leads
  <1>7. ASSUME Numbered(job), NEW k \in MarkersIn(job) PROVE from + j <= k
    <2>1. k \in 1..Len(job) /\ at <= k + 2
      BY <1>1, <1>7, MarkerIs DEF ScanInv
    <2>2. CarrySize >= 3 /\ CarrySize \in Nat
          /\ Len(carry) = IF at > CarrySize THEN CarrySize ELSE at
      BY LabelLimits, PQIs DEF ScanInv
    <2>3. k > from
      BY <1>1, <2>1, <2>2 DEF from
    <2>4. CASE k + 2 <= at + n
      <3>1. k - from \in MarkersIn(W)
        BY <1>2, <2>3, <2>4
      <3>2. j <= k - from
        BY <1>5, <3>1
      <3> QED BY <1>1, <1>2, <2>1, <3>2
    <2>5. CASE ~(k + 2 <= at + n)
      BY <1>1, <1>2, <2>1, <2>5 DEF from
    <2> QED BY <2>4, <2>5
  <1> QED BY <1>2, <1>6, <1>7 DEF from, IsFirst

\* What a window shows is what the property promises.
LEMMA FindNumberKeeps ==
    ASSUME CountTypeOK, ScanInv, FindNumber
    PROVE  PqCutShort'
  <1>a. PICK n \in 1..ChunkSize : Reads(n) /\
            \E j \in MarkersIn(Window(n)) : \E m \in 1..Len(Window(n)) - j - 2 :
                LET digits == SubSeq(Window(n), j + 3, j + 2 + m) IN
                /\ IsFirst(j, Window(n)) /\ Leads(Window(n), j, digits)
                /\ found' = IF digits \in Representable THEN digits ELSE Unknown
    BY DEF FindNumber
  <1>b. PICK j \in MarkersIn(Window(n)) : \E m \in 1..Len(Window(n)) - j - 2 :
            LET digits == SubSeq(Window(n), j + 3, j + 2 + m) IN
            /\ IsFirst(j, Window(n)) /\ Leads(Window(n), j, digits)
            /\ found' = IF digits \in Representable THEN digits ELSE Unknown
    BY <1>a
  <1>c. PICK m \in 1..Len(Window(n)) - j - 2 :
            LET digits == SubSeq(Window(n), j + 3, j + 2 + m) IN
            /\ IsFirst(j, Window(n)) /\ Leads(Window(n), j, digits)
            /\ found' = IF digits \in Representable THEN digits ELSE Unknown
    BY <1>b
  <1>1. LET digits == SubSeq(Window(n), j + 3, j + 2 + m) IN
            /\ Reads(n) /\ IsFirst(j, Window(n)) /\ Leads(Window(n), j, digits)
            /\ found' = IF digits \in Representable THEN digits ELSE Unknown
    BY <1>a, <1>c
  <1>2. pc = "read" /\ job' = job
    BY DEF FindNumber
  <1> DEFINE W == Window(n)
             i == at - Len(carry) + j
             digits == SubSeq(W, j + 3, j + 2 + m)
  <1>3. /\ job \in Seq(Characters) /\ W \in Seq(Characters) /\ Len(W) \in Nat
        /\ at - Len(carry) \in Nat /\ Len(job) \in Nat
    BY <1>1, <1>2, WindowFacts
  <1>4. j \in 1..Len(W) - 2
    BY <1>1, <1>2, WindowMarkers
  <1>5. digits \in Seq(Characters) /\ Len(digits) = m
    <2> DEFINE a == j + 3
               b == j + 2 + m
    <2>1. /\ a \in 1..Len(W) /\ b \in 0..Len(W) /\ a <= b + 1 /\ b + 1 - a = m /\ m \in Nat
      BY <1>3, <1>4
    <2> HIDE DEF a, b, W
    <2>2. SubSeq(W, a, b) \in Seq(Characters) /\ Len(SubSeq(W, a, b)) = b + 1 - a
      BY <1>3, <2>1, PartOf
    <2> QED BY <2>1, <2>2 DEF a, b
  <1>6. /\ i \in MarkersIn(job) /\ Leads(job, i, digits)
        /\ Numbered(job) => IsFirst(i, job)
    <2> HIDE DEF digits
    <2>1. Leads(Window(n), j, digits)
      BY <1>1 DEF digits
    <2> QED BY <1>1, <1>2, <1>5, <2>1, FoundInText
  <1>7. digits # Unknown
    BY <1>6 DEF Leads, Unknown
  <1> HIDE DEF digits, W
  <1>8. found' = IF digits \in Representable THEN digits ELSE Unknown
    BY <1>1 DEF digits, W
  <1>9. ASSUME found' = Unknown, Numbered(job), NEW k \in MarkersIn(job), IsFirst(k, job)
        PROVE  \E l \in 1..Len(job) - k - 2 :
                  LET part == SubSeq(job, k + 3, k + 2 + l)
                  IN Leads(job, k, part) /\ part \notin Representable
    <2>1. k = i /\ k \in 1..Len(job)
      <3>1. k \in 1..Len(job) /\ i \in 1..Len(job) /\ k <= i /\ i <= k
        BY <1>3, <1>6, <1>9, MarkerIs DEF IsFirst
      <3> HIDE DEF i
      <3> QED BY <1>3, <3>1
    <2>2. m \in 1..Len(job) - k - 2
      <3>1. i + 2 + m <= Len(job) /\ m \in Nat /\ m >= 1
        BY <1>1, <1>3, <1>4, <1>5, <1>6 DEF Leads, W
      <3> HIDE DEF i
      <3> QED BY <1>3, <2>1, <3>1
    <2> DEFINE a == k + 3
               b == k + 2 + m
               part == SubSeq(job, a, b)
    <2>3. a \in 1..Len(job) /\ b \in 0..Len(job) /\ a <= b + 1 /\ b + 1 - a = m
          /\ m \in Nat /\ \A l \in 1..m : a + l - 1 = k + 2 + l
      <3> HIDE DEF i
      <3>1. k \in 1..Len(job) /\ Len(job) \in Nat /\ m \in 1..(Len(job) - k - 2)
        BY <1>3, <2>1, <2>2
      <3> QED BY <3>1
    <2>4. part = digits
      <3> HIDE DEF a, b, i
      <3>1. /\ part \in Seq(Characters) /\ Len(part) = b + 1 - a
            /\ \A l \in 1..(b + 1 - a) : part[l] = job[a + l - 1]
        BY <1>3, <2>3, PartOf
      <3>2. \A l \in 1..m : digits[l] = job[k + 2 + l]
        <4>1. DOMAIN digits = 1..m
          BY <1>5
        <4> QED BY <1>6, <2>1, <4>1 DEF Leads
      <3>3. \A l \in 1..Len(part) : part[l] = digits[l]
        BY <2>3, <3>1, <3>2
      <3> HIDE DEF part
      <3> QED BY <1>5, <2>3, <3>1, <3>3, SeqEqual
    <2>5. digits \notin Representable
      BY <1>7, <1>8, <1>9
    <2>6. Leads(job, k, part) /\ part \notin Representable
      BY <1>6, <2>1, <2>4, <2>5
    <2> QED BY <2>2, <2>6
  <1>10. ASSUME found' # Unknown
         PROVE  \E k \in MarkersIn(job) :
                    Leads(job, k, found') /\ (Numbered(job) => IsFirst(k, job))
    <2>1. found' = digits
      BY <1>8, <1>10
    <2> HIDE DEF i
    <2> QED BY <1>6, <2>1
  <1> QED BY <1>2, <1>9, <1>10 DEF PqCutShort

\* At the end of the text no ^PQ with a number can lie ahead.
LEMMA EndOfTextKeeps ==
    ASSUME CountTypeOK, ScanInv, EndOfText
    PROVE  PqCutShort'
  <1>1. pc = "read" /\ at = Len(job) /\ job' = job /\ found' = found /\ found = Unknown
    BY DEF EndOfText, scan, ScanInv
  <1>2. job \in Seq(Characters)
    BY <1>1, TextAssumption DEF CountTypeOK
  <1>3. ASSUME Numbered(job), NEW i \in MarkersIn(job) PROVE FALSE
    <2>1. i \in 1..Len(job) /\ i + 3 <= Len(job) /\ at <= i + 2
      BY <1>1, <1>2, <1>3, MarkerIs DEF ScanInv, Numbered, HasNumber
    <2> QED BY <1>1, <1>2, <2>1
  <1> QED BY <1>1, <1>3 DEF PqCutShort

ScanSafety == ScanInv /\ PqCutShort

LEMMA ScanStep ==
    ASSUME CountTypeOK, ScanSafety, [CountNext]_countVars
    PROVE  ScanSafety'
  <1>1. CASE ReadOn
    <2>1. pc' = "read"
      BY <1>1 DEF ReadOn
    <2> QED BY <1>1, <2>1, ReadOnKeeps DEF ScanSafety, PqCutShort
  <1>2. CASE FindNumber
    <2>1. pc' = "counted"
      BY <1>2 DEF FindNumber
    <2> QED BY <1>2, <2>1, FindNumberKeeps DEF ScanSafety, ScanInv
  <1>3. CASE EndOfText
    <2>1. pc' = "counted"
      BY <1>3 DEF EndOfText
    <2> QED BY <1>3, <2>1, EndOfTextKeeps DEF ScanSafety, ScanInv
  <1>4. CASE ReadFails \/ PrepareJob
    <2>1. pc' \notin {"read", "counted"}
      BY <1>4 DEF ReadFails, PrepareJob, Refuse, CheckPage, BeginLayout, LayPage, Prepared
    <2> QED BY <2>1 DEF ScanSafety, ScanInv, PqCutShort
  <1>5. CASE UNCHANGED countVars
    BY <1>5 DEF countVars, scan, ScanSafety, ScanInv, PqCutShort
  <1> QED BY <1>1, <1>2, <1>3, <1>4, <1>5 DEF CountNext, ParsePq

LEMMA ScanInit == CountInit => ScanSafety
  <1> SUFFICES ASSUME CountInit PROVE ScanSafety
    OBVIOUS
  <1>1. at = 0 /\ carry = <<>> /\ found = Unknown /\ pc \in {"read", "check"}
    BY DEF CountInit
  <1>2. ASSUME pc = "read", NEW i \in MarkersIn(job) PROVE at <= i + 2
    <2>1. job \in Seq(Characters)
      BY <1>2, TextAssumption DEF CountInit
    <2> QED BY <1>1, <2>1, MarkerIs
  <1>3. CarrySize \in Nat /\ CarrySize >= 1
    BY LabelLimits
  <1>4. Len(carry) = 0 /\ \A k \in 1..Len(carry) : carry[k] = job[at - Len(carry) + k]
    BY <1>1
  <1> QED BY <1>1, <1>2, <1>3, <1>4 DEF ScanSafety, ScanInv, PqCutShort

-----------------------------------------------------------------------------
(* Types.                                                                    *)

\* What the printer makes of a page is a number of labels, at least one.
LEMMA QuantityIs ==
    ASSUME NEW quantities \in Seq(Nat)
    PROVE  /\ Quantity(quantities) \in Nat /\ Quantity(quantities) >= 1
           /\ ~MultiCopy(quantities) => Quantity(quantities) = 1
  <1>1. CASE quantities = <<>>
    <2>1. Quantity(quantities) = 1
      BY <1>1 DEF Quantity
    <2> QED BY <2>1
  <1>2. CASE quantities # <<>>
    <2>1. Len(quantities) \in 1..Len(quantities) /\ DOMAIN quantities = 1..Len(quantities)
      BY <1>2
    <2>2. Last(quantities) = quantities[Len(quantities)] /\ Last(quantities) \in Nat
      BY <2>1, ElementOfSeq DEF Last
    <2>3. ~MultiCopy(quantities) => ~(Last(quantities) > 1)
      BY <2>1, <2>2 DEF MultiCopy
    <2>4. Quantity(quantities) = IF Last(quantities) = 0 THEN 1 ELSE Last(quantities)
      BY <1>2 DEF Quantity
    <2> HIDE DEF Last
    <2> QED BY <2>2, <2>3, <2>4
  <1> QED BY <1>1, <1>2

LEMMA PayloadIs == ASSUME NEW page \in Artifact PROVE Payload(page) \in Seq(Nat)
  BY DEF Payload, Artifact

\* prepare_job: the strengthening.  What is laid out are pages that were checked, in
\* order, and each printed at least one label, or just one.
Alone == job.copies > 1 \/ \A i \in DOMAIN Pages : ~MultiCopy(Payload(Pages[i]))

PagesOk(n) == \A i \in 1..n : PageOk(Pages[i])

LayInv ==
    /\ pc = "check" =>
          /\ copy = 0 /\ printed = 0
          /\ at > 0 => EnvelopeOk
          /\ PagesOk(at)
    /\ pc \in {"lay", "prepared"} =>
          /\ EnvelopeOk /\ PagesOk(Len(Pages))
          /\ at < Len(Pages) /\ copy <= job.copies /\ (copy = job.copies => at = 0)
          /\ Len(Pages) * copy + at <= printed
          /\ Alone => Len(Pages) * copy + at = printed
    /\ pc = "prepared" => copy = job.copies /\ labels = Len(Pages) * job.copies

LEMMA TypeInit == CountInit => CountTypeOK
  <1>1. CarrySize \in Nat
    BY LabelLimits
  <1>2. ASSUME CountInit, job \in Texts PROVE job \in Seq(Characters)
    BY <1>2, TextAssumption
  <1>3. ASSUME CountInit, job \in Requests PROVE Pages \in Seq(Artifact)
    BY <1>3, RequestAssumption DEF Pages
  <1>4. ASSUME NEW s, NEW S, s \in Seq(S) PROVE 0 \in 0..Len(s)
    BY <1>4
  <1>5. <<>> \in Seq(Characters) /\ Len(<<>>) = 0
    OBVIOUS
  <1> QED BY <1>1, <1>2, <1>3, <1>4, <1>5 DEF CountInit, CountTypeOK

LEMMA TypeStep == CountTypeOK /\ ScanInv /\ LayInv /\ [CountNext]_countVars => CountTypeOK'
  <1> SUFFICES ASSUME CountTypeOK, ScanInv, LayInv, [CountNext]_countVars PROVE CountTypeOK'
    OBVIOUS
  <1>1. CASE ReadOn
    <2>1. PICK n \in 1..ChunkSize :
              Reads(n) /\ carry' = LastPart(Window(n)) /\ at' = at + n
      BY <1>1 DEF ReadOn
    <2>2. pc = "read" /\ UNCHANGED <<job, pc, found, lay>>
      BY <1>1 DEF ReadOn
    <2>3. /\ job \in Seq(Characters) /\ at \in Nat /\ Len(carry) \in Nat /\ n \in Nat
          /\ at + n <= Len(job) /\ at - Len(carry) \in Nat
          /\ Window(n) \in Seq(Characters) /\ Len(Window(n)) = Len(carry) + n
      BY <2>1, <2>2, WindowFacts
    <2>4. /\ carry' \in Seq(Characters)
          /\ Len(carry') = IF Len(Window(n)) > CarrySize THEN CarrySize ELSE Len(Window(n))
      BY <2>1, <2>3, LastPartIs
    <2>5. CarrySize \in Nat
      BY LabelLimits
    <2>6. at' \in 0..Len(job) /\ Len(carry') <= CarrySize /\ Len(carry') <= at'
      BY <2>1, <2>3, <2>4, <2>5
    <2> QED BY <2>2, <2>4, <2>6 DEF CountTypeOK, lay
  <1>2. CASE FindNumber
    <2>1. found' \in Representable \cup {Unknown}
      BY <1>2 DEF FindNumber
    <2>2. pc = "read" /\ pc' = "counted" /\ UNCHANGED <<job, at, carry, lay>>
      BY <1>2 DEF FindNumber
    <2> QED BY <2>1, <2>2 DEF CountTypeOK, lay
  <1>3. CASE EndOfText \/ ReadFails
    BY <1>3 DEF EndOfText, ReadFails, CountTypeOK, scan, lay
  <1>4. CASE Refuse
    BY <1>4 DEF Refuse, CountTypeOK, Pages, scan, lay
  <1>5. CASE CheckPage
    <2>1. Pages \in Seq(Artifact) /\ at \in 0..Len(Pages) /\ at < Len(Pages)
      BY <1>5, RequestAssumption DEF CheckPage, CountTypeOK, Pages
    <2>2. at + 1 \in 1..Len(Pages) /\ at + 1 \in 0..Len(Pages)
      BY <2>1
    <2>3. Pages[at + 1] \in Artifact
      BY <2>1, <2>2, ElementOfSeq
    <2>4. Pages[at + 1].size \in Nat
      BY <2>3 DEF Artifact
    <2>5. size + Pages[at + 1].size \in Nat
      BY <2>4 DEF CountTypeOK
    <2> QED BY <1>5, <2>2, <2>5 DEF CheckPage, CountTypeOK, Pages, scan
  <1>6. CASE BeginLayout
    <2>1. Pages \in Seq(Artifact)
      BY <1>6, RequestAssumption DEF BeginLayout, CountTypeOK, Pages
    <2>2. 0 \in 0..Len(Pages)
      BY <2>1
    <2> QED BY <1>6, <2>2 DEF BeginLayout, CountTypeOK, Pages, scan, lay
  <1>7. CASE LayPage
    <2>1. Pages \in Seq(Artifact) /\ job.copies \in Nat /\ at \in 0..Len(Pages)
      BY <1>7, RequestAssumption DEF LayPage, CountTypeOK, Pages
    <2>2. at < Len(Pages)
      BY <1>7 DEF LayPage, LayInv
    <2>3. at + 1 \in 1..Len(Pages)
      BY <2>1, <2>2
    <2>4. Quantity(Payload(Pages[at + 1])) \in Nat
      BY <2>1, <2>3, ElementOfSeq, PayloadIs, QuantityIs
    <2>5. printed' \in Nat
      BY <1>7, <2>4 DEF LayPage, CountTypeOK
    <2>6. at' \in 0..Len(Pages) /\ copy' \in Nat
      <3>1. 0 \in 0..Len(Pages) /\ at + 1 \in 0..Len(Pages) /\ copy + 1 \in Nat /\ copy \in Nat
        BY <2>1, <2>2 DEF CountTypeOK
      <3> QED BY <1>7, <3>1 DEF LayPage
    <2> QED BY <1>7, <2>5, <2>6 DEF LayPage, CountTypeOK, Pages, scan
  <1>8. CASE Prepared
    <2>1. Pages \in Seq(Artifact) /\ job.copies \in Nat
      BY <1>8, RequestAssumption DEF Prepared, CountTypeOK, Pages
    <2>2. Len(Pages) * job.copies \in Nat
      BY <2>1
    <2> QED BY <1>8, <2>2 DEF Prepared, CountTypeOK, Pages, scan
  <1>9. CASE UNCHANGED countVars
    BY <1>9 DEF countVars, scan, lay, CountTypeOK, Pages
  <1> QED BY <1>1, <1>2, <1>3, <1>4, <1>5, <1>6, <1>7, <1>8, <1>9 DEF CountNext, ParsePq, PrepareJob

-----------------------------------------------------------------------------
(* The count of a v2 job.                                                    *)

LEMMA SameJob ==
    ASSUME UNCHANGED job
    PROVE  /\ Pages' = Pages /\ EnvelopeOk' = EnvelopeOk /\ Alone' = Alone
           /\ \A n : PagesOk(n)' = PagesOk(n)
  BY DEF Pages, EnvelopeOk, Alone, PagesOk, PageOk, Accepts

LEMMA CheckPageKeeps ==
    ASSUME CountTypeOK, LayInv, CheckPage
    PROVE  LayInv'
  <1>1. /\ pc = "check" /\ pc' = "check" /\ at' = at + 1 /\ EnvelopeOk /\ PageOk(Pages[at + 1])
        /\ UNCHANGED <<job, copy, printed>>
    BY DEF CheckPage
  <1>2. PagesOk(at) /\ copy = 0 /\ printed = 0
    BY <1>1 DEF LayInv
  <1>3. at \in Nat
    BY <1>1 DEF CountTypeOK
  <1>4. \A i \in 1..(at + 1) : i \in 1..at \/ i = at + 1
    BY <1>3
  <1>5. PagesOk(at + 1)
    BY <1>1, <1>2, <1>4 DEF PagesOk
  <1>6. PagesOk(at') /\ EnvelopeOk'
    BY <1>1, <1>5, SameJob
  <1>7. PagesOk(at)'
    BY <1>1, <1>5, SameJob DEF PagesOk, PageOk, Accepts, Pages
  <1> QED BY <1>1, <1>2, <1>6, <1>7 DEF LayInv

LEMMA BeginLayoutKeeps ==
    ASSUME CountTypeOK, LayInv, BeginLayout
    PROVE  LayInv'
  <1>1. /\ pc = "check" /\ pc' = "lay" /\ at = Len(Pages) /\ at' = 0 /\ EnvelopeOk
        /\ UNCHANGED <<job, copy, printed>>
    BY DEF BeginLayout, lay
  <1>2. PagesOk(Len(Pages)) /\ copy = 0 /\ printed = 0
    BY <1>1 DEF LayInv
  <1>3. Len(Pages) \in Nat /\ job.copies \in Nat
    BY <1>1, RequestAssumption DEF CountTypeOK, Pages
  <1>4. 0 < Len(Pages) /\ 0 <= job.copies /\ Len(Pages) * 0 + 0 = 0
    BY <1>1, <1>3 DEF EnvelopeOk
  <1>5. EnvelopeOk' /\ PagesOk(Len(Pages))'
    BY <1>1, <1>2, SameJob DEF PagesOk, PageOk, Accepts, Pages
  <1>6. Pages' = Pages
    BY <1>1, SameJob
  <1> QED BY <1>1, <1>2, <1>4, <1>5, <1>6 DEF LayInv

LEMMA LayPageKeeps ==
    ASSUME CountTypeOK, LayInv, LayPage
    PROVE  LayInv'
  <1> DEFINE n == Len(Pages)
             q == Quantity(Payload(Pages[at + 1]))
  <1>1. /\ pc = "lay" /\ pc' = "lay" /\ copy < job.copies /\ job' = job
        /\ printed' = printed + q
        /\ IF at + 1 < n THEN at' = at + 1 /\ copy' = copy ELSE at' = 0 /\ copy' = copy + 1
    BY DEF LayPage
  <1>2. /\ EnvelopeOk /\ PagesOk(n) /\ at < n
        /\ n * copy + at <= printed
        /\ Alone => n * copy + at = printed
    BY <1>1 DEF LayInv
  <1>3. /\ Pages \in Seq(Artifact) /\ n \in Nat /\ at \in Nat /\ copy \in Nat
        /\ job.copies \in Nat /\ printed \in Nat
    BY <1>1, RequestAssumption DEF CountTypeOK, Pages
  <1>4. at + 1 \in 1..n
    BY <1>2, <1>3
  <1>5. Pages[at + 1] \in Artifact
    BY <1>3, <1>4, ElementOfSeq
  <1>6. q \in Nat /\ q >= 1 /\ (~MultiCopy(Payload(Pages[at + 1])) => q = 1)
    BY <1>5, PayloadIs, QuantityIs
  <1>7. Alone => q = 1
    <2>1. CASE job.copies > 1
      <3>1. PageOk(Pages[at + 1])
        BY <1>2, <1>4 DEF PagesOk
      <3>2. ~MultiCopy(Payload(Pages[at + 1]))
        <4>1. CASE Pages[at + 1].mime = "raster"
          <5>1. Payload(Pages[at + 1]) = <<1>>
            BY <3>1, <4>1 DEF PageOk, Payload
          <5> QED BY <5>1 DEF MultiCopy
        <4>2. CASE Pages[at + 1].mime # "raster"
          BY <2>1, <3>1, <4>2 DEF PageOk, Payload
        <4> QED BY <4>1, <4>2
      <3> QED BY <1>6, <3>2
    <2>2. CASE \A i \in DOMAIN Pages : ~MultiCopy(Payload(Pages[i]))
      <3>1. at + 1 \in DOMAIN Pages
        BY <1>3, <1>4
      <3> QED BY <1>6, <2>2, <3>1
    <2> QED BY <2>1, <2>2 DEF Alone
  <1>8. PagesOk(n)' /\ EnvelopeOk' /\ Pages' = Pages /\ Alone' = Alone
    BY <1>1, <1>2, SameJob DEF PagesOk, PageOk, Accepts, Pages
  <1> HIDE DEF n, q
  <1>9. n * (copy + 1) + 0 = n * copy + n
    BY <1>3
  <1>10. n * copy \in Nat
    BY <1>3
  <1>11. /\ at' < n /\ copy' <= job.copies /\ (copy' = job.copies => at' = 0)
         /\ n * copy' + at' = n * copy + at + 1
    BY <1>1, <1>2, <1>3, <1>4, <1>9, <1>10
  <1>12. n * copy' + at' <= printed' /\ (Alone => n * copy' + at' = printed')
    BY <1>1, <1>2, <1>3, <1>6, <1>7, <1>10, <1>11
  <1> QED BY <1>1, <1>8, <1>11, <1>12 DEF LayInv, n

LEMMA PreparedKeeps ==
    ASSUME CountTypeOK, LayInv, Prepared
    PROVE  LayInv'
  <1>1. /\ pc = "lay" /\ pc' = "prepared" /\ copy = job.copies
        /\ labels' = Len(Pages) * job.copies /\ UNCHANGED <<job, at, copy, printed>>
    BY DEF Prepared
  <1>2. /\ EnvelopeOk /\ PagesOk(Len(Pages)) /\ at < Len(Pages) /\ copy <= job.copies
        /\ (copy = job.copies => at = 0)
        /\ Len(Pages) * copy + at <= printed
        /\ Alone => Len(Pages) * copy + at = printed
    BY <1>1 DEF LayInv
  <1>3. PagesOk(Len(Pages))' /\ EnvelopeOk' /\ Pages' = Pages /\ Alone' = Alone
    BY <1>1, <1>2, SameJob DEF PagesOk, PageOk, Accepts, Pages
  <1> QED BY <1>1, <1>2, <1>3 DEF LayInv

LEMMA LayStep == CountTypeOK /\ LayInv /\ [CountNext]_countVars => LayInv'
  <1> SUFFICES ASSUME CountTypeOK, LayInv, [CountNext]_countVars PROVE LayInv'
    OBVIOUS
  <1>1. CASE ParsePq \/ Refuse
    <2>1. pc' \in {"read", "counted", "unread", "refused"}
      BY <1>1 DEF ParsePq, ReadOn, FindNumber, EndOfText, ReadFails, Refuse
    <2> QED BY <2>1 DEF LayInv
  <1>2. CASE UNCHANGED countVars
    <2>1. /\ Pages' = Pages /\ EnvelopeOk' = EnvelopeOk /\ Alone' = Alone
          /\ PagesOk(at)' = PagesOk(at) /\ PagesOk(Len(Pages))' = PagesOk(Len(Pages))
      BY <1>2 DEF countVars, Pages, EnvelopeOk, Alone, PagesOk, PageOk, Accepts
    <2> QED BY <1>2, <2>1 DEF countVars, lay, LayInv
  <1> QED BY <1>1, <1>2, CheckPageKeeps, BeginLayoutKeeps, LayPageKeeps, PreparedKeeps
          DEF CountNext, PrepareJob

LEMMA LayInit == CountInit => LayInv
  <1> SUFFICES ASSUME CountInit PROVE LayInv
    OBVIOUS
  <1> QED BY DEF CountInit, LayInv, PagesOk

LEMMA LaidOutIsCounted == CountTypeOK /\ LayInv => LabelsCounted
  <1> SUFFICES ASSUME CountTypeOK, LayInv, pc = "prepared" PROVE LabelsCounted
    BY DEF LabelsCounted
  <1>1. /\ copy = job.copies /\ labels = Len(Pages) * job.copies /\ at = 0
        /\ Len(Pages) * copy + at <= printed
        /\ Alone => Len(Pages) * copy + at = printed
    BY DEF LayInv
  <1>2. Len(Pages) \in Nat /\ job.copies \in Nat
    BY RequestAssumption DEF CountTypeOK, Pages
  <1>3. Len(Pages) * copy + at = labels
    BY <1>1, <1>2
  <1>4. labels <= printed /\ (Alone => labels = printed)
    BY <1>1, <1>3
  <1> QED BY <1>4 DEF LabelsCounted, Alone

-----------------------------------------------------------------------------
(* Theorems.                                                                 *)

Inv == CountTypeOK /\ ScanSafety /\ LayInv

\* What parse_pq has kept is the end of what it read, no ^PQ was passed over if each has
\* a number, and what prepare_job has laid out prints a label for each page and copy.
THEOREM CountInv == CountSpec => []Inv
  <1>1. CountInit => Inv
    BY TypeInit, ScanInit, LayInit DEF Inv
  <1>2. Inv /\ [CountNext]_countVars => Inv'
    BY TypeStep, ScanStep, LayStep DEF Inv, ScanSafety
  <1> QED BY <1>1, <1>2, PTL DEF CountSpec

\* Type correctness: whatever the text and the reads, parse_pq keeps no more than its
\* carry, and a count has digits that fit.
THEOREM CountTypes == CountSpec => []CountTypeOK
  <1>1. Inv => CountTypeOK
    BY DEF Inv
  <1> QED BY <1>1, CountInv, PTL

\* parse_pq: wherever the reads cut a text of whatever length, the count found is a
\* number of the text or its beginning, of the first ^PQ if each has a number.
THEOREM CutShortAtMost == CountSpec => []PqCutShort
  <1>1. Inv => PqCutShort
    BY DEF Inv, ScanSafety
  <1> QED BY <1>1, CountInv, PTL

\* prepare_job: a v2 job is charged with the labels it prints, for any number of pages
\* and copies, and with fewer only if its single copy has a ^PQ above 1.
THEOREM PreparedAsCounted == CountSpec => []LabelsCounted
  <1>1. Inv => LabelsCounted
    BY LaidOutIsCounted DEF Inv
  <1> QED BY <1>1, CountInv, PTL
=================================================================================
