-------------------------- MODULE FramePull_proofs --------------------------
(***************************************************************************)
(* Theorems about FramePull for any number of threads, frames, requests    *)
(* and attempts, any limits and any window, and every failure.             *)
(* First the sliding-window limiter: the invariant a service that uses it  *)
(* keeps, and a lemma for each of its operations.                          *)
(***************************************************************************)
EXTENDS FramePull, TLAPS, FiniteSetTheorems, SequenceTheorems, WellFoundedInduction

-----------------------------------------------------------------------------
(* The deque *)

\* A set of natural numbers has a least element.
LEMMA LeastOf ==
  ASSUME NEW T \in SUBSET Nat, T # {}
  PROVE  \E m \in T : \A k \in T : m <= k
<1>. DEFINE R == OpToRel(<, Nat)
<1>1. \A x, y \in Nat : x < y => <<x, y>> \in R
  BY DEF OpToRel
<1>2. IsWellFoundedOn(R, Nat)
  BY NatLessThanWellFounded
<1>. HIDE DEF R
<1>3. PICK m \in T : \A y \in T : ~(<<y, m>> \in R)
  BY <1>2, WFMin, Zenon
<1>4. \A k \in T : ~(k < m)
  BY <1>1, <1>3, Zenon
<1>5. \A k \in T : m <= k
  BY <1>4
<1>. QED
  BY <1>5

\* What popleft has left: a suffix, and what it has dropped is too old.
LEMMA KeptIsSuffix ==
  ASSUME NEW w \in Seq(Nat), NEW stamp \in Nat
  PROVE  \E n \in 0 .. Len(w) :
           /\ Kept(w, stamp) \in Seq(Nat)
           /\ Len(Kept(w, stamp)) = Len(w) - n
           /\ \A k \in 1 .. Len(w) - n : Kept(w, stamp)[k] = w[n + k]
           /\ \A i \in 1 .. n : w[i] + Window < stamp
<1>. DEFINE Stops(k) == k < Len(w) => w[k + 1] + Window >= stamp
            Old(k) == \A i \in 1 .. k : w[i] + Window < stamp
<1>0. Len(w) \in Nat /\ \A i \in 1 .. Len(w) : w[i] \in Nat
  OBVIOUS
<1>1. \E k \in 0 .. Len(w) : Old(k) /\ Stops(k)
  <2>. DEFINE T == {k \in 0 .. Len(w) : Stops(k)}
  <2>1. Len(w) \in T /\ T \subseteq Nat
    BY <1>0
  <2>2. PICK m \in T : \A k \in T : m <= k
    BY <2>1, LeastOf
  <2>2a. m \in 0 .. Len(w) /\ Stops(m)
    BY <2>2
  <2>3. ASSUME NEW i \in 1 .. m PROVE w[i] + Window < stamp
    <3>1. i - 1 \in 0 .. Len(w) /\ i - 1 < m /\ i - 1 + 1 = i /\ i \in 1 .. Len(w)
      BY <1>0, <2>2a
    <3>2. i - 1 \notin T
      <4>. HIDE DEF T
      <4>. QED
        BY <2>1, <2>2, <3>1
    <3>. QED
      BY <3>1, <3>2, <1>0, LimiterAssumption
  <2>. QED
    BY <2>2a, <2>3
<1>. DEFINE n == CHOOSE k \in 0 .. Len(w) : Old(k) /\ Stops(k)
<1>2. n \in 0 .. Len(w) /\ Old(n)
  BY <1>1, Zenon
<1>3. Kept(w, stamp) = SubSeq(w, n + 1, Len(w))
  BY DEF Kept
<1>. HIDE DEF n
<1>4. /\ SubSeq(w, n + 1, Len(w)) \in Seq(Nat)
      /\ Len(SubSeq(w, n + 1, Len(w))) = Len(w) - n
      /\ \A k \in 1 .. Len(w) - n : SubSeq(w, n + 1, Len(w))[k] = w[n + k]
  BY <1>0, <1>2, SubSeqProperties
<1>. QED
  BY <1>2, <1>3, <1>4

Request == [stamp : Nat, at : Nat]

\* The deque w goes with the requests p that have passed until now: it holds
\* the stamps of the last of them, the others' are more than a window old.
GoesWith(w, p, now) ==
  /\ Len(w) <= Len(p)
  /\ \A k \in 1 .. Len(w) : w[k] = p[Len(p) - Len(w) + k].stamp
  /\ \A k \in 1 .. Len(p) - Len(w) : p[k].stamp + Window < now

\* Nobody has passed with a stamp that was still to come.
Stamped(p, now) == \A k \in 1 .. Len(p) : p[k].stamp <= p[k].at /\ p[k].at <= now

Within(p, start) == {k \in DOMAIN p : p[k].stamp >= start /\ p[k].at <= start + Window}

\* AdmittedPerWindow for one limiter, and for windows still to come as well.
WithinLimit(p, max) == \A start \in Nat : Cardinality(Within(p, start)) <= max

LEMMA RequestAt ==
  ASSUME NEW p \in Seq(Request)
  PROVE  /\ Len(p) \in Nat /\ DOMAIN p = 1 .. Len(p)
         /\ \A k \in 1 .. Len(p) : p[k].stamp \in Nat /\ p[k].at \in Nat
<1>1. Len(p) \in Nat /\ DOMAIN p = 1 .. Len(p) /\ \A k \in 1 .. Len(p) : p[k] \in Request
  OBVIOUS
<1>. QED
  BY <1>1 DEF Request

\* Dropping what is too old leaves a deque that goes with the same requests.
LEMMA KeptGoesWith ==
  ASSUME NEW w \in Seq(Nat), NEW p \in Seq(Request), NEW now \in Nat,
         NEW stamp \in Nat, stamp <= now, GoesWith(w, p, now)
  PROVE  Kept(w, stamp) \in Seq(Nat) /\ GoesWith(Kept(w, stamp), p, now)
<1>. DEFINE kept == Kept(w, stamp)
<1>1. PICK n \in 0 .. Len(w) :
        /\ kept \in Seq(Nat)
        /\ Len(kept) = Len(w) - n
        /\ \A k \in 1 .. Len(w) - n : kept[k] = w[n + k]
        /\ \A i \in 1 .. n : w[i] + Window < stamp
  BY KeptIsSuffix
<1>. HIDE DEF kept
<1>2. /\ Len(w) \in Nat /\ Len(p) \in Nat /\ Len(w) <= Len(p)
      /\ \A k \in 1 .. Len(p) : p[k].stamp \in Nat
  BY RequestAt DEF GoesWith
<1>3. ASSUME NEW k \in 1 .. Len(kept)
      PROVE  kept[k] = p[Len(p) - Len(kept) + k].stamp
  <2>1. n + k \in 1 .. Len(w) /\ kept[k] = w[n + k]
    BY <1>1, <1>2
  <2>2. Len(p) - Len(w) + (n + k) = Len(p) - Len(kept) + k
    BY <1>1, <1>2
  <2>3. w[n + k] = p[Len(p) - Len(w) + (n + k)].stamp
    BY <2>1 DEF GoesWith
  <2>. QED
    BY <2>1, <2>2, <2>3
<1>4. ASSUME NEW k \in 1 .. Len(p) - Len(kept)
      PROVE  p[k].stamp + Window < now
  <2>1. CASE k <= Len(p) - Len(w)
    <3>1. k \in 1 .. Len(p) - Len(w)
      BY <1>1, <1>2, <2>1
    <3>. QED
      BY <3>1 DEF GoesWith
  <2>2. CASE k > Len(p) - Len(w)
    <3>. DEFINE i == k - (Len(p) - Len(w))
    <3>1. i \in 1 .. n /\ i \in 1 .. Len(w) /\ Len(p) - Len(w) + i = k /\ k \in 1 .. Len(p)
      BY <1>1, <1>2, <2>2
    <3>. HIDE DEF i
    <3>2. w[i] = p[k].stamp /\ w[i] + Window < stamp
      BY <1>1, <3>1 DEF GoesWith
    <3>. QED
      BY <1>2, <3>1, <3>2, LimiterAssumption
  <2>. QED
    BY <1>1, <1>2, <2>1, <2>2
<1>5. Len(kept) <= Len(p)
  BY <1>1, <1>2
<1>6. GoesWith(kept, p, now)
  BY <1>3, <1>4, <1>5 DEF GoesWith
<1>. QED
  BY <1>1, <1>6 DEF kept

\* A window that starts later sees a later part of the requests.
LEMMA IntervalSize ==
  ASSUME NEW n \in Nat
  PROVE  IsFiniteSet(1 .. n) /\ Cardinality(1 .. n) = n
<1>1. IsFiniteSet(1 .. n) /\ Cardinality(1 .. n) = IF 1 > n THEN 0 ELSE n - 1 + 1
  BY FS_Interval, 1 \in Int, n \in Int
<1>. QED
  BY <1>1

LEMMA WithinFinite ==
  ASSUME NEW p \in Seq(Request), NEW start \in Nat
  PROVE  IsFiniteSet(Within(p, start)) /\ Cardinality(Within(p, start)) <= Len(p)
<1>1. IsFiniteSet(1 .. Len(p)) /\ Cardinality(1 .. Len(p)) = Len(p)
  BY IntervalSize
<1>2. Within(p, start) \in SUBSET (1 .. Len(p))
  BY DEF Within
<1>. QED
  BY <1>1, <1>2, FS_Subset


\* A request that passes goes to the end of both, and the limit still holds:
\* a window that sees it sees no request the deque has dropped.
LEMMA AppendGoesWith ==
  ASSUME NEW w \in Seq(Nat), NEW p \in Seq(Request), NEW now \in Nat,
         NEW stamp \in Nat, GoesWith(w, p, now)
  PROVE  GoesWith(Append(w, stamp), Append(p, [stamp |-> stamp, at |-> now]), now)
<1>. DEFINE r == [stamp |-> stamp, at |-> now]
            w2 == Append(w, stamp)
            p2 == Append(p, r)
<1>1. /\ Len(w) \in Nat /\ Len(p) \in Nat /\ Len(w) <= Len(p)
      /\ Len(w2) = Len(w) + 1 /\ Len(p2) = Len(p) + 1
      /\ \A k \in 1 .. Len(w) : w2[k] = w[k]
      /\ \A k \in 1 .. Len(p) : p2[k] = p[k]
      /\ w2[Len(w) + 1] = stamp /\ p2[Len(p) + 1] = r /\ r.stamp = stamp
  BY DEF GoesWith, Request
<1>. HIDE DEF r, w2, p2
<1>2. ASSUME NEW k \in 1 .. Len(w2)
      PROVE  w2[k] = p2[Len(p2) - Len(w2) + k].stamp
  <2>1. Len(p2) - Len(w2) + k = Len(p) - Len(w) + k
    BY <1>1
  <2>2. CASE k = Len(w) + 1
    <3>1. Len(p) - Len(w) + k = Len(p) + 1
      BY <1>1, <2>2
    <3>. QED
      BY <1>1, <2>1, <2>2, <3>1
  <2>3. CASE k # Len(w) + 1
    <3>1. k \in 1 .. Len(w) /\ Len(p) - Len(w) + k \in 1 .. Len(p)
      BY <1>1, <2>3
    <3>2. w[k] = p[Len(p) - Len(w) + k].stamp
      BY <3>1 DEF GoesWith
    <3>. QED
      BY <1>1, <2>1, <3>1, <3>2
  <2>. QED
    BY <2>2, <2>3
<1>3. ASSUME NEW k \in 1 .. Len(p2) - Len(w2)
      PROVE  p2[k].stamp + Window < now
  <2>1. k \in 1 .. Len(p) - Len(w) /\ k \in 1 .. Len(p)
    BY <1>1
  <2>. QED
    BY <1>1, <2>1 DEF GoesWith
<1>4. Len(w2) <= Len(p2)
  BY <1>1
<1>5. GoesWith(w2, p2, now)
  BY <1>2, <1>3, <1>4 DEF GoesWith
<1>. QED
  BY <1>5 DEF w2, p2, r

LEMMA AppendWithinLimit ==
  ASSUME NEW w \in Seq(Nat), NEW p \in Seq(Request), NEW now \in Nat, NEW max \in Nat,
         NEW stamp \in Nat, GoesWith(w, p, now), WithinLimit(p, max), Len(w) < max
  PROVE  WithinLimit(Append(p, [stamp |-> stamp, at |-> now]), max)
<1>. DEFINE r == [stamp |-> stamp, at |-> now]
            p2 == Append(p, r)
<1>0. r \in Request /\ r.stamp = stamp /\ r.at = now
  BY DEF Request
<1>. HIDE DEF r
<1>1. /\ Len(w) \in Nat /\ Len(p) \in Nat /\ Len(w) <= Len(p)
      /\ Len(p2) = Len(p) + 1 /\ p2 \in Seq(Request)
      /\ \A k \in 1 .. Len(p) : p2[k] = p[k] /\ p2[k].stamp \in Nat /\ p2[k].at \in Nat
      /\ p2[Len(p) + 1] = r /\ r.stamp = stamp /\ r.at = now
      /\ DOMAIN p = 1 .. Len(p) /\ DOMAIN p2 = 1 .. Len(p2)
  <2>1. Len(w) \in Nat /\ Len(p) \in Nat /\ Len(w) <= Len(p)
    BY DEF GoesWith
  <2>2. /\ p2 \in Seq(Request) /\ Len(p2) = Len(p) + 1 /\ p2[Len(p) + 1] = r
        /\ \A k \in 1 .. Len(p) : p2[k] = p[k]
    BY <1>0, AppendProperties
  <2>. HIDE DEF p2
  <2>. QED
    BY <1>0, <2>1, <2>2, RequestAt
<1>. HIDE DEF p2
<1>2. SUFFICES ASSUME NEW start \in Nat
               PROVE  Cardinality(Within(p2, start)) <= max
  BY DEF WithinLimit, p2, r
<1>3. CASE Len(p) + 1 \notin Within(p2, start)
  <2>1. ASSUME NEW k PROVE k \in Within(p2, start) <=> k \in Within(p, start)
    <3>1. k \in 1 .. Len(p2) <=> k \in 1 .. Len(p) \/ k = Len(p) + 1
      BY <1>1
    <3>. QED
      BY <1>1, <1>3, <3>1, Zenon DEF Within
  <2>2. Within(p2, start) = Within(p, start)
    BY <2>1
  <2>. QED
    BY <2>2 DEF WithinLimit
<1>4. CASE Len(p) + 1 \in Within(p2, start)
  <2>. DEFINE from == Len(p) - Len(w) + 1
              to   == Len(p) + 1
  <2>1. now <= start + Window
    BY <1>1, <1>4 DEF Within
  <2>2. Within(p2, start) \in SUBSET (from .. to)
    <3>. SUFFICES ASSUME NEW k \in Within(p2, start) PROVE k \in from .. to
      OBVIOUS
    <3>1. k \in 1 .. Len(p) + 1 /\ p2[k].stamp >= start
      BY <1>1 DEF Within
    <3>2. CASE k \in 1 .. Len(p) - Len(w)
      <4>1. k \in 1 .. Len(p) /\ p2[k].stamp + Window < now
        BY <1>1, <3>2 DEF GoesWith
      <4>. QED
        BY <1>1, <2>1, <3>1, <4>1, LimiterAssumption
    <3>3. CASE k \notin 1 .. Len(p) - Len(w)
      BY <1>1, <3>1, <3>3
    <3>. QED
      BY <3>2, <3>3
  <2>3. from \in Int /\ to \in Int /\ from <= to /\ to - from + 1 = Len(w) + 1
    BY <1>1
  <2>. HIDE DEF from, to
  <2>4. IsFiniteSet(from .. to) /\ Cardinality(from .. to) = Len(w) + 1
    <3>1. /\ IsFiniteSet(from .. to)
          /\ Cardinality(from .. to) = IF from > to THEN 0 ELSE to - from + 1
      BY <2>3, FS_Interval
    <3>. QED
      BY <2>3, <3>1
  <2>5. IsFiniteSet(Within(p2, start)) /\ Cardinality(Within(p2, start)) <= Len(w) + 1
    BY <2>2, <2>4, FS_Subset
  <2>. QED
    BY <1>1, <2>5, FS_CardinalityType
<1>. QED
  BY <1>3, <1>4

-----------------------------------------------------------------------------
(* The invariant *)

LimiterTypeOK ==
  /\ clock \in Nat
  /\ window \in [Limiters -> Seq(Nat)]
  /\ passed \in [Limiters -> Seq(Request)]

LimiterInv ==
  /\ LimiterTypeOK
  /\ \A l \in Limiters : /\ GoesWith(window[l], passed[l], clock)
                         /\ Stamped(passed[l], clock)
                         /\ WithinLimit(passed[l], Max[l])

LEMMA LimiterInvAdmitted == LimiterInv => AdmittedPerWindow
<1>. SUFFICES ASSUME LimiterInv, NEW l \in Limiters, NEW start \in 0 .. clock
              PROVE  Cardinality(Within(passed[l], start)) <= Max[l]
  BY DEF AdmittedPerWindow, Within
<1>. start \in Nat
  BY DEF LimiterInv, LimiterTypeOK
<1>. QED
  BY DEF LimiterInv, WithinLimit

LEMMA LimiterInitInv == LimiterInit => LimiterInv
<1>. SUFFICES ASSUME LimiterInit PROVE LimiterInv
  OBVIOUS
<1>1. PICK full \in SUBSET Limiters :
        /\ window = [l \in Limiters |-> [k \in 1 .. (IF l \in full THEN Max[l] ELSE 0) |-> 0]]
        /\ passed = [l \in Limiters |->
             [k \in 1 .. (IF l \in full THEN Max[l] ELSE 0) |-> [stamp |-> 0, at |-> 0]]]
  BY DEF LimiterInit
<1>2. ASSUME NEW l \in Limiters
      PROVE  \E n \in 0 .. Max[l] :
               /\ window[l] = [k \in 1 .. n |-> 0]
               /\ passed[l] = [k \in 1 .. n |-> [stamp |-> 0, at |-> 0]]
  BY <1>1, LimiterAssumption
<1>3. ASSUME NEW l \in Limiters
      PROVE  /\ window[l] \in Seq(Nat)
             /\ passed[l] \in Seq(Request)
             /\ Len(window[l]) = Len(passed[l]) /\ Len(passed[l]) \in Nat
             /\ Len(passed[l]) <= Max[l]
             /\ \A k \in 1 .. Len(passed[l]) :
                  window[l][k] = 0 /\ passed[l][k].stamp = 0 /\ passed[l][k].at = 0
  <2>1. PICK n \in 0 .. Max[l] : /\ window[l] = [k \in 1 .. n |-> 0]
                                /\ passed[l] = [k \in 1 .. n |-> [stamp |-> 0, at |-> 0]]
    BY <1>2
  <2>2. n \in Nat /\ n <= Max[l]
    BY <2>1, LimiterAssumption
  <2>3. [k \in 1 .. n |-> 0] \in [1 .. n -> Nat]
    OBVIOUS
  <2>4. [k \in 1 .. n |-> [stamp |-> 0, at |-> 0]] \in [1 .. n -> Request]
    BY DEF Request
  <2>5. window[l] \in Seq(Nat) /\ passed[l] \in Seq(Request)
    BY <2>1, <2>2, <2>3, <2>4, SeqDef
  <2>6. Len(window[l]) = n /\ Len(passed[l]) = n
    BY <2>1, <2>2
  <2>. QED
    BY <2>1, <2>2, <2>5, <2>6
<1>4. clock = 0
  BY DEF LimiterInit
<1>5. LimiterTypeOK
  BY <1>1, <1>3, <1>4 DEF LimiterTypeOK
<1>6. ASSUME NEW l \in Limiters
      PROVE  GoesWith(window[l], passed[l], clock) /\ Stamped(passed[l], clock)
  <2>0. Len(window[l]) = Len(passed[l]) /\ Len(passed[l]) \in Nat
    BY <1>3
  <2>1. ASSUME NEW k \in 1 .. Len(window[l])
        PROVE  window[l][k] = passed[l][Len(passed[l]) - Len(window[l]) + k].stamp
    <3>1. Len(passed[l]) - Len(window[l]) + k = k /\ k \in 1 .. Len(passed[l])
      BY <2>0
    <3>. QED
      BY <1>3, <3>1
  <2>2. 1 .. Len(passed[l]) - Len(window[l]) = {} /\ Len(window[l]) <= Len(passed[l])
    BY <2>0
  <2>3. GoesWith(window[l], passed[l], clock)
    BY <2>1, <2>2 DEF GoesWith
  <2>4. Stamped(passed[l], clock)
    <3>1. \A k \in 1 .. Len(passed[l]) : passed[l][k].stamp = 0 /\ passed[l][k].at = 0
      BY <1>3
    <3>. QED
      BY <1>4, <3>1 DEF Stamped
  <2>. QED
    BY <2>3, <2>4
<1>7. ASSUME NEW l \in Limiters
      PROVE  WithinLimit(passed[l], Max[l])
  <2>. SUFFICES ASSUME NEW start \in Nat
                PROVE  Cardinality(Within(passed[l], start)) <= Max[l]
    BY DEF WithinLimit
  <2>1. /\ IsFiniteSet(Within(passed[l], start))
        /\ Cardinality(Within(passed[l], start)) <= Len(passed[l])
    BY <1>3, WithinFinite
  <2>. QED
    BY <1>3, <2>1, FS_CardinalityType, LimiterAssumption
<1>. QED
  BY <1>5, <1>6, <1>7 DEF LimiterInv

\* Time passes: what was too old still is.
LEMMA TickLimiter ==
  ASSUME LimiterInv, clock' = clock + 1, UNCHANGED <<window, passed>>
  PROVE  LimiterInv'
<1>1. LimiterTypeOK'
  BY DEF LimiterInv, LimiterTypeOK
<1>2. ASSUME NEW l \in Limiters
      PROVE  GoesWith(window[l], passed[l], clock + 1) /\ Stamped(passed[l], clock + 1)
  <2>1. /\ Len(window[l]) \in Nat /\ Len(passed[l]) \in Nat /\ clock \in Nat
        /\ Len(window[l]) <= Len(passed[l])
        /\ \A k \in 1 .. Len(passed[l]) : passed[l][k].stamp \in Nat /\ passed[l][k].at \in Nat
    <3>1. passed[l] \in Seq(Request) /\ window[l] \in Seq(Nat) /\ clock \in Nat
      BY DEF LimiterInv, LimiterTypeOK
    <3>2. Len(window[l]) <= Len(passed[l])
      BY DEF LimiterInv, GoesWith
    <3>. QED
      BY <3>1, <3>2, RequestAt
  <2>2. ASSUME NEW k \in 1 .. Len(passed[l]) - Len(window[l])
        PROVE  passed[l][k].stamp + Window < clock + 1
    <3>1. passed[l][k].stamp + Window < clock
      BY DEF LimiterInv, GoesWith
    <3>2. k \in 1 .. Len(passed[l])
      BY <2>1
    <3>. QED
      BY <2>1, <3>1, <3>2, LimiterAssumption
  <2>3. Stamped(passed[l], clock + 1)
    BY <2>1 DEF LimiterInv, Stamped
  <2>4. GoesWith(window[l], passed[l], clock)
    BY DEF LimiterInv
  <2>. QED
    BY <2>2, <2>3, <2>4 DEF GoesWith
<1>. QED
  BY <1>1, <1>2 DEF LimiterInv

LEMMA AdmitLimiter ==
  ASSUME LimiterInv, NEW l \in Limiters, NEW stamp \in Nat, stamp <= clock, Admit(l, stamp)
  PROVE  LimiterInv'
<1>. DEFINE kept == Kept(window[l], stamp)
            r == [stamp |-> stamp, at |-> clock]
<1>1. /\ window[l] \in Seq(Nat) /\ passed[l] \in Seq(Request) /\ clock \in Nat /\ Max[l] \in Nat
      /\ GoesWith(window[l], passed[l], clock) /\ Stamped(passed[l], clock)
      /\ WithinLimit(passed[l], Max[l])
  BY LimiterAssumption DEF LimiterInv, LimiterTypeOK
<1>2. kept \in Seq(Nat) /\ GoesWith(kept, passed[l], clock)
  BY <1>1, KeptGoesWith
<1>3. /\ Len(kept) < Max[l] /\ clock' = clock
      /\ window' = [window EXCEPT ![l] = Append(kept, stamp)]
      /\ passed' = [passed EXCEPT ![l] = Append(@, r)]
  BY DEF Admit
<1>. HIDE DEF kept
<1>4. GoesWith(Append(kept, stamp), Append(passed[l], r), clock)
  BY <1>1, <1>2, AppendGoesWith
<1>5. WithinLimit(Append(passed[l], r), Max[l])
  BY <1>1, <1>2, <1>3, AppendWithinLimit
<1>6. Append(kept, stamp) \in Seq(Nat) /\ Append(passed[l], r) \in Seq(Request)
  BY <1>1, <1>2, AppendProperties DEF Request
<1>7. Stamped(Append(passed[l], r), clock)
  <2>. SUFFICES ASSUME NEW k \in 1 .. Len(Append(passed[l], r))
                PROVE  /\ Append(passed[l], r)[k].stamp <= Append(passed[l], r)[k].at
                       /\ Append(passed[l], r)[k].at <= clock
    BY DEF Stamped
  <2>1. CASE k = Len(passed[l]) + 1
    BY <1>1, <2>1
  <2>2. CASE k # Len(passed[l]) + 1
    <3>1. k \in 1 .. Len(passed[l]) /\ Append(passed[l], r)[k] = passed[l][k]
      BY <1>1, <2>2
    <3>. QED
      BY <1>1, <3>1 DEF Stamped
  <2>. QED
    BY <2>1, <2>2
<1>. HIDE DEF r
<1>8. LimiterTypeOK'
  BY <1>1, <1>3, <1>6 DEF LimiterInv, LimiterTypeOK
<1>9. ASSUME NEW m \in Limiters
      PROVE  /\ GoesWith(window'[m], passed'[m], clock)
             /\ Stamped(passed'[m], clock)
             /\ WithinLimit(passed'[m], Max[m])
  <2>1. CASE m = l
    <3>1. window'[m] = Append(kept, stamp) /\ passed'[m] = Append(passed[l], r)
      BY <1>3, <2>1 DEF LimiterInv, LimiterTypeOK
    <3>. QED
      BY <1>4, <1>5, <1>7, <2>1, <3>1
  <2>2. CASE m # l
    <3>1. window'[m] = window[m] /\ passed'[m] = passed[m]
      BY <1>3, <2>2 DEF LimiterInv, LimiterTypeOK
    <3>. QED
      BY <3>1 DEF LimiterInv
  <2>. QED
    BY <2>1, <2>2
<1>. QED
  BY <1>3, <1>8, <1>9 DEF LimiterInv

LEMMA RefuseLimiter ==
  ASSUME LimiterInv, NEW l \in Limiters, NEW stamp \in Nat, stamp <= clock, Refuse(l, stamp)
  PROVE  LimiterInv'
<1>. DEFINE kept == Kept(window[l], stamp)
<1>1. kept \in Seq(Nat) /\ GoesWith(kept, passed[l], clock)
  BY KeptGoesWith DEF LimiterInv, LimiterTypeOK
<1>2. window' = [window EXCEPT ![l] = kept] /\ passed' = passed /\ clock' = clock
  BY DEF Refuse
<1>. HIDE DEF kept
<1>3. LimiterTypeOK'
  BY <1>1, <1>2 DEF LimiterInv, LimiterTypeOK
<1>4. ASSUME NEW m \in Limiters PROVE GoesWith(window'[m], passed[m], clock)
  <2>1. window'[m] = IF m = l THEN kept ELSE window[m]
    BY <1>2 DEF LimiterInv, LimiterTypeOK
  <2>. QED
    BY <1>1, <2>1 DEF LimiterInv
<1>. QED
  BY <1>2, <1>3, <1>4 DEF LimiterInv

\* A restart empties the deque, and the requests counted are those since.
LEMMA ForgetLimiter ==
  ASSUME LimiterInv, NEW l \in Limiters, Forget(l)
  PROVE  LimiterInv'
<1>. DEFINE none == << >>
<1>1. /\ window' = [window EXCEPT ![l] = none] /\ passed' = [passed EXCEPT ![l] = none]
      /\ clock' = clock
  BY DEF Forget
<1>2. none \in Seq(Nat) /\ none \in Seq(Request) /\ Len(none) = 0
  OBVIOUS
<1>3. GoesWith(none, none, clock) /\ Stamped(none, clock)
  BY <1>2 DEF GoesWith, Stamped
<1>4. WithinLimit(none, Max[l])
  <2>. SUFFICES ASSUME NEW start \in Nat PROVE Cardinality(Within(none, start)) <= Max[l]
    BY DEF WithinLimit
  <2>1. IsFiniteSet(Within(none, start)) /\ Cardinality(Within(none, start)) <= 0
    BY <1>2, WithinFinite
  <2>. QED
    BY <2>1, FS_CardinalityType, LimiterAssumption
<1>. HIDE DEF none
<1>5. LimiterTypeOK'
  BY <1>1, <1>2 DEF LimiterInv, LimiterTypeOK
<1>6. ASSUME NEW m \in Limiters
      PROVE  /\ GoesWith(window'[m], passed'[m], clock)
             /\ Stamped(passed'[m], clock)
             /\ WithinLimit(passed'[m], Max[m])
  <2>1. CASE m = l
    <3>1. window'[m] = none /\ passed'[m] = none
      BY <1>1, <2>1 DEF LimiterInv, LimiterTypeOK
    <3>. QED
      BY <1>3, <1>4, <2>1, <3>1
  <2>2. CASE m # l
    <3>1. window'[m] = window[m] /\ passed'[m] = passed[m]
      BY <1>1, <2>2 DEF LimiterInv, LimiterTypeOK
    <3>. QED
      BY <3>1 DEF LimiterInv
  <2>. QED
    BY <2>1, <2>2
<1>. QED
  BY <1>1, <1>5, <1>6 DEF LimiterInv

-----------------------------------------------------------------------------
(* run_pull_frame *)

Open == {"write", "commit"}

Pull == [phase : Phases, frame : Frames \cup {NoFrame}, stamp : Nat,
         attempts : Nat, answer : Answers]

\* What PullTypeOK says of the threads.
PullsOK ==
  /\ pull \in [Threads -> Pull]
  /\ \A t \in Threads : pull[t].frame = NoFrame <=> pull[t].phase = "idle"

StampInv == \A t \in Threads : pull[t].stamp <= clock

\* What a thread at hand with p relies on, of rows r and files w.
Good(r, w, p) ==
  /\ p.answer \in {"created", "already_exists"} => r[p.frame] = "stored"
  /\ p.answer # "500: no row"
  /\ p.phase = "idle" => p.answer = "none"
  /\ p.phase = "reload" => r[p.frame] = "stored"
  /\ p.phase \in Open => r[p.frame] # "stored"
  /\ p.phase = "commit" => w[p.frame] = "whole"

Filed(r, w, jobs) == \A f \in Frames : r[f] = "stored" => w[f] = "whole" /\ f \in jobs

Apart(ps) ==
  \A t, u \in Threads :
    ps[t].phase \in Open /\ ps[u].phase \in Open /\ ps[t].frame = ps[u].frame => t = u

\* Why a stored row has its file: its transaction had the row for itself,
\* from the INSERT on, and the file was whole before the commit.
FrameInv ==
  /\ Filed(row, file, captionJobs)
  /\ \A t \in Threads : Good(row, file, pull[t])
  /\ Apart(pull)

PullInv == PullTypeOK /\ LimiterInv /\ StampInv /\ FrameInv

-----------------------------------------------------------------------------
(* The initial states *)

LEMMA PullInitInv == PullInit => PullInv
<1>. SUFFICES ASSUME PullInit PROVE PullInv
  OBVIOUS
<1>1. LimiterInv
  BY LimiterInitInv DEF PullInit
<1>2. clock = 0 /\ clock \in 0 .. EndOfTime
  BY LimiterAssumption DEF PullInit, LimiterInit
<1>3. \A t \in Threads : pull[t] = Idle
  BY DEF PullInit
<1>4. Idle \in Pull /\ Idle.frame = NoFrame /\ Idle.phase = "idle"
  BY DEF Idle, Pull, Phases, Answers
<1>5. pull \in [Threads -> Pull]
  BY <1>4 DEF PullInit
<1>6. \A f \in Frames : row[f] = "absent"
  BY DEF PullInit, SearchInit, Ids
<1>7. /\ row \in [Ids -> {"absent", "stored", "gone"}] /\ indexed \subseteq Images \cup Frames
      /\ file \in [Frames -> {"absent", "torn", "whole"}] /\ captionJobs \subseteq Frames
  BY DEF PullInit, SearchInit
<1>8. PullTypeOK
  <2>1. PullsOK
    BY <1>3, <1>4, <1>5, Zenon DEF PullsOK
  <2>. QED
    BY <1>1, <1>2, <1>7, <2>1 DEF PullTypeOK, PullsOK, Pull, LimiterInv, LimiterTypeOK, Request
<1>9. StampInv
  BY <1>2, <1>3 DEF StampInv, Idle
<1>10. FrameInv
  <2>1. \A t \in Threads : pull[t].phase = "idle" /\ pull[t].answer = "none"
    BY <1>3 DEF Idle
  <2>. QED
    BY <1>6, <2>1 DEF FrameInv, Filed, Good, Apart, Open
<1>. QED
  BY <1>1, <1>8, <1>9, <1>10 DEF PullInv

-----------------------------------------------------------------------------
(* The steps *)

\* The steps of a thread after the limiter leave the limiter alone.
Rest(t) ==
  \/ LookUp(t) \/ FetchFrame(t) \/ FetchFails(t)
  \/ InsertRow(t) \/ ReloadExisting(t)
  \/ WriteFile(t) \/ FileFails(t) \/ CommitPull(t) \/ DatabaseFails(t) \/ Collect(t)

LEMMA NextCases ==
  ASSUME [PullNext]_frameVars
  PROVE  \/ \E t \in Threads, f \in Frames : RequestPull(t, f)
         \/ \E t \in Threads : PassLimiter(t)
         \/ \E t \in Threads : RefusePull(t)
         \/ \E t \in Threads : Rest(t)
         \/ ApiRestart
         \/ Tick /\ UNCHANGED <<records, pullVars>>
         \/ UNCHANGED frameVars
BY Zenon DEF PullNext, PullStep, Rest

LEMMA RestLeavesLimiter ==
  ASSUME NEW t \in Threads, Rest(t)
  PROVE  UNCHANGED limiterVars
BY Zenon DEF Rest, LookUp, FetchFrame, FetchFails, InsertRow, ReloadExisting, WriteFile, FileFails,
             CommitPull, DatabaseFails, RollBack, CommitUnheard, Collect

LEMMA LimiterStep == PullInv /\ [PullNext]_frameVars => LimiterInv'
<1>. SUFFICES ASSUME PullInv, [PullNext]_frameVars PROVE LimiterInv'
  OBVIOUS
<1>1. ASSUME UNCHANGED limiterVars PROVE LimiterInv'
  BY <1>1 DEF PullInv, LimiterInv, LimiterTypeOK, limiterVars
<1>2. \A t \in Threads : pull[t].stamp \in Nat /\ pull[t].stamp <= clock
  BY DEF PullInv, PullTypeOK, StampInv
<1>3. "pulls" \in Limiters /\ LimiterInv
  BY FramePullAssumption DEF PullInv
<1>4. ASSUME NEW t \in Threads, NEW f \in Frames, RequestPull(t, f) PROVE LimiterInv'
  BY <1>1, <1>4 DEF RequestPull
<1>5. ASSUME NEW t \in Threads, PassLimiter(t) PROVE LimiterInv'
  BY <1>2, <1>3, <1>5, AdmitLimiter DEF PassLimiter
<1>6. ASSUME NEW t \in Threads, RefusePull(t) PROVE LimiterInv'
  BY <1>2, <1>3, <1>6, RefuseLimiter DEF RefusePull
<1>7. ASSUME NEW t \in Threads, Rest(t) PROVE LimiterInv'
  BY <1>1, <1>7, RestLeavesLimiter
<1>8. CASE ApiRestart
  BY <1>3, <1>8, ForgetLimiter DEF ApiRestart
<1>9. CASE Tick /\ UNCHANGED <<records, pullVars>>
  BY <1>3, <1>9, TickLimiter DEF Tick
<1>10. CASE UNCHANGED frameVars
  BY <1>1, <1>10 DEF frameVars
<1>. QED
  BY <1>4, <1>5, <1>6, <1>7, <1>8, <1>9, <1>10, NextCases, Zenon

\* A thread that has something else at hand now.
LEMMA AtHand ==
  ASSUME PullsOK, StampInv, clock' = clock,
         NEW t \in Threads, NEW r \in Pull,
         r.frame = NoFrame <=> r.phase = "idle", r.stamp <= clock,
         pull' = [pull EXCEPT ![t] = r]
  PROVE  PullsOK' /\ StampInv'
<1>1. pull' \in [Threads -> Pull]
  BY DEF PullsOK
<1>2. \A u \in Threads : pull'[u] = IF u = t THEN r ELSE pull[u]
  BY DEF PullsOK
<1>. QED
  BY <1>1, <1>2, Zenon DEF PullsOK, StampInv

\* A thread that goes on with its request.
LEMMA GoesOn ==
  ASSUME PullsOK, StampInv, clock' = clock,
         NEW t \in Threads, pull[t].phase # "idle",
         \/ \E phase \in Phases \ {"idle"} : ToPhase(t, phase)
         \/ \E answer \in Answers : Respond(t, answer)
         \/ pull' = [pull EXCEPT ![t].attempts = @ + 1]
  PROVE  PullsOK' /\ StampInv'
<1>. DEFINE p == pull[t]
<1>0. p \in Pull /\ p.frame # NoFrame /\ p.stamp <= clock
  BY DEF PullsOK, StampInv
<1>1. ASSUME NEW phase \in Phases \ {"idle"}, ToPhase(t, phase) PROVE PullsOK' /\ StampInv'
  <2>. DEFINE r == [p EXCEPT !.phase = phase]
  <2>1. pull' = [pull EXCEPT ![t] = r]
    BY <1>1 DEF ToPhase, PullsOK
  <2>2. r \in Pull /\ r.frame = p.frame /\ r.phase = phase /\ r.stamp = p.stamp
    BY <1>0 DEF Pull
  <2>. HIDE DEF r
  <2>. QED
    BY <1>0, <2>1, <2>2, AtHand
<1>2. ASSUME NEW answer \in Answers, Respond(t, answer) PROVE PullsOK' /\ StampInv'
  <2>. DEFINE r == [p EXCEPT !.phase = "done", !.answer = answer]
  <2>1. pull' = [pull EXCEPT ![t] = r]
    BY <1>2 DEF Respond, PullsOK
  <2>2. r \in Pull /\ r.frame = p.frame /\ r.phase = "done" /\ r.stamp = p.stamp
    BY <1>0 DEF Pull, Phases
  <2>. HIDE DEF r
  <2>. QED
    BY <1>0, <2>1, <2>2, AtHand
<1>3. CASE pull' = [pull EXCEPT ![t].attempts = @ + 1]
  <2>. DEFINE r == [p EXCEPT !.attempts = @ + 1]
  <2>1. pull' = [pull EXCEPT ![t] = r]
    BY <1>3 DEF PullsOK
  <2>2. r \in Pull /\ r.frame = p.frame /\ r.phase = p.phase /\ r.stamp = p.stamp
    BY <1>0 DEF Pull
  <2>. HIDE DEF r
  <2>. QED
    BY <1>0, <2>1, <2>2, AtHand
<1>. QED
  BY <1>1, <1>2, <1>3

LEMMA ThreadStep ==
  ASSUME PullsOK, StampInv, clock \in Nat, NEW t \in Threads, PassLimiter(t) \/ RefusePull(t) \/ Rest(t)
  PROVE  PullsOK' /\ StampInv'
<1>0. clock' = clock
  BY RestLeavesLimiter DEF PassLimiter, RefusePull, Admit, Refuse, limiterVars
<1>. USE DEF At, Phases, Answers
<1>1. CASE PassLimiter(t) \/ RefusePull(t) \/ LookUp(t) \/ FetchFrame(t)
  BY <1>0, <1>1, GoesOn DEF PassLimiter, RefusePull, LookUp, FetchFrame
<1>2. CASE FetchFails(t)
  BY <1>0, <1>2, GoesOn DEF FetchFails
<1>3. CASE InsertRow(t) \/ ReloadExisting(t)
  BY <1>0, <1>3, GoesOn DEF InsertRow, ReloadExisting
<1>4. CASE WriteFile(t) \/ FileFails(t) \/ CommitPull(t) \/ DatabaseFails(t)
  BY <1>0, <1>4, GoesOn
     DEF WriteFile, FileFails, CommitPull, DatabaseFails, RollBack, CommitUnheard
<1>5. CASE Collect(t)
  <2>1. Idle \in Pull /\ Idle.frame = NoFrame /\ Idle.phase = "idle" /\ Idle.stamp = 0
    BY DEF Idle, Pull
  <2>2. 0 <= clock
    OBVIOUS
  <2>. QED
    BY <1>0, <1>5, <2>1, <2>2, AtHand DEF Collect
<1>. QED
  BY <1>1, <1>2, <1>3, <1>4, <1>5 DEF Rest

LEMMA TypeStep == PullInv /\ [PullNext]_frameVars => PullTypeOK' /\ StampInv'
<1>. SUFFICES ASSUME PullInv, [PullNext]_frameVars PROVE PullTypeOK' /\ StampInv'
  OBVIOUS
<1>0. PullTypeOK /\ PullsOK /\ StampInv /\ clock \in Nat
  BY DEF PullInv, PullTypeOK, PullsOK, Pull
<1>1. /\ window' \in [Limiters -> Seq(Nat)]
      /\ passed' \in [Limiters -> Seq([stamp : Nat, at : Nat])]
  BY LimiterStep DEF LimiterInv, LimiterTypeOK, Request
<1>2. NoFrame \notin Frames
  BY FramePullAssumption DEF Ids
<1>3. /\ clock' \in 0 .. EndOfTime
      /\ row' \in [Ids -> {"absent", "stored", "gone"}] /\ indexed' \subseteq Images \cup Frames
      /\ file' \in [Frames -> {"absent", "torn", "whole"}] /\ captionJobs' \subseteq Frames
  <2>. USE <1>0 DEF PullTypeOK, records, pullVars, limiterVars
  <2>1. ASSUME NEW t \in Threads, NEW f \in Frames, RequestPull(t, f) PROVE <1>3!:
    BY <2>1 DEF RequestPull
  <2>2. ASSUME NEW t \in Threads, PassLimiter(t) \/ RefusePull(t) PROVE <1>3!:
    BY <2>2 DEF PassLimiter, RefusePull, Admit, Refuse
  <2>3. ASSUME NEW t \in Threads, Rest(t) PROVE <1>3!:
    <3>1. clock' = clock
      BY <2>3, RestLeavesLimiter
    <3>2. CASE UNCHANGED <<records, file, captionJobs>>
      BY <3>1, <3>2
    <3>3. CASE WriteFile(t) \/ FileFails(t)
      BY <3>1, <3>3 DEF WriteFile, FileFails
    <3>4. CASE CommitPull(t) \/ CommitUnheard(t)
      <4>1. pull[t].frame \in Frames
        BY <3>4 DEF CommitPull, CommitUnheard, At
      <4>. QED
        BY <3>1, <3>4, <4>1 DEF CommitPull, CommitUnheard
    <3>. QED
      BY <2>3, <3>2, <3>3, <3>4, Zenon
         DEF Rest, LookUp, FetchFrame, FetchFails, InsertRow, ReloadExisting, DatabaseFails,
             RollBack, Collect
  <2>4. CASE ApiRestart
    BY <2>4 DEF ApiRestart, Forget
  <2>5. CASE Tick /\ UNCHANGED <<records, pullVars>>
    BY <2>5, LimiterAssumption DEF Tick
  <2>6. CASE UNCHANGED frameVars
    BY <2>6 DEF frameVars
  <2>. QED
    BY <2>1, <2>2, <2>3, <2>4, <2>5, <2>6, NextCases, Zenon
<1>4. PullsOK' /\ StampInv'
  <2>1. ASSUME NEW t \in Threads, NEW f \in Frames, RequestPull(t, f) PROVE <1>4!:
    <3>. DEFINE r == [Idle EXCEPT !.phase = "limit", !.frame = f, !.stamp = clock]
    <3>1. pull' = [pull EXCEPT ![t] = r] /\ clock' = clock
      BY <2>1 DEF RequestPull, limiterVars
    <3>2. r \in Pull /\ r.frame = f /\ r.phase = "limit" /\ r.stamp = clock
      BY <1>0 DEF Idle, Pull, Phases, Answers
    <3>. HIDE DEF r
    <3>3. (r.frame = NoFrame <=> r.phase = "idle") /\ r.stamp <= clock
      BY <1>0, <1>2, <3>2
    <3>. QED
      BY <1>0, <3>1, <3>2, <3>3, AtHand
  <2>2. ASSUME NEW t \in Threads, PassLimiter(t) \/ RefusePull(t) \/ Rest(t) PROVE <1>4!:
    BY <1>0, <2>2, ThreadStep
  <2>3. CASE ApiRestart
    <3>1. Idle \in Pull /\ Idle.frame = NoFrame /\ Idle.phase = "idle" /\ Idle.stamp = 0
      BY DEF Idle, Pull, Phases, Answers
    <3>2. pull' = [t \in Threads |-> Idle] /\ clock' = clock
      BY <2>3 DEF ApiRestart, Forget
    <3>3. pull' \in [Threads -> Pull] /\ \A t \in Threads : pull'[t] = Idle
      BY <3>1, <3>2
    <3>. QED
      BY <1>0, <3>1, <3>2, <3>3 DEF PullsOK, StampInv
  <2>4. CASE Tick /\ UNCHANGED <<records, pullVars>>
    <3>1. pull' = pull /\ clock' = clock + 1
      BY <2>4 DEF Tick, pullVars
    <3>. QED
      BY <1>0, <3>1 DEF PullsOK, StampInv, Pull
  <2>5. CASE UNCHANGED frameVars
    BY <1>0, <2>5 DEF frameVars, pullVars, limiterVars, PullsOK, StampInv
  <2>. QED
    BY <2>1, <2>2, <2>3, <2>4, <2>5, NextCases, Zenon
<1>. QED
  BY <1>1, <1>3, <1>4 DEF PullTypeOK, PullsOK, Pull

-----------------------------------------------------------------------------
(* Rows and files *)

LEMMA OneMoves ==
  ASSUME FrameInv, NEW t \in Threads,
         \A u \in Threads \ {t} : pull'[u] = pull[u] /\ Good(row', file', pull[u]),
         Good(row', file', pull'[t]), Filed(row', file', captionJobs'),
         pull'[t].phase \in Open =>
           \A u \in Threads \ {t} : pull[u].phase \in Open => pull[u].frame # pull'[t].frame
  PROVE  FrameInv'
<1>1. \A u \in Threads : Good(row', file', pull'[u])
  BY Zenon
<1>2. Apart(pull')
  BY Zenon DEF FrameInv, Apart
<1>. QED
  BY <1>1, <1>2, Zenon DEF FrameInv

\* A step that changes no row, file or job.
LEMMA OnlyMoves ==
  ASSUME FrameInv, NEW t \in Threads, UNCHANGED <<row, file, captionJobs>>,
         \A u \in Threads \ {t} : pull'[u] = pull[u],
         Good(row, file, pull'[t]),
         pull'[t].phase \in Open =>
           \A u \in Threads \ {t} : pull[u].phase \in Open => pull[u].frame # pull'[t].frame
  PROVE  FrameInv'
<1>1. /\ \A u \in Threads \ {t} : Good(row', file', pull[u])
      /\ Good(row', file', pull'[t]) /\ Filed(row', file', captionJobs')
  BY DEF FrameInv
<1>. QED
  BY <1>1, OneMoves

\* Thread t moves to a phase or responds; the others stay.
LEMMA Moves ==
  ASSUME PullsOK, NEW t \in Threads, NEW phase, NEW answer,
         \/ ToPhase(t, phase) /\ answer = pull[t].answer
         \/ Respond(t, answer) /\ phase = "done"
  PROVE  /\ \A u \in Threads \ {t} : pull'[u] = pull[u]
         /\ pull'[t].phase = phase /\ pull'[t].answer = answer /\ pull'[t].frame = pull[t].frame
<1>1. pull \in [Threads -> Pull] /\ pull[t] \in Pull
  BY DEF PullsOK
<1>. QED
  BY <1>1 DEF ToPhase, Respond, Pull

\* It does so where FrameInv asks nothing new of it.
LEMMA MovesFreely ==
  ASSUME PullsOK, FrameInv, NEW t \in Threads, UNCHANGED <<row, file, captionJobs>>,
         \/ \E phase \in {"look", "fetch", "insert"} : ToPhase(t, phase)
         \/ \E answer \in {"403", "404", "429", "500", "502"} : Respond(t, answer)
  PROVE  FrameInv'
<1>1. PICK phase \in Phases, answer \in Answers :
        /\ \/ ToPhase(t, phase) /\ answer = pull[t].answer
           \/ Respond(t, answer) /\ phase = "done"
        /\ phase \notin Open \cup {"idle", "reload"}
        /\ answer = pull[t].answer \/ answer \in {"403", "404", "429", "500", "502"}
  <2>1. pull[t].answer \in Answers
    BY DEF PullsOK, Pull
  <2>. QED
    BY <2>1 DEF Phases, Answers, Open
<1>2. /\ \A u \in Threads \ {t} : pull'[u] = pull[u]
      /\ pull'[t].phase = phase /\ pull'[t].answer = answer /\ pull'[t].frame = pull[t].frame
  BY <1>1, Moves, Zenon
<1>3. Good(row, file, pull[t])
  BY DEF FrameInv
<1>4. Good(row, file, pull'[t])
  BY <1>1, <1>2, <1>3 DEF Good, Open
<1>. QED
  BY <1>1, <1>2, <1>4, OnlyMoves

LEMMA RestFrame ==
  ASSUME PullInv, NEW t \in Threads, Rest(t)
  PROVE  FrameInv'
<1>. DEFINE f == pull[t].frame
<1>0. PullTypeOK /\ PullsOK /\ FrameInv /\ Good(row, file, pull[t])
  BY DEF PullInv, PullTypeOK, PullsOK, Pull, FrameInv
<1>1. pull[t].phase # "idle" => f \in Frames
  BY <1>0 DEF PullTypeOK
<1>. USE DEF records, At
<1>2. CASE LookUp(t)
  <2>1. CASE row[f] = "stored"
    <3>1. Respond(t, "already_exists") /\ UNCHANGED <<row, file, captionJobs>>
      BY <1>2, <2>1 DEF LookUp, RowExists
    <3>2. /\ \A u \in Threads \ {t} : pull'[u] = pull[u]
          /\ pull'[t].phase = "done" /\ pull'[t].answer = "already_exists" /\ pull'[t].frame = f
      BY <1>0, <3>1, Moves
    <3>3. Good(row, file, pull'[t])
      BY <2>1, <3>2 DEF Good, Open
    <3>. QED
      BY <1>0, <3>1, <3>2, <3>3, OnlyMoves DEF Open
  <2>2. CASE row[f] # "stored"
    BY <1>0, <1>2, <2>2, MovesFreely DEF LookUp, RowExists
  <2>. QED
    BY <2>1, <2>2
<1>3. CASE FetchFrame(t)
  BY <1>0, <1>3, MovesFreely DEF FetchFrame
<1>4. CASE FetchFails(t)
  <2>1. CASE Respond(t, "502")
    BY <1>0, <1>4, <2>1, MovesFreely DEF FetchFails
  <2>2. CASE pull' = [pull EXCEPT ![t].attempts = @ + 1]
    <3>1. pull[t] \in Pull /\ pull[t].phase = "fetch" /\ UNCHANGED <<row, file, captionJobs>>
      BY <1>0, <1>4 DEF PullsOK, FetchFails
    <3>2. /\ \A u \in Threads \ {t} : pull'[u] = pull[u]
          /\ pull'[t].phase = "fetch" /\ pull'[t].answer = pull[t].answer /\ pull'[t].frame = f
      BY <1>0, <2>2, <3>1 DEF PullsOK, Pull
    <3>3. Good(row, file, pull'[t])
      BY <1>0, <3>2 DEF Good, Open
    <3>. QED
      BY <1>0, <3>1, <3>2, <3>3, OnlyMoves DEF Open
  <2>. QED
    BY <1>4, <2>1, <2>2 DEF FetchFails
<1>5. CASE InsertRow(t)
  <2>1. UNCHANGED <<row, file, captionJobs>>
    BY <1>5 DEF InsertRow
  <2>2. \A u \in Threads : pull[u].phase \in Open => pull[u].frame # f
    BY <1>5 DEF InsertRow, Uncommitted, Open
  <2>. DEFINE phase == IF row[f] = "stored" THEN "reload" ELSE "write"
  <2>3. ToPhase(t, phase)
    BY <1>5 DEF InsertRow
  <2>4. \/ phase = "reload" /\ row[f] = "stored"
        \/ phase = "write" /\ row[f] # "stored"
    OBVIOUS
  <2>. HIDE DEF phase
  <2>5. /\ \A u \in Threads \ {t} : pull'[u] = pull[u]
        /\ pull'[t].phase = phase /\ pull'[t].answer = pull[t].answer /\ pull'[t].frame = f
    BY <1>0, <2>3, Moves
  <2>6. Good(row, file, pull'[t])
    BY <1>0, <2>4, <2>5 DEF Good, Open
  <2>. QED
    BY <1>0, <2>1, <2>2, <2>5, <2>6, OnlyMoves
<1>6. CASE ReloadExisting(t)
  <2>1. UNCHANGED <<row, file, captionJobs>> /\ row[f] = "stored"
    BY <1>0, <1>6 DEF ReloadExisting, Good
  <2>2. Respond(t, "already_exists")
    BY <1>6, <2>1 DEF ReloadExisting, RowExists
  <2>3. /\ \A u \in Threads \ {t} : pull'[u] = pull[u]
        /\ pull'[t].phase = "done" /\ pull'[t].answer = "already_exists" /\ pull'[t].frame = f
    BY <1>0, <2>2, Moves
  <2>4. Good(row, file, pull'[t])
    BY <2>1, <2>3 DEF Good, Open
  <2>. QED
    BY <1>0, <2>1, <2>3, <2>4, OnlyMoves DEF Open
<1>7. CASE WriteFile(t)
  <2>1. /\ UNCHANGED <<row, captionJobs>> /\ ToPhase(t, "commit")
        /\ file' = [file EXCEPT ![f] = "whole"] /\ pull[t].phase = "write"
    BY <1>7 DEF WriteFile
  <2>2. /\ \A u \in Threads \ {t} : pull'[u] = pull[u]
        /\ pull'[t].phase = "commit" /\ pull'[t].answer = pull[t].answer /\ pull'[t].frame = f
    BY <1>0, <2>1, Moves
  <2>3. f \in Frames /\ \A g \in Frames : file'[g] = IF g = f THEN "whole" ELSE file[g]
    BY <1>0, <1>1, <2>1 DEF PullTypeOK
  <2>4. Filed(row', file', captionJobs')
    BY <1>0, <2>1, <2>3 DEF FrameInv, Filed
  <2>5. ASSUME NEW u \in Threads \ {t} PROVE Good(row', file', pull[u])
    <3>1. pull[u].phase = "commit" => pull[u].frame \in Frames
      BY <1>0 DEF PullTypeOK
    <3>2. Good(row, file, pull[u])
      BY <1>0 DEF FrameInv
    <3>. QED
      BY <2>1, <2>3, <3>1, <3>2 DEF Good
  <2>6. Good(row', file', pull'[t])
    BY <1>0, <2>1, <2>2, <2>3 DEF Good, Open
  <2>7. \A u \in Threads \ {t} : pull[u].phase \in Open => pull[u].frame # f
    BY <1>0, <2>1 DEF FrameInv, Apart, Open
  <2>. QED
    BY <1>0, <2>2, <2>4, <2>5, <2>6, <2>7, OneMoves
<1>8. CASE FileFails(t)
  <2>1. /\ UNCHANGED <<row, captionJobs>> /\ Respond(t, "500")
        /\ file' \in {file, [file EXCEPT ![f] = "torn"]} /\ pull[t].phase = "write"
    BY <1>8 DEF FileFails
  <2>2. /\ \A u \in Threads \ {t} : pull'[u] = pull[u]
        /\ pull'[t].phase = "done" /\ pull'[t].answer = "500" /\ pull'[t].frame = f
    BY <1>0, <2>1, Moves
  <2>3. f \in Frames /\ row[f] # "stored" /\ \A g \in Frames \ {f} : file'[g] = file[g]
    BY <1>0, <1>1, <2>1 DEF PullTypeOK, Good, Open
  <2>4. Filed(row', file', captionJobs')
    BY <1>0, <2>1, <2>3 DEF FrameInv, Filed
  <2>5. ASSUME NEW u \in Threads \ {t} PROVE Good(row', file', pull[u])
    <3>1. pull[u].phase = "commit" => pull[u].frame \in Frames \ {f}
      BY <1>0, <2>1 DEF PullTypeOK, FrameInv, Apart, Open
    <3>2. Good(row, file, pull[u])
      BY <1>0 DEF FrameInv
    <3>. QED
      BY <2>1, <2>3, <3>1, <3>2 DEF Good
  <2>6. Good(row', file', pull'[t])
    BY <2>2 DEF Good, Open
  <2>. QED
    BY <1>0, <2>2, <2>4, <2>5, <2>6, OneMoves DEF Open
<1>9. CASE CommitPull(t) \/ CommitUnheard(t)
  <2>1. PICK answer \in {"created", "500"} :
        /\ row' = [row EXCEPT ![f] = "stored"] /\ captionJobs' = captionJobs \cup {f}
        /\ Respond(t, answer) /\ file' = file /\ pull[t].phase = "commit"
    BY <1>9 DEF CommitPull, CommitUnheard
  <2>2. /\ \A u \in Threads \ {t} : pull'[u] = pull[u]
        /\ pull'[t].phase = "done" /\ pull'[t].answer = answer /\ pull'[t].frame = f
    BY <1>0, <2>1, Moves DEF Answers
  <2>3. f \in Frames /\ file[f] = "whole"
    BY <1>0, <1>1, <2>1 DEF Good
  <2>4. /\ row'[f] = "stored"
        /\ \A g \in Frames \ {f} : row'[g] = row[g]
        /\ \A g : row[g] = "stored" /\ g \in Frames => row'[g] = "stored"
    BY <1>0, <2>1, <2>3 DEF PullTypeOK, Ids
  <2>5. Filed(row', file', captionJobs')
    BY <1>0, <2>1, <2>3, <2>4 DEF FrameInv, Filed
  <2>6. ASSUME NEW u \in Threads \ {t} PROVE Good(row', file', pull[u])
    <3>1. pull[u].phase \in Open => pull[u].frame \in Frames \ {f}
      BY <1>0, <2>1 DEF PullTypeOK, FrameInv, Apart, Open
    <3>2. pull[u].phase # "idle" => pull[u].frame \in Ids
      BY <1>0 DEF PullTypeOK, Ids
    <3>3. Good(row, file, pull[u])
      BY <1>0 DEF FrameInv
    <3>4. pull[u].frame \in Ids => row'[pull[u].frame] =
            IF pull[u].frame = f THEN "stored" ELSE row[pull[u].frame]
      BY <1>0, <2>1 DEF PullTypeOK
    <3>. QED
      BY <2>1, <2>3, <2>4, <3>1, <3>2, <3>3, <3>4 DEF Good, Open
  <2>7. Good(row', file', pull'[t])
    BY <2>2, <2>4 DEF Good, Open
  <2>. QED
    BY <1>0, <2>2, <2>5, <2>6, <2>7, OneMoves DEF Open
<1>10. CASE RollBack(t)
  BY <1>0, <1>10, MovesFreely DEF RollBack
<1>11. CASE Collect(t)
  <2>1. pull' = [pull EXCEPT ![t] = Idle] /\ UNCHANGED <<row, file, captionJobs>>
    BY <1>11 DEF Collect
  <2>2. (\A u \in Threads \ {t} : pull'[u] = pull[u]) /\ pull'[t] = Idle
    BY <1>0, <2>1 DEF PullsOK
  <2>3. Good(row, file, Idle) /\ Idle.phase \notin Open
    BY DEF Good, Idle, Open
  <2>. QED
    BY <1>0, <2>1, <2>2, <2>3, OnlyMoves
<1>. QED
  BY <1>2, <1>3, <1>4, <1>5, <1>6, <1>7, <1>8, <1>9, <1>10, <1>11, Zenon
     DEF Rest, DatabaseFails

LEMMA FrameStep == PullInv /\ [PullNext]_frameVars => FrameInv'
<1>. SUFFICES ASSUME PullInv, [PullNext]_frameVars PROVE FrameInv'
  OBVIOUS
<1>0. PullsOK /\ PullTypeOK /\ FrameInv
  BY DEF PullInv, PullTypeOK, PullsOK, Pull
<1>. USE DEF records
<1>1. ASSUME NEW t \in Threads, NEW f \in Frames, RequestPull(t, f) PROVE FrameInv'
  <2>. DEFINE r == [Idle EXCEPT !.phase = "limit", !.frame = f, !.stamp = clock]
  <2>1. pull' = [pull EXCEPT ![t] = r] /\ UNCHANGED <<row, file, captionJobs>>
    BY <1>1 DEF RequestPull
  <2>2. r.phase = "limit" /\ r.answer = "none"
    BY DEF Idle
  <2>. HIDE DEF r
  <2>3. (\A u \in Threads \ {t} : pull'[u] = pull[u]) /\ pull'[t] = r
    BY <1>0, <2>1 DEF PullsOK
  <2>4. Good(row, file, r) /\ r.phase \notin Open
    BY <2>2 DEF Good, Open
  <2>. QED
    BY <1>0, <2>1, <2>3, <2>4, OnlyMoves
<1>2. ASSUME NEW t \in Threads, PassLimiter(t) \/ RefusePull(t) PROVE FrameInv'
  BY <1>0, <1>2, MovesFreely DEF PassLimiter, RefusePull
<1>3. ASSUME NEW t \in Threads, Rest(t) PROVE FrameInv'
  BY <1>3, RestFrame
<1>4. CASE ApiRestart
  <2>1. /\ pull' = [t \in Threads |-> Idle] /\ UNCHANGED <<row, captionJobs>>
        /\ \E torn \in SUBSET {pull[t].frame : t \in {u \in Threads : At(u, "write")}} :
             file' = [f \in Frames |-> IF f \in torn THEN "torn" ELSE file[f]]
    BY <1>4 DEF ApiRestart
  <2>2. ASSUME NEW f \in Frames, row[f] = "stored" PROVE file'[f] = file[f]
    <3>1. \A u \in Threads : At(u, "write") => pull[u].frame # f
      BY <1>0, <2>2 DEF FrameInv, Good, At, Open
    <3>. QED
      BY <2>1, <3>1
  <2>3. Filed(row', file', captionJobs')
    BY <1>0, <2>1, <2>2 DEF FrameInv, Filed
  <2>4. \A t \in Threads : pull'[t] = Idle
    BY <2>1
  <2>5. Good(row', file', Idle) /\ Idle.phase \notin Open
    BY DEF Good, Idle, Open
  <2>. QED
    BY <2>3, <2>4, <2>5, Zenon DEF FrameInv, Apart
<1>5. CASE (Tick /\ UNCHANGED <<records, pullVars>>) \/ UNCHANGED frameVars
  BY <1>0, <1>5 DEF FrameInv, frameVars, pullVars
<1>. QED
  BY <1>1, <1>2, <1>3, <1>4, <1>5, NextCases, Zenon

LEMMA PullStepInv == PullInv /\ [PullNext]_frameVars => PullInv'
BY LimiterStep, TypeStep, FrameStep DEF PullInv

-----------------------------------------------------------------------------
(* The theorems *)

LEMMA PullAlways == PullSpec => []PullInv
<1>. QED
  BY PullInitInv, PullStepInv, PTL DEF PullSpec

\* The type invariant of pulls, limiter and records.
THEOREM PullTypeCorrect == PullSpec => []PullTypeOK
<1>1. PullInv => PullTypeOK
  BY DEF PullInv
<1>. QED
  BY <1>1, PullAlways, PTL

\* A stored frame has its whole file and its caption job, and no response
\* names a frame that is not stored, whatever requests race for it, whatever
\* fails and whenever the API restarts.
THEOREM PulledFrames == PullSpec => []PulledIsStored
<1>1. PullInv => PulledIsStored
  BY DEF PullInv, FrameInv, Filed, Good, PulledIsStored
<1>. QED
  BY <1>1, PullAlways, PTL

\* No window sees more requests come and pass than the limit allows, for any
\* limit and window, though the deque need not be sorted.
THEOREM LimitHolds == PullSpec => []AdmittedPerWindow
<1>1. PullInv => AdmittedPerWindow
  BY LimiterInvAdmitted DEF PullInv
<1>. QED
  BY <1>1, PullAlways, PTL

-----------------------------------------------------------------------------
(* Pulls are atomic *)

\* There is a response when the request is done, and only then.
AnswerInv == \A t \in Threads : pull[t].answer = "none" <=> pull[t].phase # "done"

AtomicInv == PullInv /\ AnswerInv

Requests == [t \in Threads |-> pull[t].frame]
Responses == [t \in Threads |-> pull[t].answer]

\* A thread goes on without a word to its client.
LEMMA SilentMove ==
  ASSUME PullsOK, AnswerInv, NEW t \in Threads, pull[t].phase # "done",
         \/ \E phase \in Phases \ {"done"} : ToPhase(t, phase)
         \/ pull' = [pull EXCEPT ![t].attempts = @ + 1]
  PROVE  AnswerInv' /\ Requests' = Requests /\ Responses' = Responses
<1>1. pull \in [Threads -> Pull] /\ pull[t] \in Pull
  BY DEF PullsOK
<1>2. /\ \A u \in Threads \ {t} : pull'[u] = pull[u]
      /\ pull'[t].frame = pull[t].frame /\ pull'[t].answer = pull[t].answer
      /\ pull'[t].phase # "done"
  BY <1>1 DEF ToPhase, Pull
<1>. QED
  BY <1>2 DEF AnswerInv, Requests, Responses

\* A thread responds.
LEMMA ResponseMove ==
  ASSUME PullsOK, AnswerInv, NEW t \in Threads, NEW answer \in Answers \ {"none"},
         Respond(t, answer)
  PROVE  /\ AnswerInv' /\ Requests' = Requests
         /\ Responses' = [Responses EXCEPT ![t] = answer]
<1>1. /\ \A u \in Threads \ {t} : pull'[u] = pull[u]
      /\ pull'[t].phase = "done" /\ pull'[t].answer = answer /\ pull'[t].frame = pull[t].frame
  BY Moves
<1>. QED
  BY <1>1 DEF AnswerInv, Requests, Responses

\* A thread takes up a request, or drops the one it has.
LEMMA FreshMove ==
  ASSUME PullsOK, AnswerInv, NEW t \in Threads, NEW r \in Pull,
         r.answer = "none", r.phase # "done", pull' = [pull EXCEPT ![t] = r]
  PROVE  /\ AnswerInv' /\ Requests' = [Requests EXCEPT ![t] = r.frame]
         /\ Responses' = [Responses EXCEPT ![t] = "none"]
  BY DEF PullsOK, AnswerInv, Requests, Responses

\* What a step of a thread is to the client of its request.
Seen(t) ==
  \/ Complete' = Complete /\ Requests' = Requests /\ Responses' = Responses
  \/ Atomic!Create(t) \/ Atomic!CreateUnheard(t)
  \/ Atomic!Find(t) \/ Atomic!Refuse(t) \/ Atomic!Take(t)

LEMMA RestIsSeen ==
  ASSUME AtomicInv, FrameInv', NEW t \in Threads, Rest(t) \/ PassLimiter(t) \/ RefusePull(t)
  PROVE  AnswerInv' /\ Seen(t)
<1>. DEFINE f == pull[t].frame
<1>0. PullsOK /\ PullTypeOK /\ FrameInv /\ AnswerInv /\ Good(row, file, pull[t])
  BY DEF AtomicInv, PullInv, PullTypeOK, PullsOK, Pull, FrameInv
<1>1. /\ Complete = {g \in Frames : row[g] = "stored"}
      /\ Complete' = {g \in Frames : row'[g] = "stored"}
  BY <1>0 DEF FrameInv, Filed, Complete
<1>2. pull[t].phase # "idle" => f \in Frames
  BY <1>0 DEF PullTypeOK
<1>3. pull[t].phase \notin {"idle", "done"} => Atomic!Waits(t)
  BY <1>0, <1>2 DEF Atomic!Waits, AnswerInv
<1>4. ASSUME UNCHANGED row, pull[t].phase # "done",
             \/ \E phase \in Phases \ {"done"} : ToPhase(t, phase)
             \/ pull' = [pull EXCEPT ![t].attempts = @ + 1]
      PROVE  AnswerInv' /\ Seen(t)
  BY <1>0, <1>1, <1>4, SilentMove DEF Seen
<1>5. ASSUME UNCHANGED row, pull[t].phase \notin {"idle", "done"},
             NEW e \in {"403", "404", "429", "500", "502"}, Respond(t, e)
      PROVE  AnswerInv' /\ Seen(t)
  <2>1. AnswerInv' /\ Requests' = Requests /\ Responses' = [Responses EXCEPT ![t] = e]
    BY <1>0, <1>5, ResponseMove DEF Answers
  <2>2. Atomic!Refuse(t)
    BY <1>1, <1>3, <1>5, <2>1 DEF Atomic!Refuse, Atomic!Errors, Requests, Responses
  <2>. QED
    BY <2>1, <2>2 DEF Seen
<1>6. ASSUME UNCHANGED row, pull[t].phase \notin {"idle", "done"}, row[f] = "stored",
             Respond(t, "already_exists")
      PROVE  AnswerInv' /\ Seen(t)
  <2>1. AnswerInv' /\ Requests' = Requests
        /\ Responses' = [Responses EXCEPT ![t] = "already_exists"]
    BY <1>0, <1>6, ResponseMove DEF Answers
  <2>2. Atomic!Find(t)
    BY <1>1, <1>2, <1>3, <1>6, <2>1 DEF Atomic!Find, Requests, Responses
  <2>. QED
    BY <2>1, <2>2 DEF Seen
<1>7. CASE CommitPull(t) \/ CommitUnheard(t)
  <2>1. PICK answer \in {"created", "500"} :
        /\ row' = [row EXCEPT ![f] = "stored"] /\ Respond(t, answer)
        /\ pull[t].phase = "commit"
    BY <1>7 DEF CommitPull, CommitUnheard, At
  <2>2. AnswerInv' /\ Requests' = Requests /\ Responses' = [Responses EXCEPT ![t] = answer]
    BY <1>0, <2>1, ResponseMove DEF Answers
  <2>3. f \in Frames /\ row[f] # "stored" /\ row \in [Ids -> {"absent", "stored", "gone"}]
        /\ f \in Ids
    BY <1>0, <1>2, <2>1 DEF Good, Open, PullTypeOK, Ids
  <2>4. Complete' = Complete \cup {f}
    BY <1>1, <2>1, <2>3
  <2>5. Atomic!Create(t) \/ Atomic!CreateUnheard(t)
    BY <1>1, <1>3, <2>1, <2>2, <2>3, <2>4
       DEF Atomic!Create, Atomic!CreateUnheard, Requests, Responses
  <2>. QED
    BY <2>2, <2>5 DEF Seen
<1>8. CASE Collect(t)
  <2>1. Idle \in Pull /\ Idle.frame = NoFrame /\ Idle.phase = "idle" /\ Idle.answer = "none"
    BY DEF Idle, Pull, Phases, Answers
  <2>2. pull[t].phase = "done" /\ pull' = [pull EXCEPT ![t] = Idle] /\ UNCHANGED row
    BY <1>8 DEF Collect, At, records
  <2>3. /\ AnswerInv' /\ Requests' = [Requests EXCEPT ![t] = NoFrame]
        /\ Responses' = [Responses EXCEPT ![t] = "none"]
    BY <1>0, <2>1, <2>2, FreshMove
  <2>4. Atomic!Take(t)
    BY <1>0, <1>1, <2>2, <2>3 DEF Atomic!Take, Requests, Responses, AnswerInv
  <2>. QED
    BY <2>3, <2>4 DEF Seen
<1>. USE DEF At, Phases, records
<1>9. CASE PassLimiter(t) \/ RefusePull(t) \/ FetchFrame(t)
  BY <1>4, <1>5, <1>9 DEF PassLimiter, RefusePull, FetchFrame
<1>10. CASE LookUp(t)
  BY <1>4, <1>6, <1>10 DEF LookUp, RowExists
<1>11. CASE FetchFails(t)
  BY <1>4, <1>5, <1>11 DEF FetchFails
<1>12. CASE InsertRow(t)
  BY <1>4, <1>12 DEF InsertRow
<1>13. CASE ReloadExisting(t)
  <2>1. row[f] = "stored"
    BY <1>0, <1>13 DEF ReloadExisting, Good
  <2>. QED
    BY <1>6, <1>13, <2>1 DEF ReloadExisting, RowExists
<1>14. CASE WriteFile(t)
  BY <1>4, <1>14 DEF WriteFile
<1>15. CASE FileFails(t) \/ RollBack(t)
  BY <1>5, <1>15 DEF FileFails, RollBack
<1>. QED
  BY <1>7, <1>8, <1>9, <1>10, <1>11, <1>12, <1>13, <1>14, <1>15, Zenon
     DEF Rest, DatabaseFails

LEMMA AtomicStep ==
  ASSUME AtomicInv, [PullNext]_frameVars
  PROVE  AnswerInv' /\ [Atomic!AtomicNext]_Atomic!atomicVars
<1>. DEFINE Done == AnswerInv' /\ (Atomic!AtomicNext \/ UNCHANGED <<Requests, Responses, Complete>>)
<1>. SUFFICES Done
  BY DEF Atomic!atomicVars, Requests, Responses
<1>0. PullsOK /\ PullTypeOK /\ FrameInv /\ AnswerInv /\ FrameInv' /\ clock \in Nat
  BY FrameStep DEF AtomicInv, PullInv, PullTypeOK, PullsOK, Pull
<1>1. /\ Complete = {g \in Frames : row[g] = "stored"}
      /\ Complete' = {g \in Frames : row'[g] = "stored"}
  BY <1>0 DEF FrameInv, Filed, Complete
<1>2. NoFrame \notin Frames
  BY FramePullAssumption DEF Ids
<1>3. ASSUME NEW t \in Threads, NEW f \in Frames, RequestPull(t, f) PROVE Done
  <2>. DEFINE r == [Idle EXCEPT !.phase = "limit", !.frame = f, !.stamp = clock]
  <2>1. pull' = [pull EXCEPT ![t] = r] /\ UNCHANGED row /\ pull[t].phase = "idle"
    BY <1>3 DEF RequestPull, At, records
  <2>2. r \in Pull /\ r.frame = f /\ r.phase = "limit" /\ r.answer = "none"
    BY <1>0 DEF Idle, Pull, Phases, Answers
  <2>. HIDE DEF r
  <2>3. /\ AnswerInv' /\ Requests' = [Requests EXCEPT ![t] = f]
        /\ Responses' = [Responses EXCEPT ![t] = "none"]
    BY <1>0, <2>1, <2>2, FreshMove
  <2>4. Responses' = Responses /\ pull[t].frame = NoFrame
    BY <1>0, <2>1, <2>3 DEF AnswerInv, Responses, PullsOK
  <2>5. Atomic!Ask(t, f)
    BY <1>1, <2>1, <2>3, <2>4 DEF Atomic!Ask, Requests, Responses
  <2>. QED
    BY <2>3, <2>5 DEF Atomic!AtomicNext
<1>4. ASSUME NEW t \in Threads, Rest(t) \/ PassLimiter(t) \/ RefusePull(t) PROVE Done
  <2>1. AnswerInv' /\ Seen(t)
    BY <1>0, <1>4, RestIsSeen
  <2>. QED
    BY <2>1, Zenon DEF Seen, Atomic!AtomicNext
<1>5. CASE ApiRestart
  <2>1. pull' = [t \in Threads |-> Idle] /\ UNCHANGED row
    BY <1>5 DEF ApiRestart, records
  <2>2. Idle.frame = NoFrame /\ Idle.phase = "idle" /\ Idle.answer = "none"
    BY DEF Idle
  <2>3. AnswerInv' /\ Requests' = [t \in Threads |-> NoFrame]
        /\ Responses' = [t \in Threads |-> "none"]
    BY <2>1, <2>2 DEF AnswerInv, Requests, Responses
  <2>4. Atomic!ForgetAll
    BY <1>1, <2>1, <2>3 DEF Atomic!ForgetAll, Requests, Responses
  <2>. QED
    BY <2>3, <2>4 DEF Atomic!AtomicNext
<1>6. CASE (Tick /\ UNCHANGED <<records, pullVars>>) \/ UNCHANGED frameVars
  BY <1>0, <1>1, <1>6 DEF frameVars, pullVars, records, AnswerInv, Requests, Responses
<1>. HIDE DEF Done
<1>. QED
  BY <1>3, <1>4, <1>5, <1>6, NextCases, Zenon

LEMMA AtomicStart == PullInit => AnswerInv /\ Atomic!AtomicInit
<1>. SUFFICES ASSUME PullInit PROVE AnswerInv /\ Atomic!AtomicInit
  OBVIOUS
<1>1. \A t \in Threads : pull[t].frame = NoFrame /\ pull[t].answer = "none" /\ pull[t].phase = "idle"
  BY DEF PullInit, Idle
<1>2. \A f \in Frames : row[f] = "absent"
  BY DEF PullInit, SearchInit, Ids
<1>. QED
  BY <1>1, <1>2 DEF AnswerInv, Atomic!AtomicInit, Complete

\* A pull takes effect in one step, for its client and for all others: it
\* refines AtomicPull.  The step is the look-up that finds the row, the commit,
\* or the error; that the commit is by the only thread that can bring the
\* frame is what Good and Apart say.
THEOREM PullsRefineAtomic == PullSpec => PullsAreAtomic
<1>1. PullInit => AtomicInv
  BY PullInitInv, AtomicStart DEF AtomicInv
<1>2. AtomicInv /\ [PullNext]_frameVars => AtomicInv'
  BY PullStepInv, AtomicStep DEF AtomicInv
<1>3. AtomicInv /\ [PullNext]_frameVars => [Atomic!AtomicNext]_Atomic!atomicVars
  BY AtomicStep
<1>. QED
  BY <1>1, <1>2, <1>3, AtomicStart, PTL DEF PullSpec, PullsAreAtomic, Atomic!AtomicSpec

=============================================================================
