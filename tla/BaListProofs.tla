---------------------------- MODULE BaListProofs ----------------------------
(***************************************************************************)
(* The reordering list of a Block Ack recipient stays in its window.  The  *)
(* code compares sequence numbers modulo 4096 (SEQ_SMALLER, SEQ_STEPONE);  *)
(* the argument measures them by their distance from the position of the   *)
(* session.  Inside half of the space the comparisons are those of the     *)
(* distances, and every handler takes a list that is ordered by them to    *)
(* another one, seen from the position that it moves to.                   *)
(***************************************************************************)
EXTENDS BaTableProofs

Positions == 0 .. MAXSEQ

\* Reduction modulo M of what the code adds and subtracts, and half of the
\* space of sequence numbers.
LEMMA Reduce ==
  ASSUME NEW x \in Int
  PROVE  /\ 0 <= x /\ x < M => x % M = x
         /\ -M <= x /\ x < 0 => x % M = x + M
         /\ M <= x /\ x < 2 * M => x % M = x - M
  <1>0. M \in Nat \ {0}
    BY SequenceNumbers
  <1> HIDE DEF M
  <1>1. ASSUME 0 <= x, x < M PROVE x % M = x
    BY <1>0, <1>1
  <1>2. ASSUME -M <= x, x < 0 PROVE x % M = x + M
    BY <1>0, <1>2
  <1>3. ASSUME M <= x, x < 2 * M PROVE x % M = x - M
    BY <1>0, <1>3
  <1> QED
    BY <1>1, <1>2, <1>3

LEMMA Half == M \div 2 \in Nat /\ 2 * (M \div 2) = M /\ M \div 2 >= 1
  <1>1. M \in {2, 4, 8, 16, 32, 64, 128, 256, 512, 1024, 2048, 4096}
    BY ConstantsAssumption DEF ConstantsAssumption, M
  <1> HIDE DEF M
  <1> QED
    BY <1>1

-----------------------------------------------------------------------------
(* Distances from a position                                               *)
Far(p, s) == (s - p) % M

LEMMA FarIs ==
  ASSUME NEW p \in Positions, NEW s \in Positions
  PROVE  /\ Far(p, s) = IF s >= p THEN s - p ELSE s - p + M
         /\ Far(p, s) \in Positions
         /\ M = MAXSEQ + 1 /\ MAXSEQ \in Nat /\ M \in Nat
  <1>0. M = MAXSEQ + 1 /\ MAXSEQ \in Nat /\ M \in Nat
    BY SequenceNumbers
  <1> HIDE DEF M
  <1>1. p \in Nat /\ s \in Nat /\ p < M /\ s < M
    BY <1>0 DEF Positions
  <1>2. s - p \in Int /\ (s >= p => 0 <= s - p /\ s - p < M)
        /\ (~(s >= p) => -M <= s - p /\ s - p < 0)
    BY <1>0, <1>1
  <1>3. Far(p, s) = IF s >= p THEN s - p ELSE s - p + M
    BY <1>2, Reduce DEF Far
  <1> QED
    BY <1>0, <1>1, <1>3 DEF Positions

\* A position between p and s divides the distance.
LEMMA FarShift ==
  ASSUME NEW p \in Positions, NEW q \in Positions, NEW s \in Positions,
         Far(p, q) <= Far(p, s)
  PROVE  Far(q, s) = Far(p, s) - Far(p, q)
  <1> HIDE DEF M
  <1>1. /\ Far(p, s) = IF s >= p THEN s - p ELSE s - p + M
        /\ Far(p, q) = IF q >= p THEN q - p ELSE q - p + M
        /\ Far(q, s) = IF s >= q THEN s - q ELSE s - q + M
        /\ M = MAXSEQ + 1 /\ MAXSEQ \in Nat
    BY FarIs
  <1>2. p \in Nat /\ q \in Nat /\ s \in Nat /\ p < M /\ q < M /\ s < M
    BY <1>1 DEF Positions
  <1> QED
    BY <1>1, <1>2

\* The position k further.
LEMMA FarAdd ==
  ASSUME NEW p \in Positions, NEW k \in Positions
  PROVE  (p + k) % M \in Positions /\ Far(p, (p + k) % M) = k
  <1> HIDE DEF M
  <1>0. M = MAXSEQ + 1 /\ MAXSEQ \in Nat /\ p \in Nat /\ k \in Nat /\ p < M /\ k < M
    BY SequenceNumbers DEF Positions
  <1>1. (p + k) % M = IF p + k < M THEN p + k ELSE p + k - M
    <2>1. p + k \in Int /\ 0 <= p + k /\ p + k < 2 * M
      BY <1>0
    <2> QED
      BY <1>0, <2>1, Reduce
  <1> DEFINE q == (p + k) % M
  <1>2. q \in Positions
    BY <1>0, <1>1 DEF Positions
  <1>3. q = IF p + k < M THEN p + k ELSE p + k - M
    BY <1>1
  <1> HIDE DEF q
  <1>4. Far(p, q) = IF q >= p THEN q - p ELSE q - p + M
    BY <1>2, FarIs
  <1>5. Far(p, q) = k
    BY <1>0, <1>3, <1>4
  <1> QED
    BY <1>2, <1>5 DEF q

\* Two positions at the same distance are the same.
LEMMA FarSame ==
  ASSUME NEW p \in Positions, NEW s \in Positions, NEW t \in Positions,
         Far(p, s) = Far(p, t)
  PROVE  s = t
  <1> HIDE DEF M
  <1>1. /\ Far(p, s) = IF s >= p THEN s - p ELSE s - p + M
        /\ Far(p, t) = IF t >= p THEN t - p ELSE t - p + M
        /\ M = MAXSEQ + 1 /\ MAXSEQ \in Nat
    BY FarIs
  <1>2. p \in Nat /\ t \in Nat /\ s \in Nat /\ p < M /\ t < M /\ s < M
    BY <1>1 DEF Positions
  <1> DEFINE d == IF s >= p THEN s - p ELSE s - p + M
             e == IF t >= p THEN t - p ELSE t - p + M
  <1>3. d = e
    BY <1>1
  <1> QED
    BY <1>1, <1>2, <1>3

\* SEQ_SMALLER compares distances, as long as they stay within half the space.
LEMMA FarSmaller ==
  ASSUME NEW p \in Positions, NEW s \in Positions, NEW t \in Positions,
         2 * Far(p, s) < M, 2 * Far(p, t) <= M
  PROVE  SEQ_SMALLER(s, t) <=> Far(p, s) < Far(p, t)
  <1>0. M \div 2 \in Nat /\ 2 * (M \div 2) = M
    BY Half
  <1> DEFINE h == M \div 2
  <1>1. SEQ_SMALLER(s, t) <=> Far(t, s) >= h
    BY DEF SEQ_SMALLER, Far
  <1> HIDE DEF M, h
  <1>2. /\ Far(p, s) = IF s >= p THEN s - p ELSE s - p + M
        /\ Far(p, t) = IF t >= p THEN t - p ELSE t - p + M
        /\ Far(t, s) = IF s >= t THEN s - t ELSE s - t + M
        /\ M = MAXSEQ + 1 /\ MAXSEQ \in Nat
    BY FarIs
  <1>3. p \in Nat /\ t \in Nat /\ s \in Nat /\ p < M /\ t < M /\ s < M
    BY <1>2 DEF Positions
  <1>4. h \in Nat /\ 2 * h = M
    BY <1>0 DEF h
  <1>5. Far(t, s) >= h <=> Far(p, s) < Far(p, t)
    BY <1>2, <1>3, <1>4
  <1> QED
    BY <1>1, <1>5

-----------------------------------------------------------------------------
(* Ordered lists                                                           *)
At(l, i, p) == Far(p, Seq12(l[i]))

\* The frames of l follow position p at increasing distances between lo and hi.
Sorted(l, p, lo, hi) ==
  /\ \A i \in DOMAIN l : At(l, i, p) \in lo .. hi
  /\ \A i, j \in DOMAIN l : i < j => At(l, i, p) < At(l, j, p)

LEMMA AtIs ==
  ASSUME NEW l \in Seq(FrameType), NEW i \in 1 .. Len(l), NEW p \in Positions
  PROVE  /\ i \in DOMAIN l /\ l[i] \in FrameType /\ Seq12(l[i]) \in Positions
         /\ At(l, i, p) \in Nat /\ At(l, i, p) \in Positions
  <1>1. i \in DOMAIN l /\ l[i] \in FrameType
    OBVIOUS
  <1>2. Seq12(l[i]) \in Positions
    BY <1>1, FrameSeq DEF Positions
  <1>3. At(l, i, p) \in Positions
    BY <1>2, FarIs DEF At
  <1> QED
    BY <1>1, <1>2, <1>3 DEF Positions

LEMMA SortedWeaker ==
  ASSUME NEW l, NEW p, NEW lo \in Int, NEW hi \in Int, NEW lo2 \in Int, NEW hi2 \in Int,
         Sorted(l, p, lo, hi), lo2 <= lo, hi <= hi2
  PROVE  Sorted(l, p, lo2, hi2)
  BY DEF Sorted

LEMMA SortedEmpty ==
  ASSUME NEW p, NEW lo, NEW hi
  PROVE  Sorted(<<>>, p, lo, hi)
  BY DEF Sorted

\* What is left of a list when its first k frames have gone.
LEMMA SortedTail ==
  ASSUME NEW l \in Seq(FrameType), NEW p \in Positions, NEW lo \in Int, NEW hi \in Int,
         Sorted(l, p, lo, hi), NEW k \in 0 .. Len(l), NEW lo2 \in Int,
         \A i \in k + 1 .. Len(l) : At(l, i, p) >= lo2
  PROVE  Sorted(SubSeq(l, k + 1, Len(l)), p, lo2, hi)
  <1> DEFINE t == SubSeq(l, k + 1, Len(l))
  <1>1. t \in Seq(FrameType) /\ Len(t) = Len(l) - k
        /\ \A i \in 1 .. Len(l) - k : t[i] = l[k + i]
    BY SplitSeq
  <1>2. Len(l) \in Nat /\ DOMAIN t = 1 .. Len(l) - k /\ DOMAIN l = 1 .. Len(l)
    BY <1>1
  <1> HIDE DEF t
  <1>3. ASSUME NEW i \in DOMAIN t
        PROVE  k + i \in DOMAIN l /\ k + i \in k + 1 .. Len(l) /\ At(t, i, p) = At(l, k + i, p)
    <2>1. k + i \in k + 1 .. Len(l) /\ k + i \in 1 .. Len(l)
      BY <1>2
    <2>2. t[i] = l[k + i]
      BY <1>1, <1>2
    <2> QED
      BY <1>2, <2>1, <2>2 DEF At
  <1>4. ASSUME NEW i \in DOMAIN t PROVE At(t, i, p) \in lo2 .. hi
    <2>1. At(l, k + i, p) \in lo .. hi /\ At(l, k + i, p) >= lo2
      BY <1>3 DEF Sorted
    <2> QED
      BY <1>3, <2>1
  <1>5. ASSUME NEW i \in DOMAIN t, NEW j \in DOMAIN t, i < j
        PROVE  At(t, i, p) < At(t, j, p)
    <2>1. k + i < k + j
      BY <1>2, <1>5
    <2> QED
      BY <1>3, <2>1 DEF Sorted
  <1> QED
    BY <1>4, <1>5 DEF Sorted, t

\* A list seen from a position that no frame of it has reached.
LEMMA SortedMove ==
  ASSUME NEW l \in Seq(FrameType), NEW p \in Positions, NEW q \in Positions,
         NEW lo \in Int, NEW hi \in Int, Sorted(l, p, lo, hi), Far(p, q) <= lo
  PROVE  Sorted(l, q, lo - Far(p, q), hi - Far(p, q))
  <1> DEFINE d == Far(p, q)
  <1>0. d \in Nat /\ d <= lo
    BY FarIs DEF Positions
  <1>1. ASSUME NEW i \in DOMAIN l
        PROVE  At(l, i, p) \in lo .. hi /\ At(l, i, q) = At(l, i, p) - d
    <2>1. At(l, i, p) \in lo .. hi /\ Seq12(l[i]) \in Positions
      BY AtIs DEF Sorted
    <2>2. d <= Far(p, Seq12(l[i]))
      <3>1. Far(p, Seq12(l[i])) \in lo .. hi
        BY <2>1 DEF At
      <3> HIDE DEF d
      <3> QED
        BY <1>0, <3>1
    <2>3. Far(q, Seq12(l[i])) = Far(p, Seq12(l[i])) - Far(p, q)
      BY <2>1, <2>2, FarShift
    <2> QED
      BY <2>1, <2>3 DEF At
  <1> HIDE DEF d
  <1>2. \A i \in DOMAIN l : At(l, i, q) \in lo - d .. hi - d
    BY <1>0, <1>1
  <1>3. ASSUME NEW i \in DOMAIN l, NEW j \in DOMAIN l, i < j
        PROVE  At(l, i, q) < At(l, j, q)
    <2>1. At(l, i, p) < At(l, j, p)
      BY <1>3 DEF Sorted
    <2> QED
      BY <1>0, <1>1, <2>1
  <1> QED
    BY <1>2, <1>3 DEF Sorted, d

\* The longest run of positions that are all in G.
Runs(n, G) == {k \in 0 .. n : \A i \in 1 .. k : i \in G}

LEMMA LongestRun ==
  ASSUME NEW n \in Nat, NEW G
  PROVE  /\ Max(Runs(n, G)) \in 0 .. n
         /\ \A i \in 1 .. Max(Runs(n, G)) : i \in G
         /\ Max(Runs(n, G)) < n => Max(Runs(n, G)) + 1 \notin G
  <1> DEFINE run == Runs(n, G)
             k == Max(run)
  <1>1. run \in SUBSET (0 .. n) /\ 0 \in run
    BY DEF Runs
  <1> HIDE DEF run
  <1>2. k \in run /\ \A y \in run : y <= k
    BY <1>1, MaxIn
  <1> HIDE DEF k
  <1>3. k \in 0 .. n /\ \A i \in 1 .. k : i \in G
    BY <1>2 DEF Runs, run
  <1>4. ASSUME k < n, k + 1 \in G PROVE FALSE
    <2>1. k + 1 \in 0 .. n
      BY <1>3, <1>4
    <2>2. \A i \in 1 .. k + 1 : i \in 1 .. k \/ i = k + 1
      BY <1>3
    <2>3. k + 1 \in run
      BY <1>3, <1>4, <2>1, <2>2 DEF Runs, run
    <2> QED
      BY <1>2, <1>3, <2>3
  <1> QED
    BY <1>3, <1>4 DEF k, run

\* The frames up to t go: what stays is beyond t.
LEMMA LeSeqSorted ==
  ASSUME NEW c \in CtxType, NEW p \in Positions, NEW t \in Positions,
         NEW lo \in Nat, NEW hi \in Nat, Sorted(c.list, p, lo, hi),
         2 * hi < M, 2 * Far(p, t) <= M
  PROVE  /\ Sorted(LeSeq(c, t).list, p, lo, hi)
         /\ Sorted(LeSeq(c, t).list, p, Far(p, t) + 1, hi)
         /\ LeSeq(c, t).LastIndSeq = c.LastIndSeq /\ LeSeq(c, t).why = c.why
         /\ LeSeq(c, t).list \in Seq(FrameType)
  <1> DEFINE l == c.list
             G == {i \in 1 .. Len(l) : Seq12(l[i]) = t \/ SEQ_SMALLER(Seq12(l[i]), t)}
             run == {j \in 0 .. Len(l) :
                       \A i \in 1 .. j : Seq12(l[i]) = t \/ SEQ_SMALLER(Seq12(l[i]), t)}
             k == Max(run)
             d == Far(p, t)
  <1>0. l \in Seq(FrameType) /\ Len(l) \in Nat /\ d \in Nat /\ M \in Nat
    BY FarIs DEF CtxType, Positions
  <1>1. run = Runs(Len(l), G)
    <2> SUFFICES ASSUME NEW j \in 0 .. Len(l), NEW i \in 1 .. j PROVE i \in 1 .. Len(l)
      BY DEF Runs
    <2> QED
      BY <1>0
  <1> HIDE DEF run, G
  <1>2. k \in 0 .. Len(l) /\ (k < Len(l) => k + 1 \notin G)
    <2>1. k = Max(Runs(Len(l), G))
      BY <1>1
    <2> HIDE DEF k, l
    <2> QED
      BY <1>0, <2>1, LongestRun
  <1> HIDE DEF k
  <1>3. LeSeq(c, t) = Announce(c, k)
    BY DEF LeSeq, k, run
  <1>4. ASSUME NEW i \in k + 1 .. Len(l) PROVE At(l, i, p) >= d + 1 /\ At(l, i, p) >= lo
    <2> DEFINE a == At(l, i, p)
               b == At(l, k + 1, p)
    <2>1. k + 1 \in 1 .. Len(l) /\ i \in 1 .. Len(l) /\ k < Len(l) /\ (i = k + 1 \/ k + 1 < i)
      BY <1>0, <1>2
    <2>2. /\ k + 1 \in DOMAIN l /\ i \in DOMAIN l /\ a \in Nat /\ b \in Nat
          /\ Seq12(l[k + 1]) \in Positions
      BY <1>0, <2>1, AtIs
    <2>3. a \in lo .. hi /\ b \in lo .. hi /\ (k + 1 < i => b < a) /\ (i = k + 1 => a = b)
      BY <2>2 DEF Sorted
    <2>4. ~SEQ_SMALLER(Seq12(l[k + 1]), t) /\ Seq12(l[k + 1]) # t
      BY <1>2, <2>1 DEF G
    <2>5. b # d
      BY <2>2, <2>4, FarSame DEF At
    <2>6. ~(b < d)
      <3>1. 2 * Far(p, Seq12(l[k + 1])) < M
        <4> HIDE DEF b, d, M
        <4>1. 2 * b < M
          BY <1>0, <2>3
        <4> QED
          BY <4>1 DEF b, At
      <3> QED
        BY <2>2, <2>4, <3>1, FarSmaller DEF At
    <2> HIDE DEF a, b, d
    <2>7. a >= d + 1
      BY <1>0, <2>1, <2>2, <2>3, <2>5, <2>6
    <2>8. a >= lo
      BY <2>3
    <2> QED
      BY <2>7, <2>8 DEF a
  <1> HIDE DEF d
  <1>5. Sorted(SubSeq(l, k + 1, Len(l)), p, lo, hi)
        /\ Sorted(SubSeq(l, k + 1, Len(l)), p, d + 1, hi)
    <2>1. d + 1 \in Int
      BY <1>0
    <2> QED
      BY <1>0, <1>2, <1>4, <2>1, SortedTail
  <1>6. /\ Announce(c, k).list = SubSeq(l, k + 1, Len(l)) /\ Announce(c, k).why = c.why
        /\ Announce(c, k).LastIndSeq = c.LastIndSeq
        /\ Announce(c, k) \in CtxType
    BY <1>2, AnnounceKeeps DEF Keeps
  <1>7. Announce(c, k).list \in Seq(FrameType)
    BY <1>6 DEF CtxType
  <1> QED
    BY <1>3, <1>5, <1>6, <1>7 DEF d

\* The frames that continue p go: the next frame is not in the list.
LEMMA InOrderSorted ==
  ASSUME NEW c \in CtxType, NEW p \in Positions, c.LastIndSeq = p,
         NEW hi \in Positions, Sorted(c.list, p, 1, hi)
  PROVE  /\ Sorted(InOrder(c, p).list, InOrder(c, p).LastIndSeq, 2, hi)
         /\ InOrder(c, p).LastIndSeq \in Positions /\ InOrder(c, p).why = c.why
  <1> DEFINE l == c.list
             G == {i \in 1 .. Len(l) : Seq12(l[i]) = (p + i) % M}
             run == {j \in 0 .. Len(l) : \A i \in 1 .. j : Seq12(l[i]) = (p + i) % M}
             k == Max(run)
             q == IF k = 0 THEN p ELSE Seq12(l[k])
             r == SubSeq(l, k + 1, Len(l))
  <1>0. l \in Seq(FrameType) /\ Len(l) \in Nat /\ M \in Nat /\ M = MAXSEQ + 1 /\ MAXSEQ \in Nat
        /\ p \in Nat /\ hi \in Nat /\ hi <= MAXSEQ
    BY SequenceNumbers DEF CtxType, Positions
  <1>1. run = Runs(Len(l), G)
    <2> SUFFICES ASSUME NEW j \in 0 .. Len(l), NEW i \in 1 .. j PROVE i \in 1 .. Len(l)
      BY DEF Runs
    <2> QED
      BY <1>0
  <1> HIDE DEF run, G
  <1>2. k \in 0 .. Len(l) /\ (k < Len(l) => k + 1 \notin G) /\ \A i \in 1 .. k : i \in G
    <2>1. k = Max(Runs(Len(l), G))
      BY <1>1
    <2> HIDE DEF k, l
    <2> QED
      BY <1>0, <2>1, LongestRun
  <1> HIDE DEF k
  <1>3. InOrder(c, p) = IF k = 0 THEN c
                        ELSE [Announce(c, k) EXCEPT !.LastIndSeq = Seq12(l[k])]
    BY DEF InOrder, k, run
  <1>4. k \in Positions
    <2> SUFFICES ASSUME k >= M PROVE FALSE
      BY <1>0, <1>2 DEF Positions
    <2>1. M \in 1 .. k /\ M \in 1 .. Len(l)
      BY <1>0, <1>2
    <2>2. Seq12(l[M]) = (p + M) % M
      BY <1>2, <2>1 DEF G
    <2>3. (p + M) % M = p
      <3>1. p < M /\ p + M \in Int /\ M <= p + M /\ p + M < 2 * M /\ (p + M) - M = p
        BY <1>0 DEF Positions
      <3> QED
        BY <3>1, Reduce
    <2>4. Far(p, p) = 0
      <3>1. Far(p, p) = IF p >= p THEN p - p ELSE p - p + M
        BY FarIs
      <3> QED
        BY <1>0, <3>1
    <2>5. M \in DOMAIN l /\ At(l, M, p) \in 1 .. hi
      BY <1>0, <2>1, AtIs DEF Sorted
    <2> QED
      BY <2>2, <2>3, <2>4, <2>5 DEF At
  <1>5. q \in Positions /\ Far(p, q) = k
    <2>1. CASE k = 0
      <3>1. Far(p, p) = IF p >= p THEN p - p ELSE p - p + M
        BY FarIs
      <3> QED
        BY <1>0, <2>1, <3>1
    <2>2. CASE k # 0
      <3>1. k \in 1 .. k
        BY <1>0, <1>2, <2>2
      <3>2. q = (p + k) % M
        BY <1>2, <2>2, <3>1 DEF G
      <3> HIDE DEF q
      <3> QED
        BY <1>4, <3>2, FarAdd
    <2> QED
      BY <2>1, <2>2
  <1>6. ASSUME NEW i \in k + 1 .. Len(l) PROVE At(l, i, p) >= k + 2
    <2> DEFINE a == At(l, i, p)
               b == At(l, k + 1, p)
    <2>1. k + 1 \in 1 .. Len(l) /\ i \in 1 .. Len(l) /\ k < Len(l) /\ (i = k + 1 \/ k + 1 < i)
          /\ k \in Nat
      BY <1>0, <1>2
    <2>2. /\ k + 1 \in DOMAIN l /\ i \in DOMAIN l /\ a \in Nat /\ b \in Nat
          /\ Seq12(l[k + 1]) \in Positions
      BY <1>0, <2>1, AtIs
    <2>3. a \in 1 .. hi /\ b \in 1 .. hi /\ (k + 1 < i => b < a) /\ (i = k + 1 => a = b)
      BY <2>2 DEF Sorted
    <2>4. Seq12(l[k + 1]) # (p + (k + 1)) % M
      BY <1>2, <2>1 DEF G
    <2>5. b # k + 1
      <3> SUFFICES ASSUME b = k + 1 PROVE FALSE
        OBVIOUS
      <3>1. k + 1 \in Positions
        <4> HIDE DEF b
        <4> QED
          BY <1>0, <2>1, <2>3 DEF Positions
      <3> DEFINE t == (p + (k + 1)) % M
      <3>2. t \in Positions /\ Far(p, t) = k + 1
        BY <3>1, FarAdd
      <3> HIDE DEF t
      <3>3. Far(p, Seq12(l[k + 1])) = Far(p, t)
        BY <3>2 DEF At
      <3>4. Seq12(l[k + 1]) = t
        BY <2>2, <3>2, <3>3, FarSame
      <3> QED
        BY <2>4, <3>4 DEF t
    <2>6. b > k
      <3>1. CASE k = 0
        <4> HIDE DEF b
        <4> QED
          BY <2>3, <3>1
      <3>2. CASE k # 0
        <4>1. k \in 1 .. Len(l) /\ k < k + 1
          BY <1>2, <2>1, <3>2
        <4>2. k \in DOMAIN l
          BY <1>0, <4>1
        <4>3. At(l, k, p) < b
          BY <2>2, <4>1, <4>2 DEF Sorted
        <4>4. At(l, k, p) = k
          BY <1>5, <3>2 DEF At
        <4> HIDE DEF b
        <4> QED
          BY <2>1, <2>2, <4>3, <4>4
      <3> QED
        BY <3>1, <3>2
    <2> HIDE DEF a, b
    <2>7. a >= k + 2
      BY <2>1, <2>2, <2>3, <2>5, <2>6
    <2> QED
      BY <2>7 DEF a
  <1>7. Sorted(r, q, 2, hi) /\ r \in Seq(FrameType)
    <2>1. k \in Nat /\ k + 2 \in Int /\ 1 \in Int /\ hi \in Int /\ k <= k + 2 /\ (k + 2) - k = 2
          /\ hi - k \in Int /\ hi - k <= hi /\ 2 \in Int /\ 2 <= 2
      BY <1>0, <1>2
    <2>2. Sorted(r, p, k + 2, hi) /\ r \in Seq(FrameType)
      BY <1>0, <1>2, <1>6, <2>1, SortedTail, SplitSeq
    <2> HIDE DEF r, q
    <2>3. Far(p, q) <= k + 2
      BY <1>5, <2>1
    <2>4. Sorted(r, q, (k + 2) - Far(p, q), hi - Far(p, q))
      BY <1>5, <2>1, <2>2, <2>3, SortedMove
    <2>5. Sorted(r, q, 2, hi - k)
      BY <1>5, <2>1, <2>4
    <2> QED
      BY <2>1, <2>2, <2>5, SortedWeaker
  <1>8. CASE k = 0
    <2>1. InOrder(c, p) = c
      BY <1>3, <1>8
    <2>2. r = l
      BY <1>0, <1>8
    <2> QED
      BY <1>5, <1>7, <1>8, <2>1, <2>2
  <1>9. CASE k # 0
    <2> DEFINE d == Announce(c, k)
    <2>1. d \in CtxType /\ d.list = r /\ d.why = c.why
      BY <1>2, AnnounceKeeps DEF Keeps
    <2> HIDE DEF d, r
    <2>2. InOrder(c, p) = [d EXCEPT !.LastIndSeq = q]
      BY <1>3, <1>9 DEF d
    <2>3. InOrder(c, p).LastIndSeq = q /\ InOrder(c, p).list = r /\ InOrder(c, p).why = c.why
      BY <2>1, <2>2 DEF CtxType
    <2> QED
      BY <1>5, <1>7, <2>3
  <1> QED
    BY <1>8, <1>9

\* A frame goes to its place.
LEMMA InsertSortedSorted ==
  ASSUME NEW c \in CtxType, NEW fr \in FrameType, NEW p \in Positions,
         NEW lo \in Nat, NEW hi \in Nat, Sorted(c.list, p, lo, hi), 2 * hi < M,
         Far(p, Seq12(fr)) \in lo .. hi
  PROVE  /\ Sorted(InsertSorted(c, fr).list, p, lo, hi)
         /\ InsertSorted(c, fr).LastIndSeq = c.LastIndSeq
         /\ InsertSorted(c, fr).why = c.why
  <1> DEFINE l == c.list
             t == Seq12(fr)
             G == {i \in 1 .. Len(l) : SEQ_SMALLER(Seq12(l[i]), t)}
             run == {j \in 0 .. Len(l) : \A i \in 1 .. j : SEQ_SMALLER(Seq12(l[i]), t)}
             k == Max(run)
             d == Far(p, t)
             r == InsertAt(l, k + 1, fr)
  <1>0. l \in Seq(FrameType) /\ Len(l) \in Nat /\ d \in Nat /\ M \in Nat /\ t \in Positions
        /\ DOMAIN l = 1 .. Len(l)
    <2>1. t \in Positions
      BY FrameSeq DEF Positions
    <2> QED
      BY <2>1, FarIs DEF CtxType, Positions
  <1>1. run = Runs(Len(l), G)
    <2> SUFFICES ASSUME NEW j \in 0 .. Len(l), NEW i \in 1 .. j PROVE i \in 1 .. Len(l)
      BY DEF Runs
    <2> QED
      BY <1>0
  <1> HIDE DEF run, G
  <1>2. k \in 0 .. Len(l) /\ (k < Len(l) => k + 1 \notin G) /\ \A i \in 1 .. k : i \in G
    <2>1. k = Max(Runs(Len(l), G))
      BY <1>1
    <2> HIDE DEF k, l
    <2> QED
      BY <1>0, <2>1, LongestRun
  <1> HIDE DEF k
  <1>3. InsertSorted(c, fr) =
          IF k < Len(l) /\ Seq12(l[k + 1]) = t THEN c
          ELSE [c EXCEPT !.list = r, !.pool = c.pool - 1]
    BY DEF InsertSorted, k, run
  <1>4. CASE k < Len(l) /\ Seq12(l[k + 1]) = t
    BY <1>3, <1>4
  <1>5. CASE ~(k < Len(l) /\ Seq12(l[k + 1]) = t)
    <2>1. ASSUME NEW i \in 1 .. Len(l)
          PROVE  /\ At(l, i, p) \in lo .. hi /\ At(l, i, p) \in Nat
                 /\ Seq12(l[i]) \in Positions
                 /\ SEQ_SMALLER(Seq12(l[i]), t) <=> At(l, i, p) < d
      <3>1. At(l, i, p) \in lo .. hi /\ At(l, i, p) \in Nat /\ Seq12(l[i]) \in Positions
        BY <1>0, AtIs DEF Sorted
      <3>2. 2 * At(l, i, p) < M /\ 2 * d <= M
        <4> DEFINE a == At(l, i, p)
        <4>1. a \in lo .. hi /\ d \in lo .. hi
          BY <3>1
        <4> HIDE DEF a, d, M
        <4>2. 2 * a < M /\ 2 * d <= M
          BY <1>0, <4>1
        <4> QED
          BY <4>2 DEF a
      <3> QED
        BY <1>0, <3>1, <3>2, FarSmaller DEF At
    <2>2. ASSUME NEW i \in 1 .. k PROVE i \in 1 .. Len(l) /\ At(l, i, p) < d
      <3>1. i \in 1 .. Len(l) /\ i \in G
        BY <1>0, <1>2
      <3> QED
        BY <2>1, <3>1 DEF G
    <2>3. ASSUME NEW i \in k + 1 .. Len(l) PROVE i \in 1 .. Len(l) /\ d < At(l, i, p)
      <3> DEFINE a == At(l, i, p)
                 b == At(l, k + 1, p)
      <3>1. k + 1 \in 1 .. Len(l) /\ i \in 1 .. Len(l) /\ k < Len(l)
            /\ (i = k + 1 \/ k + 1 < i)
        BY <1>0, <1>2
      <3>2. a \in Nat /\ b \in Nat /\ (k + 1 < i => b < a) /\ (i = k + 1 => a = b)
        BY <1>0, <2>1, <3>1 DEF Sorted
      <3>3. ~(b < d)
        BY <1>2, <2>1, <3>1 DEF G
      <3>4. b # d
        <4>1. Seq12(l[k + 1]) # t /\ Seq12(l[k + 1]) \in Positions
          BY <1>5, <2>1, <3>1
        <4> QED
          BY <1>0, <4>1, FarSame DEF At
      <3> HIDE DEF a, b, d
      <3>5. d < a
        BY <1>0, <3>1, <3>2, <3>3, <3>4
      <3> QED
        BY <3>1, <3>5 DEF a
    <2>4. /\ r \in Seq(FrameType) /\ Len(r) = Len(l) + 1
          /\ \A i \in 1 .. k : r[i] = l[i]
          /\ r[k + 1] = fr
          /\ \A i \in k + 2 .. Len(l) + 1 : r[i] = l[i - 1]
      <3>1. ASSUME NEW T, NEW s \in Seq(T), NEW j \in 0 .. Len(s), NEW x \in T
            PROVE  InsertAt(s, j + 1, x) \in Seq(T)
        BY InsertSeq
      <3>8. ASSUME NEW T, NEW s \in Seq(T), NEW j \in 0 .. Len(s), NEW x \in T
            PROVE  Len(InsertAt(s, j + 1, x)) = Len(s) + 1
        BY InsertSeq
      <3>3. ASSUME NEW T, NEW s \in Seq(T), NEW j \in 0 .. Len(s), NEW x \in T
            PROVE  /\ \A i \in 1 .. j : InsertAt(s, j + 1, x)[i] = s[i]
                   /\ InsertAt(s, j + 1, x)[j + 1] = x
        BY InsertSeq
      <3>4. ASSUME NEW T, NEW s \in Seq(T), NEW j \in 0 .. Len(s), NEW x \in T
            PROVE  \A i \in j + 2 .. Len(s) + 1 : InsertAt(s, j + 1, x)[i] = s[i - 1]
        BY InsertSeq
      <3> HIDE DEF l
      <3>2. r = InsertAt(l, k + 1, fr)
        OBVIOUS
      <3> HIDE DEF r
      <3>5. r \in Seq(FrameType) /\ Len(r) = Len(l) + 1
        BY <1>0, <1>2, <3>1, <3>2, <3>8
      <3>6. (\A i \in 1 .. k : r[i] = l[i]) /\ r[k + 1] = fr
        BY <1>0, <1>2, <3>3, <3>2
      <3>7. \A i \in k + 2 .. Len(l) + 1 : r[i] = l[i - 1]
        BY <1>0, <1>2, <3>4, <3>2
      <3> QED
        BY <3>5, <3>6, <3>7
    <2> HIDE DEF r
    <2>5. DOMAIN r = 1 .. Len(l) + 1
      BY <1>0, <2>4
    <2>6. ASSUME NEW i \in DOMAIN r
          PROVE  \/ i \in 1 .. k /\ At(r, i, p) = At(l, i, p)
                 \/ i = k + 1 /\ At(r, i, p) = d
                 \/ i - 1 \in k + 1 .. Len(l) /\ At(r, i, p) = At(l, i - 1, p)
      <3>1. i \in 1 .. k \/ i = k + 1 \/ i - 1 \in k + 1 .. Len(l)
        BY <1>0, <1>2, <2>5
      <3>2. CASE i \in 1 .. k
        BY <2>4, <3>2 DEF At
      <3>3. CASE i = k + 1
        BY <2>4, <3>3 DEF At
      <3>4. CASE i - 1 \in k + 1 .. Len(l)
        <4>1. i \in k + 2 .. Len(l) + 1
          BY <1>0, <1>2, <2>5, <3>4
        <4>2. r[i] = l[i - 1]
          BY <2>4, <4>1
        <4> QED
          BY <3>4, <4>2 DEF At
      <3> QED
        BY <3>1, <3>2, <3>3, <3>4
    <2>7. ASSUME NEW i \in DOMAIN r PROVE At(r, i, p) \in lo .. hi
      <3>1. d \in lo .. hi
        OBVIOUS
      <3> HIDE DEF d
      <3> QED
        BY <2>1, <2>2, <2>3, <2>6, <3>1
    <2>8. ASSUME NEW i \in DOMAIN r, NEW j \in DOMAIN r, i < j
          PROVE  At(r, i, p) < At(r, j, p)
      <3>0. i \in Nat /\ j \in Nat /\ k \in Nat
        BY <1>0, <1>2, <2>5
      <3> HIDE DEF d
      <3>1. CASE i \in 1 .. k /\ At(r, i, p) = At(l, i, p)
        <4>1. At(l, i, p) < d /\ i \in 1 .. Len(l) /\ At(l, i, p) \in Nat
          BY <2>1, <2>2, <3>1
        <4>2. CASE j \in 1 .. k /\ At(r, j, p) = At(l, j, p)
          BY <1>0, <2>2, <2>8, <3>1, <4>1, <4>2 DEF Sorted
        <4>3. CASE j = k + 1 /\ At(r, j, p) = d
          BY <3>1, <4>1, <4>3
        <4>4. CASE j - 1 \in k + 1 .. Len(l) /\ At(r, j, p) = At(l, j - 1, p)
          <5>1. d < At(l, j - 1, p) /\ At(l, j - 1, p) \in Nat
            BY <2>1, <2>3, <4>4
          <5> QED
            BY <1>0, <3>1, <4>1, <4>4, <5>1
        <4> QED
          BY <2>6, <4>2, <4>3, <4>4
      <3>2. CASE i = k + 1 /\ At(r, i, p) = d
        <4>1. j - 1 \in k + 1 .. Len(l) /\ At(r, j, p) = At(l, j - 1, p)
          <5>1. ~(j \in 1 .. k) /\ j # k + 1
            BY <2>8, <3>0, <3>2
          <5> QED
            BY <2>6, <5>1
        <4> QED
          BY <2>3, <3>2, <4>1
      <3>3. CASE i - 1 \in k + 1 .. Len(l) /\ At(r, i, p) = At(l, i - 1, p)
        <4>1. j - 1 \in k + 1 .. Len(l) /\ At(r, j, p) = At(l, j - 1, p)
          <5>1. ~(j \in 1 .. k) /\ j # k + 1
            BY <2>8, <3>0, <3>3
          <5> QED
            BY <2>6, <5>1
        <4>2. i - 1 \in DOMAIN l /\ j - 1 \in DOMAIN l /\ i - 1 < j - 1
          BY <1>0, <2>3, <2>8, <3>0, <3>3, <4>1
        <4> QED
          BY <3>3, <4>1, <4>2 DEF Sorted
      <3> QED
        BY <2>6, <3>1, <3>2, <3>3
    <2>9. Sorted(r, p, lo, hi)
      BY <2>7, <2>8 DEF Sorted
    <2>10. InsertSorted(c, fr) = [c EXCEPT !.list = r, !.pool = c.pool - 1]
      BY <1>3, <1>5
    <2> QED
      BY <2>9, <2>10 DEF CtxType
  <1> QED
    BY <1>4, <1>5

-----------------------------------------------------------------------------
(* What the handlers do to the position and the causes                     *)
LEMMA WindowHalf ==
  ASSUME NEW W \in Windows
  PROVE  W \in Nat /\ 2 * (W + 1) <= M /\ W \in Positions /\ M \in Nat
  <1> DEFINE S == {RxBAWinLimit, DefaultWin}
             n == RxBAWinLimit + DefaultWin
  <1>0. /\ RxBAWinLimit \in Nat /\ DefaultWin \in Nat /\ MAXSEQ \in Nat
        /\ \A w \in S : 2 * (w + 1) <= MAXSEQ + 1
    BY ConstantsAssumption DEF ConstantsAssumption
  <1>1. n \in Nat /\ S \in SUBSET (0 .. n) /\ S # {}
    BY <1>0
  <1>2. Max(S) \in S
    <2> HIDE DEF S, n
    <2> QED
      BY <1>1, MaxIn
  <1>3. Max(S) \in Nat /\ 2 * (Max(S) + 1) <= MAXSEQ + 1
    BY <1>0, <1>2
  <1>4. W \in 0 .. Max(S)
    BY DEF Windows
  <1> HIDE DEF S
  <1>5. W \in Nat /\ 2 * (W + 1) <= MAXSEQ + 1 /\ W <= MAXSEQ
    BY <1>0, <1>3, <1>4
  <1> QED
    BY <1>0, <1>5 DEF M, Positions

LEMMA LeSeqMoves ==
  ASSUME NEW c \in CtxType, NEW t \in Int
  PROVE  /\ LeSeq(c, t).LastIndSeq = c.LastIndSeq /\ LeSeq(c, t).why = c.why
         /\ c.list = <<>> => LeSeq(c, t).list = <<>>
  <1> DEFINE run == {k \in 0 .. Len(c.list) :
                       \A i \in 1 .. k : \/ Seq12(c.list[i]) = t
                                         \/ SEQ_SMALLER(Seq12(c.list[i]), t)}
             k == Max(run)
  <1>0. c.list \in Seq(FrameType) /\ Len(c.list) \in Nat
    BY DEF CtxType
  <1>1. k \in 0 .. Len(c.list)
    <2>1. 0 \in run /\ run \in SUBSET (0 .. Len(c.list))
      BY <1>0
    <2> HIDE DEF run
    <2> QED
      BY <1>0, <2>1, MaxIn
  <1>2. LeSeq(c, t) = Announce(c, k)
    BY DEF LeSeq
  <1> HIDE DEF k
  <1>3. /\ Announce(c, k).LastIndSeq = c.LastIndSeq /\ Announce(c, k).why = c.why
        /\ Announce(c, k).list = SubSeq(c.list, k + 1, Len(c.list))
    BY <1>1, AnnounceKeeps
  <1>4. ASSUME c.list = <<>> PROVE SubSeq(c.list, k + 1, Len(c.list)) = <<>>
    <2>1. Len(c.list) = 0 /\ k = 0
      BY <1>1, <1>4
    <2> QED
      BY <1>0, <1>4, <2>1
  <1> QED
    BY <1>2, <1>3, <1>4

LEMMA InOrderMoves ==
  ASSUME NEW c \in CtxType, NEW seq \in Int, c.LastIndSeq \in Positions
  PROVE  /\ InOrder(c, seq).LastIndSeq \in Positions /\ InOrder(c, seq).why = c.why
         /\ c.list = <<>> => InOrder(c, seq) = c
  <1> DEFINE run == {k \in 0 .. Len(c.list) :
                       \A i \in 1 .. k : Seq12(c.list[i]) = (seq + i) % M}
             k == Max(run)
  <1>0. c.list \in Seq(FrameType) /\ Len(c.list) \in Nat
    BY DEF CtxType
  <1>1. k \in 0 .. Len(c.list)
    <2>1. 0 \in run /\ run \in SUBSET (0 .. Len(c.list))
      BY <1>0
    <2> HIDE DEF run
    <2> QED
      BY <1>0, <2>1, MaxIn
  <1>2. InOrder(c, seq) = IF k = 0 THEN c
                          ELSE [Announce(c, k) EXCEPT !.LastIndSeq = Seq12(c.list[k])]
    BY DEF InOrder
  <1> HIDE DEF k
  <1>3. CASE k = 0
    BY <1>2, <1>3
  <1>4. CASE k # 0
    <2>1. c.list[k] \in FrameType /\ c.list # <<>>
      BY <1>0, <1>1, <1>4
    <2>2. Seq12(c.list[k]) \in Positions
      BY <2>1, FrameSeq DEF Positions
    <2> DEFINE d == Announce(c, k)
    <2>3. d \in CtxType /\ d.why = c.why
      BY <1>1, AnnounceKeeps DEF Keeps
    <2> HIDE DEF d
    <2>4. InOrder(c, seq) = [d EXCEPT !.LastIndSeq = Seq12(c.list[k])]
      BY <1>2, <1>4 DEF d
    <2>5. InOrder(c, seq).LastIndSeq = Seq12(c.list[k]) /\ InOrder(c, seq).why = d.why
      BY <2>3, <2>4 DEF CtxType
    <2> QED
      BY <2>1, <2>2, <2>3, <2>5
  <1> QED
    BY <1>3, <1>4

LEMMA InsertMoves ==
  ASSUME NEW c \in CtxType, NEW fr \in FrameType
  PROVE  InsertSorted(c, fr).LastIndSeq = c.LastIndSeq /\ InsertSorted(c, fr).why = c.why
  <1> DEFINE k == Max({j \in 0 .. Len(c.list) :
                         \A i \in 1 .. j : SEQ_SMALLER(Seq12(c.list[i]), Seq12(fr))})
             d == [c EXCEPT !.list = InsertAt(c.list, k + 1, fr), !.pool = c.pool - 1]
  <1>1. InsertSorted(c, fr) \in {c, d}
    BY DEF InsertSorted
  <1>2. d.LastIndSeq = c.LastIndSeq /\ d.why = c.why
    BY DEF CtxType
  <1> HIDE DEF d
  <1> QED
    BY <1>1, <1>2

\* A frame is put into the list, or passed up with all that is not later.
LEMMA EnqueueIs ==
  ASSUME NEW c \in CtxType, NEW fr \in FrameType
  PROVE  \/ Enqueue(c, fr) = InsertSorted(c, fr)
         \/ \E a \in CtxType :
              /\ a.list = c.list /\ a.why = c.why /\ a.LastIndSeq = c.LastIndSeq
              /\ Enqueue(c, fr).list = LeSeq(a, Seq12(fr)).list
              /\ Enqueue(c, fr).LastIndSeq = Seq12(fr)
              /\ c.why \subseteq Enqueue(c, fr).why
  <1> DEFINE leak == IF c.pool > 0 THEN 1 ELSE 0
             a == [c EXCEPT !.pool = c.pool - leak, !.leaked = c.leaked + leak]
             d == LeSeq(a, Seq12(fr))
             w == d.why \cup {"direct"} \cup Again(c, Seq12(fr))
             e == [d EXCEPT !.LastIndSeq = Seq12(fr), !.why = w]
  <1>1. CASE c.pool > 0 /\ fr.n \notin EapFrames
    BY <1>1 DEF Enqueue
  <1>2. CASE ~(c.pool > 0 /\ fr.n \notin EapFrames)
    <2>0. c.pool \in Nat /\ c.leaked \in Nat
      BY DEF CtxType
    <2>1. leak \in Nat /\ c.pool - leak \in Nat /\ c.leaked + leak \in Nat
      BY <2>0
    <2>2. Enqueue(c, fr) = Indicate(e, fr)
      BY <1>2 DEF Enqueue
    <2> HIDE DEF leak
    <2>3. a \in CtxType
      BY <2>1 DEF CtxType
    <2>4. a.list = c.list /\ a.why = c.why /\ a.LastIndSeq = c.LastIndSeq
      BY DEF CtxType
    <2> HIDE DEF a
    <2>5. Seq12(fr) \in 0 .. MAXSEQ /\ Seq12(fr) \in Int
      BY FrameSeq
    <2>6. d \in CtxType /\ d.why = a.why
      BY <2>3, <2>5, LeSeqKeeps, LeSeqMoves
    <2>7. d.list = LeSeq(a, Seq12(fr)).list
      OBVIOUS
    <2> HIDE DEF d
    <2>8. c.why \subseteq w
      BY <2>4, <2>6
    <2> HIDE DEF w
    <2>9. e.list = d.list /\ e.LastIndSeq = Seq12(fr) /\ e.why = w
      BY <2>6 DEF CtxType
    <2>10. /\ Indicate(e, fr).list = e.list /\ Indicate(e, fr).why = e.why
           /\ Indicate(e, fr).LastIndSeq = e.LastIndSeq
      BY <2>6 DEF CtxType, Indicate
    <2> HIDE DEF e
    <2> QED
      BY <2>2, <2>3, <2>4, <2>7, <2>8, <2>9, <2>10
  <1> QED
    BY <1>1, <1>2

LEMMA EnqueueMoves ==
  ASSUME NEW c \in CtxType, NEW fr \in FrameType, c.LastIndSeq \in Positions
  PROVE  Enqueue(c, fr).LastIndSeq \in Positions /\ c.why \subseteq Enqueue(c, fr).why
  <1>1. Seq12(fr) \in Positions
    BY FrameSeq DEF Positions
  <1> QED
    BY <1>1, EnqueueIs, InsertMoves

\* What stays of a list of the window after a frame of the window was put in
\* or passed up directly.
LEMMA EnqueueSorted ==
  ASSUME NEW c \in CtxType, NEW fr \in FrameType, NEW p \in Positions,
         c.LastIndSeq = p, NEW lo \in Nat, NEW hi \in Nat,
         Sorted(c.list, p, lo, hi), 2 * hi < M, Far(p, Seq12(fr)) \in lo .. hi
  PROVE  \/ /\ Enqueue(c, fr).LastIndSeq = p
            /\ Sorted(Enqueue(c, fr).list, p, lo, hi)
         \/ /\ Enqueue(c, fr).LastIndSeq = Seq12(fr)
            /\ Sorted(Enqueue(c, fr).list, Seq12(fr), 1, hi - Far(p, Seq12(fr)))
  <1> DEFINE t == Seq12(fr)
             d == Far(p, t)
  <1>0. t \in Positions /\ d \in Nat /\ M \in Nat
    <2>1. t \in Positions
      BY FrameSeq DEF Positions
    <2> QED
      BY <2>1, FarIs DEF Positions
  <1>1. CASE Enqueue(c, fr) = InsertSorted(c, fr)
    <2>1. Sorted(InsertSorted(c, fr).list, p, lo, hi)
      BY InsertSortedSorted
    <2>2. InsertSorted(c, fr).LastIndSeq = p
      BY InsertMoves
    <2> QED
      BY <1>1, <2>1, <2>2
  <1>2. ASSUME NEW a \in CtxType, a.list = c.list, Enqueue(c, fr).list = LeSeq(a, t).list,
               Enqueue(c, fr).LastIndSeq = t
        PROVE  Sorted(Enqueue(c, fr).list, t, 1, hi - d)
    <2> DEFINE l == LeSeq(a, t).list
    <2>1. 2 * d <= M
      <3>1. d \in lo .. hi
        OBVIOUS
      <3> HIDE DEF d, M
      <3> QED
        BY <1>0, <3>1
    <2>2. Sorted(l, p, d + 1, hi) /\ l \in Seq(FrameType)
      BY <1>0, <1>2, <2>1, LeSeqSorted
    <2> HIDE DEF l, t
    <2>3. d + 1 \in Int /\ hi \in Int /\ d <= d + 1 /\ (d + 1) - d = 1
      <3> HIDE DEF d
      <3> QED
        BY <1>0
    <2>4. Sorted(l, t, (d + 1) - d, hi - d)
      BY <1>0, <2>2, <2>3, SortedMove
    <2> QED
      BY <1>2, <2>3, <2>4 DEF l
  <1> QED
    BY <1>1, <1>2, EnqueueIs

-----------------------------------------------------------------------------
(* The handlers keep a list in its window                                  *)

\* A session with a position: its list is ordered, inside the window and does
\* not hold the next frame, unless a copy is stuck in it.
Tidy(c) ==
  /\ c.LastIndSeq \in Positions
  /\ "stuck" \in c.why \/ Sorted(c.list, c.LastIndSeq, 2, c.BAWinSize)

Fine(c) == c.list = <<>> \/ Tidy(c)

LEMMA FineTidy ==
  ASSUME NEW c \in CtxType, Fine(c), c.LastIndSeq # RESET
  PROVE  Tidy(c)
  <1>1. c.LastIndSeq \in Positions
    BY DEF CtxType, Positions
  <1> QED
    BY <1>1, SortedEmpty DEF Fine, Tidy

LEMMA SortedHead ==
  ASSUME NEW l \in Seq(FrameType), NEW p \in Positions, NEW hi \in Int,
         Sorted(l, p, 1, hi), l = <<>> \/ ~SEQ_STEPONE(Seq12(Head(l)), p)
  PROVE  Sorted(l, p, 2, hi)
  <1>0. Len(l) \in Nat /\ DOMAIN l = 1 .. Len(l)
    OBVIOUS
  <1>1. CASE l = <<>>
    BY <1>1, SortedEmpty
  <1>2. CASE l # <<>>
    <2>1. 1 \in 1 .. Len(l) /\ 1 \in DOMAIN l /\ Head(l) = l[1]
      BY <1>0, <1>2
    <2>2. Seq12(l[1]) \in Positions /\ At(l, 1, p) \in Nat
      BY <2>1, AtIs
    <2>3. At(l, 1, p) # 1
      <3>1. 1 \in Positions
        BY Half, SequenceNumbers DEF Positions
      <3>2. (p + 1) % M \in Positions /\ Far(p, (p + 1) % M) = 1
        BY <3>1, FarAdd
      <3>3. Seq12(l[1]) # (p + 1) % M
        BY <1>2, <2>1 DEF SEQ_STEPONE
      <3> DEFINE q == (p + 1) % M
      <3> HIDE DEF q
      <3>4. q \in Positions /\ Far(p, q) = 1 /\ Seq12(l[1]) # q
        BY <3>2, <3>3 DEF q
      <3> QED
        BY <2>2, <3>4, FarSame DEF At
    <2>4. ASSUME NEW i \in DOMAIN l PROVE At(l, i, p) \in 2 .. hi
      <3>1. At(l, i, p) \in 1 .. hi /\ At(l, 1, p) \in 1 .. hi
        BY <2>1 DEF Sorted
      <3>2. CASE i = 1
        BY <2>3, <3>1, <3>2
      <3>3. CASE i # 1
        <4>1. 1 < i
          BY <1>0, <3>3
        <4>2. At(l, 1, p) < At(l, i, p)
          BY <2>1, <4>1 DEF Sorted
        <4> QED
          BY <3>1, <4>2
      <3> QED
        BY <3>2, <3>3
    <2> QED
      BY <2>4 DEF Sorted
  <1> QED
    BY <1>1, <1>2

LEMMA TidyWithin ==
  ASSUME NEW c \in CtxType, NEW fr \in FrameType, Tidy(c),
         Far(c.LastIndSeq, Seq12(fr)) \in 2 .. c.BAWinSize
  PROVE  Tidy(WithinWindow(c, fr)) /\ c.why \subseteq WithinWindow(c, fr).why
  <1> DEFINE p == c.LastIndSeq
             W == c.BAWinSize
             t == Seq12(fr)
             d == Enqueue(c, fr)
             s == d.list # <<>> /\ SEQ_STEPONE(Seq12(Head(d.list)), d.LastIndSeq)
             e == [d EXCEPT !.why = d.why \cup {"stuck"}]
             r == WithinWindow(c, fr)
  <1>0. p \in Positions /\ W \in Windows
    BY DEF Tidy, CtxType
  <1>1. W \in Nat /\ 2 * (W + 1) <= M /\ M \in Nat /\ 2 \in Nat
    BY <1>0, WindowHalf
  <1>2. r = IF s THEN e ELSE d
    BY DEF WithinWindow
  <1>3. d \in CtxType /\ d.LastIndSeq \in Positions /\ c.why \subseteq d.why
        /\ d.BAWinSize = W
    BY <1>0, EnqueueKeeps, EnqueueMoves DEF Keeps
  <1>4. CASE "stuck" \in c.why \/ s
    <2> HIDE DEF d, s, r
    <2>1. /\ e.LastIndSeq = d.LastIndSeq /\ e.why = d.why \cup {"stuck"}
      BY <1>3 DEF CtxType
    <2> HIDE DEF e
    <2> QED
      BY <1>2, <1>3, <1>4, <2>1 DEF Tidy, r
  <1>5. CASE "stuck" \notin c.why /\ ~s
    <2>0. Sorted(c.list, p, 2, W)
      BY <1>5 DEF Tidy
    <2>1. 2 * W < M
      <3> HIDE DEF W, M
      <3> QED
        BY <1>1
    <2>2. \/ d.LastIndSeq = p /\ Sorted(d.list, p, 2, W)
          \/ d.LastIndSeq = t /\ Sorted(d.list, t, 1, W - Far(p, t))
      BY <1>0, <1>1, <2>0, <2>1, EnqueueSorted
    <2>3. d.list \in Seq(FrameType) /\ (d.list = <<>> \/ ~SEQ_STEPONE(Seq12(Head(d.list)), d.LastIndSeq))
      BY <1>3, <1>5 DEF CtxType
    <2> HIDE DEF d, t, r
    <2>4. CASE d.LastIndSeq = t /\ Sorted(d.list, t, 1, W - Far(p, t))
      <3>1. Far(p, t) \in 2 .. W
        BY DEF t
      <3> DEFINE D == Far(p, t)
      <3> HIDE DEF D, W
      <3>2. W - D \in Int /\ W - D <= W /\ 2 \in Int /\ 2 <= 2 /\ W \in Int
        BY <1>1, <3>1 DEF D
      <3>3. Sorted(d.list, t, 2, W - D)
        BY <1>3, <2>3, <2>4, <3>2, SortedHead DEF D
      <3>4. Sorted(d.list, t, 2, W)
        BY <3>2, <3>3, SortedWeaker
      <3> QED
        BY <1>2, <1>3, <1>5, <2>4, <3>4 DEF Tidy, r
    <2>5. CASE d.LastIndSeq = p /\ Sorted(d.list, p, 2, W)
      BY <1>2, <1>3, <1>5, <2>5 DEF Tidy, r
    <2> QED
      BY <2>2, <2>4, <2>5
  <1> QED
    BY <1>4, <1>5

\* Where the window starts that ends with frame t.
LEMMA WinStart ==
  ASSUME NEW p \in Positions, NEW t \in Positions, NEW W \in Nat, W <= Far(p, t)
  PROVE  /\ (t - W) % M \in Positions
         /\ Far(p, (t - W) % M) = Far(p, t) - W
         /\ Far((t - W) % M, t) = W
  <1> DEFINE q == (t - W) % M
             D == Far(p, t)
  <1> HIDE DEF M
  <1>0. M = MAXSEQ + 1 /\ MAXSEQ \in Nat /\ p \in Nat /\ t \in Nat /\ p < M /\ t < M
    BY SequenceNumbers DEF Positions
  <1>1. D = (IF t >= p THEN t - p ELSE t - p + M) /\ D \in Positions /\ D \in Nat
    BY FarIs DEF Positions
  <1> HIDE DEF D
  <1>2. W <= D /\ D < M
    BY <1>0, <1>1 DEF D, Positions
  <1>3. q = IF t >= W THEN t - W ELSE t - W + M
    <2>1. t - W \in Int /\ -M <= t - W /\ t - W < M
      BY <1>0, <1>1, <1>2
    <2>2. CASE t >= W
      <3>1. 0 <= t - W
        BY <1>0, <2>2
      <3> QED
        BY <2>1, <2>2, <3>1, Reduce
    <2>3. CASE ~(t >= W)
      <3>1. t - W < 0
        BY <1>0, <2>3
      <3> QED
        BY <2>1, <2>3, <3>1, Reduce
    <2> QED
      BY <2>2, <2>3
  <1>4. q \in Positions
    BY <1>0, <1>1, <1>2, <1>3 DEF Positions
  <1> HIDE DEF q
  <1>5. Far(p, q) = IF q >= p THEN q - p ELSE q - p + M
    BY <1>4, FarIs
  <1>6. Far(p, q) = D - W
    BY <1>0, <1>1, <1>2, <1>3, <1>5
  <1>7. Far(q, t) = Far(p, t) - Far(p, q)
    <2>1. D - W <= D
      BY <1>1
    <2>2. Far(p, q) <= Far(p, t)
      BY <1>6, <2>1 DEF D
    <2> QED
      BY <1>4, <2>2, FarShift
  <1>8. Far(q, t) = W
    BY <1>1, <1>6, <1>7 DEF D
  <1> QED
    BY <1>4, <1>6, <1>8 DEF q, D

LEMMA TidyBeyond ==
  ASSUME NEW c \in CtxType, NEW fr \in FrameType, Tidy(c), c.BAWinSize >= 1,
         Far(c.LastIndSeq, Seq12(fr)) > c.BAWinSize,
         2 * Far(c.LastIndSeq, Seq12(fr)) <= M
  PROVE  Tidy(BeyondWindow(c, fr)) /\ c.why \subseteq BeyondWindow(c, fr).why
  <1> DEFINE p == c.LastIndSeq
             W == c.BAWinSize
             t == Seq12(fr)
             D == Far(p, t)
             s == WinStartSeq(c, fr)
             a == LeSeq(c, s)
             b == [a EXCEPT !.LastIndSeq = s]
             d == Enqueue(b, fr)
             r == InOrder(d, d.LastIndSeq)
  <1>0. p \in Positions /\ W \in Windows /\ t \in Positions
    BY FrameSeq DEF Tidy, CtxType, Positions
  <1>1. W \in Nat /\ 2 * (W + 1) <= M /\ M \in Nat /\ W \in Positions /\ W >= 1
    BY <1>0, WindowHalf
  <1>2. D \in Nat /\ W <= D /\ W < D /\ 2 * D <= M
    <2>1. D \in Nat
      BY <1>0, FarIs DEF Positions
    <2> QED
      BY <1>1, <2>1
  <1>3. s \in Positions /\ Far(p, s) = D - W /\ Far(s, t) = W
    BY <1>0, <1>1, <1>2, WinStart DEF WinStartSeq
  <1>4. BeyondWindow(c, fr) = r
    BY DEF BeyondWindow
  <1> HIDE DEF s
  <1>5. s \in Int /\ s \in {RESET} \cup 0 .. MAXSEQ /\ s \in Nat
    BY <1>3 DEF Positions
  <1>6. Keeps(c, a) /\ a \in CtxType /\ a.why = c.why
    BY <1>5, LeSeqKeeps, LeSeqMoves
  <1>7. /\ b \in CtxType /\ b.why = c.why /\ b.list = a.list /\ b.LastIndSeq = s
        /\ b.BAWinSize = W
    <2> HIDE DEF a
    <2> QED
      BY <1>5, <1>6 DEF CtxType, Keeps
  <1> HIDE DEF b
  <1>8. d \in CtxType /\ d.LastIndSeq \in Positions /\ c.why \subseteq d.why
        /\ d.BAWinSize = W
    BY <1>3, <1>7, EnqueueKeeps, EnqueueMoves DEF Keeps
  <1>9. d.LastIndSeq \in Int
    BY <1>8, SequenceNumbers DEF Positions
  <1>10. /\ r.LastIndSeq \in Positions /\ r.why = d.why /\ (d.list = <<>> => r = d)
         /\ r.BAWinSize = W
    BY <1>8, <1>9, InOrderMoves, InOrderKeeps DEF Keeps
  <1>11. ASSUME "stuck" \notin c.why PROVE Sorted(r.list, r.LastIndSeq, 2, W)
    <2>0. Sorted(c.list, p, 2, W)
      BY <1>11 DEF Tidy
    <2>1. 2 * W < M /\ 2 * Far(p, s) <= M /\ 2 \in Nat /\ D - W \in Nat
      <3> HIDE DEF D, W, M, p
      <3> QED
        BY <1>1, <1>2, <1>3
    <2>2. Sorted(a.list, p, (D - W) + 1, W) /\ a.list \in Seq(FrameType)
      BY <1>0, <1>1, <1>3, <2>0, <2>1, LeSeqSorted
    <2> HIDE DEF a, D, W, p, t
    <2>3. /\ (D - W) + 1 \in Int /\ W \in Int /\ Far(p, s) <= (D - W) + 1
          /\ ((D - W) + 1) - (D - W) = 1 /\ W - (D - W) <= W /\ W - (D - W) \in Int /\ 1 \in Int /\ 1 <= 1
      BY <1>1, <1>2, <1>3
    <2>4. Sorted(a.list, s, ((D - W) + 1) - (D - W), W - (D - W))
      BY <1>0, <1>3, <2>2, <2>3, SortedMove
    <2>5. Sorted(b.list, s, 1, W)
      <3>1. Sorted(a.list, s, 1, W - (D - W))
        BY <2>3, <2>4
      <3> QED
        BY <1>7, <2>3, <3>1, SortedWeaker
    <2>6. Far(s, t) \in 1 .. W /\ 1 \in Nat
      BY <1>1, <1>3
    <2>7. \/ d.LastIndSeq = s /\ Sorted(d.list, s, 1, W)
          \/ d.LastIndSeq = t /\ Sorted(d.list, t, 1, W - Far(s, t))
      <3> HIDE DEF d
      <3> QED
        BY <1>1, <1>3, <1>7, <2>1, <2>5, <2>6, EnqueueSorted DEF d, t
    <2> HIDE DEF d
    <2>8. CASE d.LastIndSeq = s /\ Sorted(d.list, s, 1, W)
      BY <1>1, <1>3, <1>8, <2>8, InOrderSorted
    <2>9. CASE d.LastIndSeq = t /\ Sorted(d.list, t, 1, W - Far(s, t))
      <3>1. W - Far(s, t) = 0
        BY <1>1, <1>3
      <3>2. d.list \in Seq(FrameType)
        BY <1>8 DEF CtxType
      <3>3. d.list = <<>>
        <4> SUFFICES ASSUME d.list # <<>> PROVE FALSE
          OBVIOUS
        <4>1. 1 \in DOMAIN d.list
          BY <3>2
        <4>2. At(d.list, 1, t) \in 1 .. 0
          BY <2>9, <3>1, <4>1 DEF Sorted
        <4> QED
          BY <4>2
      <3> QED
        BY <1>10, <3>3, SortedEmpty
    <2> QED
      BY <2>7, <2>8, <2>9
  <1> HIDE DEF r
  <1> QED
    BY <1>4, <1>8, <1>10, <1>11 DEF Tidy

\* The position moves from p to s and the list, which starts beyond s, is
\* announced as far as it continues s.
LEMMA TidyAdvance ==
  ASSUME NEW c \in CtxType, NEW p \in Positions, c.LastIndSeq \in Positions,
         Far(p, c.LastIndSeq) = 1,
         "stuck" \in c.why \/ Sorted(c.list, p, 2, c.BAWinSize)
  PROVE  /\ Tidy(InOrder(c, c.LastIndSeq))
         /\ c.why \subseteq InOrder(c, c.LastIndSeq).why
  <1> DEFINE s == c.LastIndSeq
             W == c.BAWinSize
             r == InOrder(c, s)
  <1>0. s \in Int /\ W \in Windows /\ c.list \in Seq(FrameType)
    BY SequenceNumbers DEF Positions, CtxType
  <1>1. W \in Nat /\ W \in Positions
    BY <1>0, WindowHalf
  <1>2. r.LastIndSeq \in Positions /\ r.why = c.why /\ r.BAWinSize = W
    BY <1>0, InOrderMoves, InOrderKeeps DEF Keeps
  <1>3. ASSUME "stuck" \notin c.why PROVE Sorted(r.list, r.LastIndSeq, 2, W)
    <2>1. Sorted(c.list, p, 2, W)
      BY <1>3
    <2>2. W - 1 \in Int /\ W - 1 <= W /\ 2 - 1 = 1 /\ 1 <= 2 /\ 1 <= 1 /\ W \in Int
      BY <1>1
    <2> HIDE DEF W
    <2>3. Sorted(c.list, s, 2 - 1, W - 1)
      BY <1>0, <2>1, <2>2, SortedMove
    <2>4. Sorted(c.list, s, 1, W)
      BY <2>2, <2>3, SortedWeaker
    <2> QED
      BY <1>1, <2>4, InOrderSorted
  <1> HIDE DEF r
  <1>4. Tidy(r) /\ c.why \subseteq r.why
    BY <1>2, <1>3 DEF Tidy
  <1> QED
    BY <1>4 DEF r

LEMMA NextPosition ==
  ASSUME NEW p \in Positions
  PROVE  (p + 1) % M \in Positions /\ Far(p, (p + 1) % M) = 1
  <1>1. 1 \in Positions
    BY Half, SequenceNumbers DEF Positions
  <1> QED
    BY <1>1, FarAdd

LEMMA FineFlush ==
  ASSUME NEW c \in CtxType, Fine(c)
  PROVE  Fine(FlushTimeout(c)) /\ c.why \subseteq FlushTimeout(c).why
  <1> DEFINE p == c.LastIndSeq
             s == (p + 1) % M
             W == c.BAWinSize
             d == LeSeq(c, s)
             e == [d EXCEPT !.LastIndSeq = s, !.why = c.why \cup {"timeout"}]
             g == [Refresh(c) EXCEPT !.why = c.why \cup {"refresh"}]
             r == FlushTimeout(c)
  <1>1. r = IF c.age = 2 /\ Len(c.list) > 1 THEN g
            ELSE IF c.age >= 1 /\ Len(c.list) > 0 THEN InOrder(e, s) ELSE c
    BY DEF FlushTimeout
  <1>2. CASE c.age = 2 /\ Len(c.list) > 1
    <2>1. r = g
      BY <1>1, <1>2
    <2>2. Refresh(c) \in CtxType /\ Refresh(c).list = <<>>
      BY RefreshKeeps
    <2>3. g.list = <<>> /\ g.why = c.why \cup {"refresh"}
      BY <2>2 DEF CtxType
    <2> HIDE DEF g, r
    <2>4. Fine(r) /\ c.why \subseteq r.why
      BY <2>1, <2>3 DEF Fine
    <2> QED
      BY <2>4 DEF r
  <1>3. CASE ~(c.age = 2 /\ Len(c.list) > 1) /\ c.age >= 1 /\ Len(c.list) > 0
    <2>0. c.list \in Seq(FrameType) /\ c.list # <<>> /\ W \in Windows
      BY <1>3 DEF CtxType
    <2>1. p \in Positions /\ ("stuck" \in c.why \/ Sorted(c.list, p, 2, W))
      BY <2>0 DEF Fine, Tidy
    <2>2. s \in Positions /\ Far(p, s) = 1
      BY <2>1, NextPosition
    <2>3. r = InOrder(e, s)
      BY <1>1, <1>3
    <2> HIDE DEF s, r
    <2>4. s \in Int /\ s \in {RESET} \cup 0 .. MAXSEQ /\ s \in Nat
      BY <2>2 DEF Positions
    <2>5. Keeps(c, d) /\ d \in CtxType
      BY <2>4, LeSeqKeeps
    <2>6. "stuck" \in c.why \/ Sorted(d.list, p, 2, W)
      <3>1. W \in Nat /\ 2 * (W + 1) <= M /\ M \in Nat /\ 2 \in Nat /\ M >= 2
        BY <2>0, WindowHalf, Half
      <3>2. 2 * W < M /\ 2 * Far(p, s) <= M /\ Far(p, s) + 1 = 2
        <4> HIDE DEF W, M, p
        <4> QED
          BY <2>2, <3>1
      <3>3. CASE Sorted(c.list, p, 2, W)
        BY <2>1, <2>2, <3>1, <3>2, <3>3, LeSeqSorted
      <3> QED
        BY <2>1, <3>3
    <2> HIDE DEF d
    <2>7. c.why \cup {"timeout"} \in SUBSET Causes
      BY DEF CtxType, Causes
    <2>8. e \in CtxType
      BY <2>4, <2>5, <2>7 DEF CtxType
    <2>9. /\ e.LastIndSeq = s /\ e.why = c.why \cup {"timeout"}
          /\ e.BAWinSize = W /\ e.list = d.list
      BY <2>5 DEF CtxType, Keeps
    <2> HIDE DEF e
    <2>10. "stuck" \in e.why \/ Sorted(e.list, p, 2, e.BAWinSize)
      BY <2>6, <2>9
    <2>11. Tidy(InOrder(e, s)) /\ e.why \subseteq InOrder(e, s).why
      BY <2>1, <2>2, <2>8, <2>9, <2>10, TidyAdvance
    <2> QED
      BY <2>3, <2>9, <2>11 DEF Fine, r
  <1>4. CASE ~(c.age = 2 /\ Len(c.list) > 1) /\ ~(c.age >= 1 /\ Len(c.list) > 0)
    BY <1>1, <1>4
  <1> QED
    BY <1>2, <1>3, <1>4

\* Cases II to V of Indicate_AMPDU_Packet, by the distance of the frame.
LEMMA Cases ==
  ASSUME NEW p \in Positions, NEW s \in Positions, NEW W \in Windows
  PROVE  /\ SEQ_STEPONE(s, p) => /\ Far(p, s) = 1
                                 /\ ~(s = p \/ SEQ_SMALLER(s, p))
         /\ ~SEQ_STEPONE(s, p) /\ ~(s = p \/ SEQ_SMALLER(s, p)) =>
              /\ Far(p, s) \in Nat /\ Far(p, s) >= 2 /\ 2 * Far(p, s) < M
              /\ SEQ_SMALLER(s, (p + W + 1) % M) <=> Far(p, s) <= W
  <1> DEFINE D == Far(p, s)
             h == M \div 2
  <1>1. ASSUME SEQ_STEPONE(s, p) PROVE D = 1 /\ s # p /\ ~SEQ_SMALLER(s, p)
    <2>1. D = 1
      BY <1>1, NextPosition DEF SEQ_STEPONE
    <2>2. s # p
      <3>1. p \in Nat /\ Far(p, p) = IF p >= p THEN p - p ELSE p - p + M
        BY FarIs DEF Positions
      <3> HIDE DEF M
      <3>2. Far(p, p) = 0
        BY <3>1
      <3> QED
        BY <2>1, <3>2
    <2>3. h >= 2
      <3>1. DefaultWin \in Nat \ {0} /\ 2 * (DefaultWin + 1) <= MAXSEQ + 1
        BY ConstantsAssumption DEF ConstantsAssumption
      <3>2. h \in Nat /\ 2 * h = M /\ M = MAXSEQ + 1
        BY Half, SequenceNumbers
      <3> HIDE DEF M, h
      <3> QED
        BY <3>1, <3>2
    <2>4. ~(D >= h)
      <3>1. h \in Nat
        BY Half
      <3> HIDE DEF D, h
      <3> QED
        BY <2>1, <2>3, <3>1
    <2> QED
      BY <2>1, <2>2, <2>4 DEF SEQ_SMALLER, Far
  <1>2. ASSUME ~SEQ_STEPONE(s, p), s # p, ~SEQ_SMALLER(s, p)
        PROVE  /\ D \in Nat /\ D >= 2 /\ 2 * D < M
               /\ SEQ_SMALLER(s, (p + W + 1) % M) <=> D <= W
    <2>0. W \in Nat /\ 2 * (W + 1) <= M /\ M \in Nat /\ D \in Nat
          /\ M = MAXSEQ + 1 /\ MAXSEQ \in Nat /\ h \in Nat /\ 2 * h = M
      <3>1. W \in Nat /\ 2 * (W + 1) <= M /\ M \in Nat
        BY WindowHalf
      <3>2. D \in Nat
        BY FarIs DEF Positions
      <3>3. M = MAXSEQ + 1 /\ MAXSEQ \in Nat
        BY SequenceNumbers
      <3>4. h \in Nat /\ 2 * h = M
        BY Half
      <3> QED
        BY <3>1, <3>2, <3>3, <3>4
    <2>1. D # 1
      <3> DEFINE q == (p + 1) % M
      <3>1. q \in Positions /\ Far(p, q) = 1 /\ s # q
        BY <1>2, NextPosition DEF SEQ_STEPONE
      <3> HIDE DEF q
      <3> QED
        BY <3>1, FarSame
    <2>2. D # 0
      <3>1. Far(p, p) = IF p >= p THEN p - p ELSE p - p + M
        BY FarIs
      <3>2. p \in Nat
        BY DEF Positions
      <3>3. Far(p, p) = 0
        <4> HIDE DEF M
        <4> QED
          BY <3>1, <3>2
      <3> QED
        BY <1>2, <3>3, FarSame
    <2>3. ~(D >= h)
      BY <1>2 DEF SEQ_SMALLER, Far
    <2>4. D >= 2 /\ 2 * D < M
      <3> HIDE DEF D, h, M
      <3> QED
        BY <2>0, <2>1, <2>2, <2>3
    <2> DEFINE q == (p + (W + 1)) % M
    <2>5. q \in Positions /\ Far(p, q) = W + 1
      <3>1. W + 1 \in Positions
        <4> HIDE DEF M
        <4> QED
          BY <2>0 DEF Positions
      <3> QED
        BY <3>1, FarAdd
    <2>6. p + W + 1 = p + (W + 1)
      BY <2>0 DEF Positions
    <2>7. (p + W + 1) % M = q
      BY <2>6
    <2> HIDE DEF q
    <2>8. SEQ_SMALLER(s, q) <=> D < W + 1
      <3>1. 2 * Far(p, q) <= M
        BY <2>0, <2>5
      <3> QED
        BY <2>4, <2>5, <3>1, FarSmaller
    <2>9. D < W + 1 <=> D <= W
      <3> HIDE DEF D
      <3> QED
        BY <2>0
    <2> QED
      BY <2>0, <2>4, <2>7, <2>8, <2>9
  <1> QED
    BY <1>1, <1>2

LEMMA FineAmpdu ==
  ASSUME NEW c0 \in CtxType, NEW fr \in FrameType, NEW base, Fine(c0), c0.BAWinSize >= 1
  PROVE  /\ Fine(Indicate_AMPDU(c0, fr, base))
         /\ c0.why \subseteq Indicate_AMPDU(c0, fr, base).why
  <1> DEFINE b == FlushTimeout(c0)
             c == [b EXCEPT !.age = 0]
             s == Seq12(fr)
             p == c.LastIndSeq
             W == c.BAWinSize
             w == IF fr.n = base THEN c.why ELSE c.why \cup {"first"}
             d == [c EXCEPT !.LastIndSeq = s, !.why = w]
             e == [c EXCEPT !.LastIndSeq = s]
             r == Indicate_AMPDU(c0, fr, base)
  <1>1. r = CASE p = RESET -> Indicate(d, fr)
              [] p # RESET /\ SEQ_STEPONE(s, p) -> InOrder(Indicate(e, fr), s)
              [] p # RESET /\ (s = p \/ SEQ_SMALLER(s, p)) -> c
              [] OTHER -> IF SEQ_SMALLER(s, (p + W + 1) % M)
                          THEN WithinWindow(c, fr) ELSE BeyondWindow(c, fr)
    BY DEF Indicate_AMPDU
  <1> HIDE DEF r
  <1>2. b \in CtxType /\ Fine(b) /\ c0.why \subseteq b.why /\ b.BAWinSize = c0.BAWinSize
    BY FlushTimeoutKeeps, FineFlush DEF Keeps
  <1> HIDE DEF b
  <1>3. /\ c \in CtxType /\ c.list = b.list /\ c.LastIndSeq = b.LastIndSeq
        /\ c.why = b.why /\ c.BAWinSize = b.BAWinSize
    <2>1. c \in CtxType
      BY <1>2, RecordAge DEF Keeps
    <2>2. c.list = b.list /\ c.LastIndSeq = b.LastIndSeq
      BY <1>2 DEF CtxType
    <2>3. c.why = b.why /\ c.BAWinSize = b.BAWinSize
      BY <1>2 DEF CtxType
    <2> QED
      BY <2>1, <2>2, <2>3
  <1>4. Fine(c) /\ c0.why \subseteq c.why /\ W >= 1
    BY <1>2, <1>3 DEF Fine, Tidy
  <1> HIDE DEF c
  <1>5. s \in Positions /\ W \in Windows /\ s \in {RESET} \cup 0 .. MAXSEQ
    BY <1>3, FrameSeq DEF Positions, CtxType
  <1> SUFFICES Fine(r) /\ c.why \subseteq r.why
    BY <1>4 DEF r
  <1>6. CASE p = RESET
    <2>1. p \notin Positions
      BY <1>6, SequenceNumbers DEF RESET, Positions
    <2>2. c.list = <<>>
      BY <1>4, <2>1 DEF Fine, Tidy
    <2>3. r = Indicate(d, fr)
      BY <1>1, <1>6
    <2>4. c.why \subseteq w
      OBVIOUS
    <2> HIDE DEF w, s
    <2>5. d.list = c.list /\ d.why = w
      BY <1>3 DEF CtxType
    <2>6. Indicate(d, fr).list = d.list /\ Indicate(d, fr).why = d.why
      BY <1>3 DEF CtxType, Indicate
    <2> HIDE DEF d
    <2> QED
      BY <2>2, <2>3, <2>4, <2>5, <2>6 DEF Fine
  <1>7. CASE p # RESET
    <2>1. Tidy(c) /\ p \in Positions
      BY <1>3, <1>4, <1>7, FineTidy DEF Tidy
    <2>2. CASE SEQ_STEPONE(s, p)
      <3> DEFINE g == Indicate(e, fr)
      <3>2. Far(p, s) = 1 /\ ~(s = p \/ SEQ_SMALLER(s, p))
        BY <1>5, <2>1, <2>2, Cases
      <3>1. r = InOrder(g, s)
        BY <1>1, <1>7, <2>2, <3>2
      <3> HIDE DEF s
      <3>3. /\ e \in CtxType /\ e.list = c.list /\ e.why = c.why /\ e.BAWinSize = W
            /\ e.LastIndSeq = s
        BY <1>3, <1>5 DEF CtxType
      <3> HIDE DEF e
      <3>4. g \in CtxType
        BY <3>3, IndicateKeeps DEF Keeps
      <3>5. g.list = c.list /\ g.why = c.why /\ g.BAWinSize = W /\ g.LastIndSeq = s
        BY <3>3 DEF CtxType, Indicate
      <3> HIDE DEF g
      <3>6. "stuck" \in g.why \/ Sorted(g.list, p, 2, g.BAWinSize)
        BY <2>1, <3>5 DEF Tidy
      <3>7. Tidy(InOrder(g, s)) /\ g.why \subseteq InOrder(g, s).why
        BY <1>5, <2>1, <3>2, <3>4, <3>5, <3>6, TidyAdvance
      <3> QED
        BY <3>1, <3>5, <3>7 DEF Fine
    <2>3. CASE ~SEQ_STEPONE(s, p) /\ (s = p \/ SEQ_SMALLER(s, p))
      <3>1. r = c
        BY <1>1, <1>7, <2>3
      <3> QED
        BY <1>4, <3>1
    <2>4. CASE ~SEQ_STEPONE(s, p) /\ ~(s = p \/ SEQ_SMALLER(s, p))
      <3>1. r = IF SEQ_SMALLER(s, (p + W + 1) % M)
                THEN WithinWindow(c, fr) ELSE BeyondWindow(c, fr)
        BY <1>1, <1>7, <2>4
      <3>2. /\ Far(p, s) \in Nat /\ Far(p, s) >= 2 /\ 2 * Far(p, s) < M
            /\ SEQ_SMALLER(s, (p + W + 1) % M) <=> Far(p, s) <= W
        BY <1>5, <2>1, <2>4, Cases
      <3>3. W \in Nat /\ M \in Nat
        BY <1>5, WindowHalf
      <3>4. CASE Far(p, s) <= W
        <4>1. Far(p, s) \in 2 .. W
          BY <3>2, <3>3, <3>4
        <4>2. Tidy(WithinWindow(c, fr)) /\ c.why \subseteq WithinWindow(c, fr).why
          BY <1>3, <2>1, <4>1, TidyWithin
        <4> QED
          BY <3>1, <3>2, <3>4, <4>2 DEF Fine
      <3>5. CASE ~(Far(p, s) <= W)
        <4>1. Far(p, s) > W /\ 2 * Far(p, s) <= M
          <5> DEFINE D == Far(p, s)
          <5> HIDE DEF D, M, W
          <5>1. D > W /\ 2 * D <= M
            BY <3>2, <3>3, <3>5 DEF D
          <5> QED
            BY <5>1 DEF D
        <4>2. Tidy(BeyondWindow(c, fr)) /\ c.why \subseteq BeyondWindow(c, fr).why
          BY <1>3, <1>4, <2>1, <4>1, TidyBeyond
        <4> QED
          BY <3>1, <3>2, <3>5, <4>2 DEF Fine
      <3> QED
        BY <3>4, <3>5
    <2> QED
      BY <2>2, <2>3, <2>4
  <1> QED
    BY <1>6, <1>7

\* The frame before one that is ahead of p.
LEMMA Before ==
  ASSUME NEW p \in Positions, NEW t \in Positions, SEQ_SMALLER(p, t)
  PROVE  LET q == IF t = 0 THEN MAXSEQ ELSE t - 1 IN
         /\ q \in Positions /\ Far(p, t) \in Nat /\ 2 * Far(p, t) <= M
         /\ Far(p, q) = Far(p, t) - 1
  <1> DEFINE q == IF t = 0 THEN MAXSEQ ELSE t - 1
             h == M \div 2
  <1>1. Far(t, p) >= h
    BY DEF SEQ_SMALLER, Far
  <1>2. h \in Nat /\ 2 * h = M /\ h >= 1
    BY Half
  <1> HIDE DEF M, h
  <1>3. M = MAXSEQ + 1 /\ MAXSEQ \in Nat /\ p \in Nat /\ t \in Nat /\ p < M /\ t < M
    BY SequenceNumbers DEF Positions
  <1>4. q \in Positions
    BY <1>3 DEF Positions
  <1>5. /\ Far(p, t) = IF t >= p THEN t - p ELSE t - p + M
        /\ Far(t, p) = IF p >= t THEN p - t ELSE p - t + M
    BY FarIs
  <1>6. Far(p, q) = IF q >= p THEN q - p ELSE q - p + M
    <2> HIDE DEF q
    <2> QED
      BY <1>4, FarIs
  <1>7. Far(p, t) \in Nat
    BY FarIs DEF Positions
  <1>8. 2 * Far(p, t) <= M
    BY <1>1, <1>2, <1>3, <1>5
  <1>9. Far(p, q) = Far(p, t) - 1
    BY <1>1, <1>2, <1>3, <1>5, <1>6
  <1> QED
    BY <1>4, <1>7, <1>8, <1>9

LEMMA FineBlockAckReq ==
  ASSUME NEW c \in CtxType, NEW t \in Positions, Fine(c)
  PROVE  Fine(BlockAckReq(c, t)) /\ c.why \subseteq BlockAckReq(c, t).why
  <1> DEFINE p == c.LastIndSeq
             W == c.BAWinSize
             d == LeSeq(c, t)
             q == IF t = 0 THEN MAXSEQ ELSE t - 1
             w == c.why \cup Again(c, t)
             e == [d EXCEPT !.LastIndSeq = q, !.why = w]
             r == BlockAckReq(c, t)
  <1>1. r = IF SEQ_SMALLER(p, t) THEN e ELSE c
    BY DEF BlockAckReq
  <1> HIDE DEF r
  <1> SUFFICES Fine(r) /\ c.why \subseteq r.why
    BY DEF r
  <1>2. CASE ~SEQ_SMALLER(p, t)
    BY <1>1, <1>2
  <1>3. CASE SEQ_SMALLER(p, t)
    <2>0. t \in Int /\ W \in Windows
      BY SequenceNumbers DEF Positions, CtxType
    <2>1. /\ d \in CtxType /\ Keeps(c, d) /\ (c.list = <<>> => d.list = <<>>)
      BY <2>0, LeSeqKeeps, LeSeqMoves
    <2>2. c.why \subseteq w
      OBVIOUS
    <2>3. e.list = d.list /\ e.LastIndSeq = q /\ e.why = w /\ e.BAWinSize = W
      <3> HIDE DEF d, q, w
      <3> QED
        BY <2>1 DEF CtxType, Keeps
    <2> HIDE DEF e, w
    <2>4. CASE c.list = <<>>
      BY <1>1, <1>3, <2>1, <2>2, <2>3, <2>4 DEF Fine
    <2>5. CASE c.list # <<>>
      <3>1. p \in Positions /\ ("stuck" \in c.why \/ Sorted(c.list, p, 2, W))
        BY <2>5 DEF Fine, Tidy
      <3>2. q \in Positions /\ Far(p, t) \in Nat /\ 2 * Far(p, t) <= M
            /\ Far(p, q) = Far(p, t) - 1
        BY <1>3, <3>1, Before
      <3> HIDE DEF q
      <3>3. ASSUME "stuck" \notin c.why PROVE Sorted(d.list, q, 2, W)
        <4> DEFINE D == Far(p, t)
        <4>0. W \in Nat /\ 2 * (W + 1) <= M /\ M \in Nat /\ 2 \in Nat
          BY <2>0, WindowHalf
        <4>1. 2 * W < M
          <5> HIDE DEF W, M
          <5> QED
            BY <4>0
        <4>2. Sorted(d.list, p, D + 1, W) /\ d.list \in Seq(FrameType)
          BY <3>1, <3>2, <3>3, <4>0, <4>1, LeSeqSorted
        <4> HIDE DEF D, d, W
        <4>3. Far(p, q) = D - 1 /\ D \in Nat
          BY <3>2 DEF D
        <4>4. D + 1 \in Int /\ W \in Int /\ D - 1 <= D + 1 /\ (D + 1) - (D - 1) = 2
              /\ D - 1 \in Int
          BY <4>0, <4>3
        <4>5. Far(p, q) \in Nat
          BY <3>1, <3>2, FarIs DEF Positions
        <4>6. Sorted(d.list, q, (D + 1) - (D - 1), W - (D - 1))
          BY <3>1, <3>2, <4>2, <4>3, <4>4, SortedMove
        <4>7. Sorted(d.list, q, 2, W - (D - 1)) /\ W - (D - 1) <= W /\ W - (D - 1) \in Int
              /\ 2 \in Int /\ 2 <= 2
          BY <4>0, <4>3, <4>4, <4>5, <4>6
        <4> QED
          BY <4>4, <4>7, SortedWeaker
      <3> HIDE DEF d
      <3>4. Tidy(e)
        BY <2>2, <2>3, <3>2, <3>3 DEF Tidy
      <3> QED
        BY <1>1, <1>3, <2>2, <2>3, <3>4 DEF Fine
    <2> QED
      BY <2>4, <2>5
  <1> QED
    BY <1>2, <1>3

-----------------------------------------------------------------------------
(* The lists of all sessions                                               *)

\* What lies in the list of an entry belongs to a session with a position, and
\* is in order in its window.
InPlace(e) ==
  rec[e].list # <<>> =>
    /\ rec[e].status = "Accept" /\ rec[e].LastIndSeq \in Positions
    /\ \/ "stuck" \in why[rec[e].flow]
       \/ Sorted(rec[e].list, rec[e].LastIndSeq, 2, rec[e].BAWinSize)

Filed == \A e \in Entries \ ghost.orphans : InPlace(e)

\* From its flush on, the list that a command tears down stays empty.
Flushed == td.pc \in {"section", "free", "dec"} => rec[td.e].list = <<>>

\* A session that receives has a window.
Windowed == \A f \in Flows : idx[f] # 0 => rec[idx[f]].BAWinSize >= 1

Lists == Filed /\ Flushed /\ Windowed
ListInv == ~ghost.raced => Lists

LEMMA ListInit == Init => ListInv
  <1> SUFFICES ASSUME Init PROVE Lists
    BY DEF ListInv
  <1>1. \A e \in Entries : rec[e].list = <<>>
    BY DEF Init, FreeEntry
  <1> QED
    BY <1>1 DEF Init, Idle, Lists, Filed, InPlace, Flushed, Windowed

\* The flow of an entry with a list knows it.
LEMMA Known ==
  ASSUME Table, Lists, NEW e \in Entries \ ghost.orphans, rec[e].list # <<>>
  PROVE  rec[e].flow \in Flows /\ idx[rec[e].flow] = e
  <1>1. rec[e].status = "Accept"
    BY DEF Lists, Filed, InPlace
  <1>2. e \in InTable
    BY <1>1 DEF InTable, NoneEntries
  <1>3. ~(td.pc \in {"free", "dec"} /\ td.e = e)
    BY DEF Lists, Flushed
  <1> QED
    BY <1>2, <1>3 DEF Table, Owned

\* Entries and causes as they were, except where a list is empty now.
LEMMA FiledKept ==
  ASSUME Lists,
         \A d \in Entries \ ghost'.orphans : rec'[d].list # <<>> =>
            /\ d \notin ghost.orphans
            /\ rec'[d].list = rec[d].list /\ rec'[d].status = rec[d].status
            /\ rec'[d].flow = rec[d].flow /\ rec'[d].LastIndSeq = rec[d].LastIndSeq
            /\ rec'[d].BAWinSize = rec[d].BAWinSize
            /\ why[rec[d].flow] \subseteq why'[rec[d].flow]
  PROVE  Filed'
  <1> SUFFICES ASSUME NEW d \in Entries \ ghost'.orphans, rec'[d].list # <<>>
               PROVE  /\ rec'[d].status = "Accept" /\ rec'[d].LastIndSeq \in Positions
                      /\ \/ "stuck" \in why'[rec'[d].flow]
                         \/ Sorted(rec'[d].list, rec'[d].LastIndSeq, 2, rec'[d].BAWinSize)
    BY DEF Filed, InPlace
  <1>1. /\ d \in Entries \ ghost.orphans
        /\ rec'[d].list = rec[d].list /\ rec'[d].status = rec[d].status
        /\ rec'[d].flow = rec[d].flow /\ rec'[d].LastIndSeq = rec[d].LastIndSeq
        /\ rec'[d].BAWinSize = rec[d].BAWinSize
        /\ why[rec[d].flow] \subseteq why'[rec[d].flow]
    OBVIOUS
  <1>2. InPlace(d)
    BY <1>1 DEF Lists, Filed
  <1> QED
    BY <1>1, <1>2 DEF InPlace

\* Nothing that the lists depend on changes.
LEMMA ListsSame ==
  ASSUME Lists, UNCHANGED <<rec, why, idx, td>>, ghost'.orphans = ghost.orphans
  PROVE  Lists'
  BY DEF Lists, Filed, InPlace, Flushed, Windowed

\* A further cause takes nothing from a list.
LEMMA MoreCauses ==
  ASSUME TInv, Table, Lists, UNCHANGED <<rec, idx, td>>, ghost'.orphans = ghost.orphans,
         \A g \in Flows : why[g] \subseteq why'[g]
  PROVE  Lists'
  <1>1. Filed'
    <2> SUFFICES ASSUME NEW d \in Entries \ ghost.orphans, rec[d].list # <<>>
                 PROVE  InPlace(d)'
      BY DEF Filed, InPlace
    <2>1. rec[d].flow \in Flows
      BY Known
    <2>2. InPlace(d) /\ why[rec[d].flow] \subseteq why'[rec[d].flow]
      BY <2>1 DEF Lists, Filed
    <2> QED
      BY <2>2 DEF InPlace
  <1> QED
    BY <1>1 DEF Lists, Flushed, Windowed

\* The causes of a flow without a session do not matter.
LEMMA CausesForgotten ==
  ASSUME TInv, Table, Lists, NEW f \in Flows, idx[f] = 0, why' = [why EXCEPT ![f] = {}],
         UNCHANGED <<rec, idx, td>>, ghost'.orphans = ghost.orphans
  PROVE  Lists'
  <1>0. why \in [Flows -> SUBSET Causes]
    BY DEF TInv, TypesNoPool
  <1>1. ASSUME NEW d \in Entries \ ghost.orphans, rec[d].list # <<>>
        PROVE  why'[rec[d].flow] = why[rec[d].flow]
    <2>1. rec[d].flow \in Flows /\ idx[rec[d].flow] = d /\ d # 0
      BY <1>1, Known DEF Entries
    <2> QED
      BY <1>0, <2>1
  <1>2. Filed'
    BY <1>1, FiledKept
  <1> QED
    BY <1>2 DEF Lists, Flushed, Windowed

LEMMA CtxFine ==
  ASSUME TInv, Table, Lists, NEW f \in Flows, idx[f] # 0
  PROVE  /\ Ctx(f, idx[f]).BAWinSize = rec[idx[f]].BAWinSize
         /\ Ctx(f, idx[f]).BAWinSize >= 1 /\ Ctx(f, idx[f]).why = why[f]
         /\ idx[f] \notin ghost.orphans => Fine(Ctx(f, idx[f]))
  <1> DEFINE e == idx[f]
             c == Ctx(f, e)
  <1>1. e \in Entries /\ rec[e].flow = f /\ rec[e].BAWinSize >= 1
    BY Session DEF Table, Named, Lists, Windowed
  <1>2. /\ c.list = rec[e].list /\ c.LastIndSeq = rec[e].LastIndSeq
        /\ c.BAWinSize = rec[e].BAWinSize /\ c.why = why[f]
    BY DEF Ctx
  <1>3. ASSUME e \notin ghost.orphans PROVE InPlace(e)
    BY <1>1, <1>3 DEF Lists, Filed
  <1> HIDE DEF c
  <1>4. e \notin ghost.orphans => Fine(c)
    BY <1>1, <1>2, <1>3 DEF Fine, Tidy, InPlace
  <1> QED
    BY <1>1, <1>2, <1>4 DEF c

\* A handler that leaves a list in order, for the session of flow f.
LEMMA HandledLists ==
  ASSUME TInv, Table, Lists, NEW f \in Flows, idx[f] # 0, NEW c \in CtxType, NEW new,
         Handled(f, idx[f], c, new), UNCHANGED <<idx, td>>, ~ghost.raced, ~ghost'.raced,
         idx[f] \notin ghost.orphans => Fine(c),
         c.BAWinSize = rec[idx[f]].BAWinSize
  PROVE  Lists'
  <1> DEFINE e == idx[f]
  <1>0. /\ rec \in [Entries -> RecType] /\ ghost \in GhostType
        /\ why \in [Flows -> SUBSET Causes] /\ e \in Entries
    BY Session DEF TInv, TypesNoPool
  <1>1. /\ rec' = [rec EXCEPT ![e] = Entry(e, c)] /\ why' = [why EXCEPT ![f] = c.why]
        /\ ghost'.orphans = ghost.orphans /\ ~Refilled(e, c)
    BY <1>0 DEF Handled, GhostType
  <1>2. /\ Entry(e, c).list = c.list /\ Entry(e, c).status = rec[e].status
        /\ Entry(e, c).flow = rec[e].flow /\ Entry(e, c).LastIndSeq = c.LastIndSeq
        /\ Entry(e, c).BAWinSize = rec[e].BAWinSize
    <2>1. rec[e] \in RecType
      BY <1>0
    <2> HIDE DEF e
    <2> QED
      BY <2>1 DEF Entry, RecType
  <1>3. rec[e].status = "Accept" /\ rec[e].flow = f /\ rec[e].BAWinSize >= 1
    BY DEF Table, Named, Lists, Windowed
  <1>4. /\ rec'[e].list = c.list /\ rec'[e].status = "Accept" /\ rec'[e].flow = f
        /\ rec'[e].LastIndSeq = c.LastIndSeq /\ rec'[e].BAWinSize = c.BAWinSize
        /\ \A d \in Entries \ {e} : rec'[d] = rec[d]
        /\ why'[f] = c.why /\ \A g \in Flows \ {f} : why'[g] = why[g]
    <2> HIDE DEF e
    <2> QED
      BY <1>0, <1>1, <1>2, <1>3 DEF e
  <1>5. Filed'
    <2> SUFFICES ASSUME NEW d \in Entries \ ghost.orphans, rec'[d].list # <<>>
                 PROVE  /\ rec'[d].status = "Accept" /\ rec'[d].LastIndSeq \in Positions
                        /\ \/ "stuck" \in why'[rec'[d].flow]
                           \/ Sorted(rec'[d].list, rec'[d].LastIndSeq, 2, rec'[d].BAWinSize)
      BY <1>1 DEF Filed, InPlace
    <2>1. CASE d = e
      BY <1>4, <2>1 DEF Fine, Tidy
    <2>2. CASE d # e
      <3>1. rec'[d] = rec[d] /\ rec[d].list # <<>>
        BY <1>4, <2>2
      <3>2. rec[d].flow \in Flows /\ rec[d].flow # f
        BY <2>2, <3>1, Known
      <3>3. InPlace(d) /\ why'[rec[d].flow] = why[rec[d].flow]
        BY <1>4, <3>2 DEF Lists, Filed
      <3> QED
        BY <3>1, <3>3 DEF InPlace
    <2> QED
      BY <2>1, <2>2
  <1>6. Flushed'
    <2> SUFFICES ASSUME td.pc \in {"section", "free", "dec"} PROVE rec'[td.e].list = <<>>
      BY DEF Flushed
    <2>1. td.e \in Entries /\ rec[td.e].list = <<>>
      BY Commanded DEF Lists, Flushed
    <2>2. CASE td.e # e
      BY <1>4, <2>1, <2>2
    <2>3. CASE td.e = e
      <3>1. td.pc = "section"
        <4> SUFFICES ASSUME td.pc \in {"free", "dec"} PROVE FALSE
          OBVIOUS
        <4>1. rec[td.e].flow = td.flow /\ idx[td.flow] = 0
          BY DEF Table, Command
        <4> QED
          BY <1>3, <2>3, <4>1
      <3> QED
        BY <1>1, <1>4, <2>3, <3>1 DEF Refilled
    <2> QED
      BY <2>2, <2>3
  <1>7. Windowed'
    <2> SUFFICES ASSUME NEW g \in Flows, idx[g] # 0 PROVE rec'[idx[g]].BAWinSize >= 1
      BY DEF Windowed
    <2>1. idx[g] \in Entries /\ rec[idx[g]].BAWinSize >= 1
      BY Session DEF Lists, Windowed
    <2> QED
      BY <1>3, <1>4, <2>1
  <1> QED
    BY <1>5, <1>6, <1>7 DEF Lists

LEMMA ReceptionLists ==
  ASSUME TInv, Table, Lists, NEW f \in Flows, ~ghost.raced, ~ghost'.raced,
         \/ \E n \in Frames, ack \in BOOLEAN : Indicate_AMPDU_Packet(f, n, ack)
         \/ CntlEnqueueForRecv(f)
  PROVE  Lists'
  <1> DEFINE c0 == Ctx(f, idx[f])
  <1>1. idx[f] # 0 /\ idx[f] \in Entries /\ UNCHANGED <<idx, td>>
    BY Session DEF Indicate_AMPDU_Packet, CntlEnqueueForRecv
  <1>2. c0 \in CtxType
    BY <1>1, CtxOK
  <1>3. /\ c0.BAWinSize = rec[idx[f]].BAWinSize /\ c0.BAWinSize >= 1
        /\ idx[f] \notin ghost.orphans => Fine(c0)
    BY <1>1, CtxFine
  <1>4. ASSUME NEW n \in Frames, NEW ack \in BOOLEAN, Indicate_AMPDU_Packet(f, n, ack)
        PROVE  Lists'
    <2> DEFINE fr == [flow |-> f, n |-> n]
               a == Arriving(f, n)
               c == Indicate_AMPDU(a, fr, orig[f].base)
    <2>1. fr \in FrameType
      BY DEF FrameType
    <2>2. Handled(f, idx[f], c, n = orig[f].next)
      BY <1>4 DEF Indicate_AMPDU_Packet
    <2>3. /\ a \in CtxType /\ a.list = c0.list /\ a.LastIndSeq = c0.LastIndSeq
          /\ a.BAWinSize = c0.BAWinSize /\ c0.why \subseteq a.why
      BY <1>1, ArrivingOK DEF Ctx
    <2> HIDE DEF c0, fr, a
    <2>4. Fine(c0) => Fine(a)
      BY <2>3 DEF Fine, Tidy
    <2>5. c \in CtxType /\ c.BAWinSize = a.BAWinSize
      BY <2>1, <2>3, IndicateAmpduKeeps DEF Keeps
    <2>6. idx[f] \notin ghost.orphans => Fine(c)
      BY <1>3, <2>1, <2>3, <2>4, FineAmpdu
    <2> HIDE DEF c
    <2> QED
      BY <1>1, <1>3, <2>2, <2>3, <2>5, <2>6, HandledLists
  <1>5. CASE CntlEnqueueForRecv(f)
    <2> DEFINE start == orig[f].base % M
               c == BlockAckReq(c0, start)
    <2>1. start \in 0 .. MAXSEQ /\ start \in Positions
      <3>1. orig[f].base \in Int
        BY ConstantsAssumption
        DEF ConstantsAssumption, TInv, TypesNoPool, OrigType, Numbers
      <3> QED
        BY <3>1, SequenceNumbers DEF Positions
    <2>2. Handled(f, idx[f], c, FALSE)
      BY <1>5 DEF CntlEnqueueForRecv
    <2> HIDE DEF start, c0
    <2>3. c \in CtxType /\ c.BAWinSize = c0.BAWinSize
      BY <1>2, <2>1, BlockAckReqKeeps DEF Keeps
    <2>4. idx[f] \notin ghost.orphans => Fine(c)
      BY <1>2, <1>3, <2>1, FineBlockAckReq
    <2> HIDE DEF c
    <2> QED
      BY <1>1, <1>3, <2>2, <2>3, <2>4, HandledLists
  <1> QED
    BY <1>4, <1>5

\* A session ends: its list is flushed, and the causes of its flow concern no
\* other list.
LEMMA TearDownLists ==
  ASSUME TInv, Table, Lists, NEW f \in Flows, BARecSessionTearDown(f), UNCHANGED td,
         ghost'.orphans = ghost.orphans
  PROVE  Lists'
  <1> DEFINE e == idx[f]
             c == Refresh(Ctx(f, e))
  <1>0. /\ rec \in [Entries -> RecType] /\ why \in [Flows -> SUBSET Causes]
        /\ idx \in [Flows -> 0 .. MAX_LEN_OF_BA_REC_TABLE - 1]
    BY DEF TInv, TypesNoPool
  <1>1. why' = [why EXCEPT ![f] = {}]
    BY DEF BARecSessionTearDown
  <1>2. CASE e # 0 /\ rec[e].status = "Accept"
    <2> DEFINE x == [Entry(e, c) EXCEPT !.BAWinSize = 0, !.status = "NONE"]
    <2>1. e \in Entries /\ rec[e].flow = f
      BY <1>2, Session DEF Table, Named
    <2>2. /\ rec' = [rec EXCEPT ![e] = x]
          /\ idx' = [g \in Flows |-> IF g \in {f, rec[e].flow} THEN 0 ELSE idx[g]]
      BY <1>2 DEF BARecSessionTearDown
    <2>3. x.list = <<>>
      <3>1. c \in CtxType /\ c.list = <<>>
        BY <2>1, CtxOK, RefreshKeeps
      <3> DEFINE r == Entry(e, c)
      <3>2. r \in RecType /\ r.list = <<>>
        BY <2>1, <3>1, EntryOK
      <3> HIDE DEF r
      <3>3. [r EXCEPT !.BAWinSize = 0, !.status = "NONE"].list = <<>>
        BY <3>2 DEF RecType
      <3> QED
        BY <3>3 DEF r
    <2> HIDE DEF x
    <2>4. rec'[e].list = <<>> /\ \A d \in Entries \ {e} : rec'[d] = rec[d]
      BY <1>0, <2>1, <2>2, <2>3
    <2>5. idx'[f] = 0 /\ \A g \in Flows \ {f} : idx'[g] = idx[g]
      BY <1>0, <2>1, <2>2
    <2>6. ASSUME NEW d \in Entries \ ghost.orphans, rec'[d].list # <<>>
          PROVE  rec'[d] = rec[d] /\ why'[rec[d].flow] = why[rec[d].flow]
      <3>1. d # e /\ rec'[d] = rec[d]
        BY <2>4, <2>6
      <3>2. rec[d].flow \in Flows /\ rec[d].flow # f
        BY <2>6, <3>1, Known
      <3> QED
        BY <1>0, <1>1, <3>1, <3>2
    <2>7. Filed'
      BY <2>6, FiledKept
    <2>8. Flushed'
      BY <2>4, Commanded DEF Lists, Flushed
    <2>9. Windowed'
      <3> SUFFICES ASSUME NEW g \in Flows, idx'[g] # 0 PROVE rec'[idx'[g]].BAWinSize >= 1
        BY DEF Windowed
      <3>1. g # f /\ idx'[g] = idx[g] /\ idx[g] # 0
        BY <2>5
      <3>2. idx[g] \in Entries /\ rec[idx[g]].flow = g /\ rec[idx[g]].BAWinSize >= 1
        BY <3>1, Session DEF Table, Named, Lists, Windowed
      <3> QED
        BY <2>1, <2>4, <3>1, <3>2
    <2> QED
      BY <2>7, <2>8, <2>9 DEF Lists
  <1>3. CASE ~(e # 0 /\ rec[e].status = "Accept")
    <2>1. UNCHANGED <<rec, idx>>
      BY <1>3 DEF BARecSessionTearDown
    <2>2. idx[f] = 0
      BY <1>3 DEF Table, Named
    <2> QED
      BY <1>1, <2>1, <2>2, CausesForgotten
  <1> QED
    BY <1>2, <1>3

LEMMA SessionEndsLists ==
  ASSUME TInv, Table, Lists, NEW f \in Flows,
         \/ PeerDelBAAction(f)
         \/ \E fails \in BOOLEAN : PeerAuth(f, fails)
         \/ \E fails \in BOOLEAN : MacTableDeleteEntry(f, fails)
  PROVE  Lists'
  <1>1. UNCHANGED td
    BY DEF PeerDelBAAction, PeerAuth, MacTableDeleteEntry
  <1>2. CASE PeerDelBAAction(f)
    BY <1>2, TearDownLists DEF PeerDelBAAction
  <1>3. ASSUME NEW fails \in BOOLEAN, BASessionTearDownALL(f, fails) PROVE Lists'
    <2>1. CASE fails
      <3>1. UNCHANGED <<rec, idx, why>>
            /\ ghost' = [ghost EXCEPT !.upsets = ghost.upsets + 1]
        BY <1>3, <2>1 DEF BASessionTearDownALL
      <3>2. ghost'.orphans = ghost.orphans
        BY <3>1 DEF TInv, TypesNoPool, GhostType
      <3> QED
        BY <1>1, <3>1, <3>2, ListsSame
    <2>2. CASE ~fails
      <3>1. BARecSessionTearDown(f) /\ UNCHANGED ghost
        BY <1>3, <2>2 DEF BASessionTearDownALL
      <3> QED
        BY <1>1, <3>1, TearDownLists
    <2> QED
      BY <2>1, <2>2
  <1>4. ASSUME NEW fails \in BOOLEAN, PeerAuth(f, fails) \/ MacTableDeleteEntry(f, fails)
        PROVE  BASessionTearDownALL(f, fails)
    BY <1>4 DEF PeerAuth, MacTableDeleteEntry
  <1> QED
    BY <1>2, <1>3, <1>4

LEMMA InsertLists ==
  ASSUME TInv, Table, Lists, NEW f \in Flows, MacTableInsertEntry(f)
  PROVE  Lists'
  <1>0. ghost \in GhostType /\ idx \in [Flows -> 0 .. MAX_LEN_OF_BA_REC_TABLE - 1]
    BY DEF TInv, TypesNoPool
  <1>1. /\ UNCHANGED <<rec, td, why>> /\ idx' = [idx EXCEPT ![f] = 0]
        /\ ghost'.orphans = ghost.orphans \cup ({idx[f]} \ {0})
    BY <1>0 DEF MacTableInsertEntry, GhostType
  <1>2. \A g \in Flows : idx'[g] # 0 => idx'[g] = idx[g]
    BY <1>0, <1>1
  <1>3. Filed'
    BY <1>1, FiledKept
  <1> QED
    BY <1>1, <1>2, <1>3 DEF Lists, Flushed, Windowed

LEMMA GrantedWindow ==
  ASSUME NEW buf \in BufSizes
  PROVE  BAWinSize(buf) \in Nat /\ BAWinSize(buf) >= 1
  <1> DEFINE S == {buf, RxBAWinLimit}
             n == buf + RxBAWinLimit
  <1>0. buf \in Nat /\ RxBAWinLimit \in Nat /\ DefaultWin \in Nat \ {0}
    BY ConstantsAssumption DEF ConstantsAssumption
  <1>1. n \in Nat /\ S \in SUBSET (0 .. n) /\ S # {} /\ 0 \in Nat
    BY <1>0
  <1>2. Min(S) \in Nat
    <2>1. Min(S) \in S
      <3> HIDE DEF S, n
      <3> QED
        BY <1>1, MinIn
    <2> QED
      BY <1>0, <2>1
  <1> HIDE DEF S
  <1>3. BAWinSize(buf) = IF Min(S) = 0 THEN DefaultWin ELSE Min(S)
    BY DEF BAWinSize, S
  <1> QED
    BY <1>0, <1>2, <1>3

LEMMA AddLists ==
  ASSUME TInv, Table, Lists, NEW f \in Flows, NEW buf \in BufSizes, NEW heard \in BOOLEAN,
         PeerAddBAReqAction(f, buf, heard), ~ghost'.raced
  PROVE  Lists'
  <1> DEFINE new == idx[f] = 0
             e == IF new THEN AllocRecEntry ELSE idx[f]
             c == IF new THEN Ctx(f, e) ELSE Refresh(Ctx(f, e))
             x == Accepted(f, e, c, buf)
  <1>0. /\ rec \in [Entries -> RecType] /\ ghost \in GhostType /\ num \in Int
        /\ idx \in [Flows -> 0 .. MAX_LEN_OF_BA_REC_TABLE - 1]
        /\ MAX_LEN_OF_BA_REC_TABLE \in Nat /\ why \in [Flows -> SUBSET Causes]
    BY ConstantsAssumption DEF ConstantsAssumption, TInv, TypesNoPool
  <1>1. CASE new /\ num >= MAX_LEN_OF_BA_REC_TABLE - 1
    <2>1. UNCHANGED <<rec, idx, why, td, ghost>>
      BY <1>1 DEF PeerAddBAReqAction
    <2> QED
      BY <2>1, ListsSame
  <1>2. CASE ~(new /\ num >= MAX_LEN_OF_BA_REC_TABLE - 1)
    <2>1. /\ rec' = [rec EXCEPT ![e] = x]
          /\ idx' = [idx EXCEPT ![f] = IF new /\ NoneEntries = {} THEN 0 ELSE e]
          /\ why' = [why EXCEPT ![f] = {}]
          /\ ghost' = [ghost EXCEPT
                 !.adds = ghost.adds + 1,
                 !.raced = \/ ghost.raced
                           \/ new /\ td.pc # "idle" /\ (td.flow = f \/ td.e = e)]
          /\ UNCHANGED td
      BY <1>2 DEF PeerAddBAReqAction
    <2>2. /\ ghost'.orphans = ghost.orphans
          /\ ~(new /\ td.pc # "idle" /\ (td.flow = f \/ td.e = e))
      BY <1>0, <2>1 DEF GhostType
    <2>3. e \in Entries /\ (new => NoneEntries # {} /\ e \in NoneEntries)
      <3>1. e \in Entries
        BY AllocOK, Session
      <3>2. ASSUME new PROVE NoneEntries # {} /\ e \in NoneEntries
        <4>1. num < MAX_LEN_OF_BA_REC_TABLE - 1
          BY <1>0, <1>2, <3>2
        <4> QED
          BY <3>2, <4>1, RoomMeansFree
      <3> QED
        BY <3>1, <3>2
    <2>4. c \in CtxType /\ c.list = IF new THEN rec[e].list ELSE <<>>
      BY <2>3, CtxOK, RefreshKeeps
    <2>5. x.list = c.list /\ x.BAWinSize = BAWinSize(buf)
      <3> DEFINE r == Entry(e, c)
      <3>1. r \in RecType /\ r.list = c.list
        BY <2>3, <2>4, EntryOK
      <3>2. x = [r EXCEPT !.status = "Accept", !.flow = f, !.LastIndSeq = RESET,
                          !.BAWinSize = BAWinSize(buf)]
        BY DEF Accepted
      <3> HIDE DEF r, x, c
      <3> QED
        BY <3>1, <3>2 DEF RecType
    <2>6. e \in Entries \ ghost.orphans => c.list = <<>>
      <3>1. ASSUME new, e \notin ghost.orphans PROVE rec[e].list = <<>>
        BY <2>3, <3>1 DEF Lists, Filed, InPlace, NoneEntries
      <3> QED
        BY <2>4, <3>1
    <2>7. idx' = [idx EXCEPT ![f] = e] /\ (~new => e = idx[f])
      BY <2>1, <2>3
    <2>8. ~new => rec[e].status = "Accept" /\ rec[e].flow = f
      BY <2>7 DEF Table, Named
    <2>9. ~new => c.list = <<>>
      BY <2>4
    <2> HIDE DEF x, c, e
    <2>10. /\ rec'[e].list = c.list /\ rec'[e].BAWinSize = BAWinSize(buf)
           /\ \A d \in Entries \ {e} : rec'[d] = rec[d]
           /\ idx'[f] = e /\ \A g \in Flows \ {f} : idx'[g] = idx[g]
      BY <1>0, <2>1, <2>3, <2>5, <2>7
    <2>11. Filed'
      <3>1. ASSUME NEW d \in Entries \ ghost.orphans, rec'[d].list # <<>>
            PROVE  rec'[d] = rec[d] /\ why'[rec[d].flow] = why[rec[d].flow]
        <4>1. d # e /\ rec'[d] = rec[d]
          BY <2>6, <2>10, <3>1
        <4>2. rec[d].flow \in Flows /\ rec[d].flow # f
          <5>1. rec[d].flow \in Flows /\ idx[rec[d].flow] = d /\ d # 0
            BY <3>1, <4>1, Known DEF Entries
          <5> QED
            BY <2>7, <4>1, <5>1
        <4> QED
          BY <1>0, <2>1, <4>1, <4>2
      <3> QED
        BY <2>2, <3>1, FiledKept
    <2>12. Flushed'
      <3> SUFFICES ASSUME td.pc \in {"section", "free", "dec"} PROVE rec'[td.e].list = <<>>
        BY <2>1 DEF Flushed
      <3>1. td.e \in Entries /\ rec[td.e].list = <<>>
        BY Commanded DEF Lists, Flushed
      <3> QED
        BY <2>2, <2>9, <2>10, <3>1
    <2>13. Windowed'
      <3> SUFFICES ASSUME NEW g \in Flows, idx'[g] # 0 PROVE rec'[idx'[g]].BAWinSize >= 1
        BY DEF Windowed
      <3>1. CASE g = f
        BY <2>10, <3>1, GrantedWindow
      <3>2. CASE g # f
        <4>1. idx'[g] = idx[g] /\ idx[g] # 0
          BY <2>10, <3>2
        <4>2. /\ idx[g] \in Entries /\ rec[idx[g]].BAWinSize >= 1
              /\ rec[idx[g]].status = "Accept" /\ rec[idx[g]].flow = g
          BY <4>1, Session DEF Table, Named, Lists, Windowed
        <4>3. idx[g] # e
          BY <2>3, <2>8, <3>2, <4>2 DEF NoneEntries
        <4> QED
          BY <2>10, <4>1, <4>2, <4>3
      <3> QED
        BY <3>1, <3>2
    <2> QED
      BY <2>11, <2>12, <2>13 DEF Lists
  <1> QED
    BY <1>1, <1>2

LEMMA TdRefreshLists ==
  ASSUME TInv, Table, Lists, TdRefresh
  PROVE  Lists'
  <1> DEFINE e == td.e
             c == Refresh(Ctx(td.flow, e))
  <1>1. td \in TdType /\ td.flow \in Flows /\ e \in Entries
    BY Commanded DEF TdRefresh
  <1>2. c \in CtxType /\ c.list = <<>> /\ c.why = why[td.flow]
    <2>1. Ctx(td.flow, e) \in CtxType /\ Ctx(td.flow, e).why = why[td.flow]
      BY <1>1, CtxOK DEF Ctx
    <2> QED
      BY <2>1, RefreshKeeps
  <1>3. /\ rec' = [rec EXCEPT ![e] = Entry(e, c)] /\ UNCHANGED <<idx, ghost>>
        /\ why' = [why EXCEPT ![td.flow] = c.why \cup {"refresh"}]
        /\ td' = [td EXCEPT !.pc = "section"]
    BY DEF TdRefresh
  <1>4. rec \in [Entries -> RecType] /\ why \in [Flows -> SUBSET Causes]
    BY DEF TInv, TypesNoPool
  <1>5. Entry(e, c).list = <<>> /\ Entry(e, c).BAWinSize = rec[e].BAWinSize
    <2>1. rec[e] \in RecType
      BY <1>1, <1>4
    <2> HIDE DEF e, c
    <2> QED
      BY <1>2, <2>1 DEF Entry, RecType
  <1> HIDE DEF c
  <1>6. /\ rec'[e].list = <<>> /\ rec'[e].BAWinSize = rec[e].BAWinSize
        /\ \A d \in Entries \ {e} : rec'[d] = rec[d]
    BY <1>1, <1>3, <1>4, <1>5
  <1>7. \A g \in Flows : why[g] \subseteq why'[g]
    BY <1>2, <1>3, <1>4
  <1>8. Filed'
    <2>1. ASSUME NEW d \in Entries \ ghost.orphans, rec'[d].list # <<>>
          PROVE  rec'[d] = rec[d] /\ why[rec[d].flow] \subseteq why'[rec[d].flow]
      <3>1. d # e /\ rec'[d] = rec[d]
        BY <1>6, <2>1
      <3>2. rec[d].flow \in Flows
        BY <2>1, <3>1, Known
      <3> QED
        BY <1>7, <3>1, <3>2
    <2> QED
      BY <1>3, <2>1, FiledKept
  <1>9. td'.e = e
    BY <1>1, <1>3 DEF TdType
  <1>10. Windowed'
    <2> SUFFICES ASSUME NEW g \in Flows, idx[g] # 0 PROVE rec'[idx[g]].BAWinSize >= 1
      BY <1>3 DEF Windowed
    <2>1. idx[g] \in Entries /\ rec[idx[g]].BAWinSize >= 1
      BY Session DEF Lists, Windowed
    <2> QED
      BY <1>6, <2>1
  <1> QED
    BY <1>6, <1>8, <1>9, <1>10 DEF Lists, Flushed

LEMMA TdSectionLists ==
  ASSUME TInv, Table, Lists, TdSection
  PROVE  Lists'
  <1> DEFINE e == td.e
             f == td.flow
             x == [rec[e] EXCEPT !.LastIndSeq = RESET, !.BAWinSize = 0]
  <1>1. td \in TdType /\ f \in Flows /\ e \in Entries /\ td.pc = "section"
    BY Commanded DEF TdSection
  <1>2. /\ rec' = [rec EXCEPT ![e].LastIndSeq = RESET, ![e].BAWinSize = 0]
        /\ idx' = [idx EXCEPT ![f] = 0] /\ why' = [why EXCEPT ![f] = {}]
        /\ td' = [td EXCEPT !.pc = "free"] /\ UNCHANGED ghost
    BY DEF TdSection
  <1>3. /\ rec \in [Entries -> RecType] /\ why \in [Flows -> SUBSET Causes]
        /\ idx \in [Flows -> 0 .. MAX_LEN_OF_BA_REC_TABLE - 1]
    BY DEF TInv, TypesNoPool
  <1>4. rec[e].list = <<>> /\ rec[e].flow = f /\ idx[f] \in {0, e}
    BY <1>1 DEF Lists, Flushed, Table, Command
  <1>5. rec'[e].list = <<>> /\ \A d \in Entries \ {e} : rec'[d] = rec[d]
    BY <1>1, <1>2, <1>3, <1>4 DEF RecType
  <1>6. Filed'
    <2>1. ASSUME NEW d \in Entries \ ghost.orphans, rec'[d].list # <<>>
          PROVE  rec'[d] = rec[d] /\ why'[rec[d].flow] = why[rec[d].flow]
      <3>1. d # e /\ rec'[d] = rec[d]
        BY <1>5, <2>1
      <3>2. rec[d].flow \in Flows /\ idx[rec[d].flow] = d /\ d # 0
        BY <2>1, <3>1, Known DEF Entries
      <3>3. rec[d].flow # f
        BY <1>4, <3>1, <3>2
      <3> QED
        BY <1>2, <1>3, <3>1, <3>2, <3>3
    <2> QED
      BY <1>2, <2>1, FiledKept
  <1>7. td'.e = e
    BY <1>1, <1>2 DEF TdType
  <1>8. Windowed'
    <2> SUFFICES ASSUME NEW g \in Flows, idx'[g] # 0 PROVE rec'[idx'[g]].BAWinSize >= 1
      BY DEF Windowed
    <2>1. g # f /\ idx'[g] = idx[g]
      BY <1>1, <1>2, <1>3
    <2>2. /\ idx[g] \in Entries /\ rec[idx[g]].BAWinSize >= 1 /\ rec[idx[g]].flow = g
      BY <2>1, Session DEF Lists, Windowed, Table, Named
    <2> QED
      BY <1>4, <1>5, <2>1, <2>2
  <1> QED
    BY <1>5, <1>6, <1>7, <1>8 DEF Lists, Flushed

LEMMA TdFreeLists ==
  ASSUME TInv, Table, Lists, TdFree
  PROVE  Lists'
  <1>1. td \in TdType /\ td.e \in Entries /\ td.flow \in Flows /\ td.pc = "free"
    BY Commanded DEF TdFree
  <1>2. /\ UNCHANGED <<rec, why, ghost>> /\ rec[td.e].flow = td.flow /\ idx[td.flow] = 0
        /\ rec[td.e].list = <<>>
    BY <1>1 DEF TdFree, Table, Command, Lists, Flushed
  <1>3. idx \in [Flows -> 0 .. MAX_LEN_OF_BA_REC_TABLE - 1]
    BY DEF TInv, TypesNoPool
  <1>4. idx' = idx /\ (td' = Idle \/ td' = [td EXCEPT !.pc = "dec"])
    BY <1>1, <1>2, <1>3 DEF TdFree
  <1>5. td'.pc = "idle" \/ td'.e = td.e
    BY <1>1, <1>4 DEF TdType, Idle
  <1>6. Filed'
    BY <1>2, FiledKept
  <1> QED
    BY <1>2, <1>4, <1>5, <1>6 DEF Lists, Flushed, Windowed

LEMMA TdDecLists ==
  ASSUME TInv, Table, Lists, TdDec
  PROVE  Lists'
  <1> DEFINE e == td.e
  <1>1. e \in Entries /\ td.pc = "dec"
    BY Commanded DEF TdDec
  <1>2. /\ rec' = [rec EXCEPT ![e].status = "NONE"] /\ td' = Idle
        /\ UNCHANGED <<idx, why, ghost>>
    BY DEF TdDec
  <1>3. rec \in [Entries -> RecType] /\ rec[e] \in RecType
    BY <1>1 DEF TInv, TypesNoPool
  <1>4. rec[e].list = <<>>
    BY <1>1 DEF Lists, Flushed
  <1>5. /\ rec'[e].list = <<>> /\ rec'[e].BAWinSize = rec[e].BAWinSize
        /\ \A d \in Entries \ {e} : rec'[d] = rec[d]
    BY <1>1, <1>2, <1>3, <1>4 DEF RecType
  <1>6. Filed'
    BY <1>2, <1>5, FiledKept
  <1>7. Windowed'
    <2> SUFFICES ASSUME NEW g \in Flows, idx[g] # 0 PROVE rec'[idx[g]].BAWinSize >= 1
      BY <1>2 DEF Windowed
    <2>1. idx[g] \in Entries /\ rec[idx[g]].BAWinSize >= 1
      BY Session DEF Lists, Windowed
    <2> QED
      BY <1>5, <2>1
  <1> QED
    BY <1>2, <1>6, <1>7 DEF Lists, Flushed, Idle

LEMMA TickLists ==
  ASSUME TInv, Lists, NEW e \in Entries, Tick(e)
  PROVE  Lists'
  <1> DEFINE x == [rec[e] EXCEPT !.age = rec[e].age + 1]
  <1>0. rec \in [Entries -> RecType] /\ rec[e] \in RecType
    BY DEF TInv, TypesNoPool
  <1>1. rec' = [rec EXCEPT ![e] = x] /\ UNCHANGED <<idx, why, td, ghost>>
    BY DEF Tick
  <1>2. /\ x.status = rec[e].status /\ x.flow = rec[e].flow /\ x.list = rec[e].list
        /\ x.LastIndSeq = rec[e].LastIndSeq /\ x.BAWinSize = rec[e].BAWinSize
    BY <1>0 DEF RecType
  <1> HIDE DEF x
  <1>3. \A d \in Entries :
           /\ rec'[d].list = rec[d].list /\ rec'[d].status = rec[d].status
           /\ rec'[d].flow = rec[d].flow /\ rec'[d].LastIndSeq = rec[d].LastIndSeq
           /\ rec'[d].BAWinSize = rec[d].BAWinSize
    BY <1>0, <1>1, <1>2
  <1>4. Filed'
    BY <1>1, <1>3, FiledKept
  <1>5. Flushed'
    BY <1>1, <1>3, Commanded DEF Lists, Flushed
  <1>6. Windowed'
    BY <1>1, <1>3, Session DEF Lists, Windowed
  <1> QED
    BY <1>4, <1>5, <1>6 DEF Lists

LEMMA ListNext ==
  ASSUME TInv, TableInv, ListInv, [Next]_vars
  PROVE  ListInv'
  <1> SUFFICES ASSUME ~ghost'.raced PROVE Lists'
    BY DEF ListInv
  <1>0. ~ghost.raced /\ Table /\ Lists /\ ghost \in GhostType
    BY RacedStays DEF TableInv, ListInv, TInv, TypesNoPool
  <1>1. ASSUME NEW f \in Flows, Softirq(f) PROVE Lists'
    <2>1. CASE Indicate_TornDown(f)
      BY <1>0, <2>1, CausesForgotten DEF Indicate_TornDown
    <2> QED
      BY <1>0, <1>1, <2>1, ReceptionLists, AddLists, SessionEndsLists, InsertLists DEF Softirq
  <1>2. ASSUME NEW f \in Flows, LoseFrame(f) \/ GiveUp(f) PROVE Lists'
    <2>1. /\ UNCHANGED <<rec, idx, td>> /\ ghost'.orphans = ghost.orphans
          /\ \A g \in Flows : why[g] \subseteq why'[g]
      BY <1>0, <1>2 DEF LoseFrame, GiveUp, GhostType, TInv, TypesNoPool
    <2> QED
      BY <1>0, <2>1, MoreCauses
  <1>3. ASSUME NEW f \in Flows, NEW heard \in BOOLEAN, TdEnter(f, heard) PROVE Lists'
    <2>1. UNCHANGED <<rec, why, idx>> /\ ghost'.orphans = ghost.orphans /\ td'.pc = "refresh"
      BY <1>0, <1>3 DEF TdEnter, GhostType
    <2> QED
      BY <1>0, <2>1 DEF Lists, Filed, InPlace, Flushed, Windowed
  <1>4. CASE UNCHANGED vars
    BY <1>0, <1>4, ListsSame DEF vars
  <1> QED
    BY <1>0, <1>1, <1>2, <1>3, <1>4, TickLists, TdRefreshLists, TdSectionLists,
       TdFreeLists, TdDecLists DEF Next

\* The reordering list of every session stays ordered, without duplicates and
\* inside the window, and never holds the next frame, in every reachable state
\* and for every window, table and pool, unless a frame was passed up directly
\* and its successor stayed, or a softirq refilled a list between the steps of
\* iwpriv BARecTearDown: ba_indicate_reordering_mpdus_le_seq and _in_order,
\* which stop at the first frame that does not fit, leave nothing behind.
THEOREM ListsStayInWindow == Spec => []ListInWindow
  <1>1. TInv /\ TableInv /\ ListInv /\ [Next]_vars => (TInv /\ TableInv /\ ListInv)'
    BY TNext, TableNext, ListNext
  <1>2. TInv /\ ListInv => ListInWindow
    <2> SUFFICES ASSUME TInv, ListInv, NEW e \in Entries \ ghost.orphans,
                        ~ghost.raced, rec[e].list # <<>>
                 PROVE  /\ rec[e].status = "Accept" /\ rec[e].LastIndSeq # RESET
                        /\ "stuck" \notin why[rec[e].flow] =>
                             /\ \A i \in DOMAIN rec[e].list :
                                   Distance(e, rec[e].list[i]) \in 2 .. rec[e].BAWinSize
                             /\ \A i \in 1 .. Len(rec[e].list) - 1 :
                                   Distance(e, rec[e].list[i]) < Distance(e, rec[e].list[i + 1])
      BY DEF ListInWindow
    <2> DEFINE l == rec[e].list
    <2>1. InPlace(e) /\ l \in Seq(FrameType)
      BY DEF ListInv, Lists, Filed, TInv, TypesNoPool, RecType
    <2>2. rec[e].status = "Accept" /\ rec[e].LastIndSeq \in Positions
      BY <2>1 DEF InPlace
    <2>3. rec[e].LastIndSeq # RESET
      BY <2>2, SequenceNumbers DEF Positions, RESET
    <2>4. \A i : Distance(e, l[i]) = At(l, i, rec[e].LastIndSeq)
      BY DEF Distance, At, Far
    <2>5. ASSUME "stuck" \notin why[rec[e].flow]
          PROVE  /\ \A i \in DOMAIN l : Distance(e, l[i]) \in 2 .. rec[e].BAWinSize
                 /\ \A i \in 1 .. Len(l) - 1 : Distance(e, l[i]) < Distance(e, l[i + 1])
      <3>1. Sorted(l, rec[e].LastIndSeq, 2, rec[e].BAWinSize)
        BY <2>1, <2>5 DEF InPlace
      <3>2. ASSUME NEW i \in 1 .. Len(l) - 1
            PROVE  i \in DOMAIN l /\ i + 1 \in DOMAIN l /\ i < i + 1
        BY <2>1
      <3> QED
        BY <2>4, <3>1, <3>2 DEF Sorted
    <2> QED
      BY <2>2, <2>3, <2>5
  <1> QED
    BY <1>1, <1>2, TInvInit, TableInit, ListInit, PTL DEF Spec
=============================================================================
