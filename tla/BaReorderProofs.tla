--------------------------- MODULE BaReorderProofs ---------------------------
(***************************************************************************)
(* Theorems about the Block Ack recipient for every number of flows,       *)
(* entries, blocks and frames, and every window that the sequence numbers  *)
(* allow.                                                                  *)
(***************************************************************************)
EXTENDS BaReorder, FiniteSetTheorems, TLAPS

-----------------------------------------------------------------------------
(* The operators on sets and sequences that the handlers use               *)

\* A set of numbers that is bounded has a last element: the sets of its
\* elements beyond one of them are finite and so have a minimal one among them.
LEMMA MaxIn ==
  ASSUME NEW n \in Nat, NEW S \in SUBSET (0 .. n), S # {}
  PROVE  Max(S) \in S /\ \A y \in S : y <= Max(S)
  <1> DEFINE U(x) == {y \in S : y > x}
             I == 0 .. n
             F == {U(x) : x \in S}
             R == StrictSubsetOrdering(I)
  <1>1. IsFiniteSet(I)
    BY FS_Interval
  <1>2. F \subseteq FiniteSubsetsOf(I) /\ F # {}
    <2>1. \A x \in S : U(x) \in SUBSET I
      OBVIOUS
    <2>2. F \subseteq SUBSET I /\ F # {}
      BY <2>1
    <2> HIDE DEF F, I
    <2> QED
      BY <1>1, <2>2, FS_FiniteSubsetsOfFinite
  <1>3. PICK V \in F : \A T \in F : ~(<<T, V>> \in R)
    <2> HIDE DEF F, I
    <2>1. IsWellFoundedOn(R, FiniteSubsetsOf(I))
      BY FS_StrictSubsetOrderingWellFounded
    <2> HIDE DEF R
    <2> QED
      BY <1>2, <2>1, WFMin
  <1>4. PICK x \in S : V = U(x)
    OBVIOUS
  <1>5. \A y \in S : y <= x
    <2> SUFFICES ASSUME NEW y \in S, y > x PROVE FALSE
      OBVIOUS
    <2>1. U(y) \in F /\ U(y) \in SUBSET I /\ V \in SUBSET I
      BY <1>4
    <2>2. U(y) \subseteq V /\ U(y) # V
      <3>1. S \subseteq Int
        OBVIOUS
      <3>2. U(y) \subseteq U(x)
        <4>1. \A z \in S : z > y => z > x
          BY <3>1
        <4> QED
          BY <4>1
      <3>3. y \in U(x) /\ y \notin U(y)
        BY <3>1
      <3> QED
        BY <1>4, <3>2, <3>3
    <2>3. <<U(y), V>> \in R
      BY <2>1, <2>2 DEF StrictSubsetOrdering
    <2> QED
      BY <1>3, <2>1, <2>3
  <1> QED
    BY <1>5 DEF Max

\* The same for the first element.
LEMMA MinIn ==
  ASSUME NEW a \in Nat, NEW b \in Nat, NEW S \in SUBSET (a .. b), S # {}
  PROVE  Min(S) \in S /\ \A y \in S : Min(S) <= y
  <1> DEFINE T == {b - y : y \in S}
  <1>1. T \in SUBSET (0 .. b) /\ T # {}
    OBVIOUS
  <1>2. Max(T) \in T /\ \A z \in T : z <= Max(T)
    BY <1>1, MaxIn
  <1>3. PICK x \in S : Max(T) = b - x
    BY <1>2
  <1>4. \A y \in S : x <= y
    <2> SUFFICES ASSUME NEW y \in S PROVE x <= y
      OBVIOUS
    <2>1. b - y \in T /\ b - y <= b - x
      BY <1>2, <1>3
    <2> QED
      BY <2>1
  <1> QED
    BY <1>4 DEF Min

LEMMA MaxOfTwo ==
  ASSUME NEW a \in Nat, NEW b \in Nat
  PROVE  Max({a, b}) \in Nat /\ a <= Max({a, b}) /\ b <= Max({a, b})
         /\ Min({a, b}) \in {a, b} /\ Min({a, b}) <= a /\ Min({a, b}) <= b
  <1>1. \E x \in {a, b} : \A y \in {a, b} : x >= y
    OBVIOUS
  <1>2. \E x \in {a, b} : \A y \in {a, b} : x <= y
    OBVIOUS
  <1> QED
    BY <1>1, <1>2 DEF Max, Min

LEMMA SplitSeq ==
  ASSUME NEW T, NEW s \in Seq(T), NEW k \in 0 .. Len(s)
  PROVE  /\ SubSeq(s, 1, k) \in Seq(T) /\ Len(SubSeq(s, 1, k)) = k
         /\ \A i \in 1 .. k : SubSeq(s, 1, k)[i] = s[i]
         /\ SubSeq(s, k + 1, Len(s)) \in Seq(T)
         /\ Len(SubSeq(s, k + 1, Len(s))) = Len(s) - k
         /\ \A i \in 1 .. Len(s) - k : SubSeq(s, k + 1, Len(s))[i] = s[k + i]
  <1>1. /\ SubSeq(s, 1, k) \in Seq(T) /\ Len(SubSeq(s, 1, k)) = k
        /\ \A i \in 1 .. k : SubSeq(s, 1, k)[i] = s[i]
    OBVIOUS
  <1>2. /\ SubSeq(s, k + 1, Len(s)) \in Seq(T)
        /\ Len(SubSeq(s, k + 1, Len(s))) = Len(s) - k
        /\ \A i \in 1 .. Len(s) - k : SubSeq(s, k + 1, Len(s))[i] = s[k + i]
    OBVIOUS
  <1> QED
    BY <1>1, <1>2

LEMMA InsertSeq ==
  ASSUME NEW T, NEW s \in Seq(T), NEW k \in 0 .. Len(s), NEW x \in T
  PROVE  /\ InsertAt(s, k + 1, x) \in Seq(T)
         /\ Len(InsertAt(s, k + 1, x)) = Len(s) + 1
         /\ \A i \in 1 .. k : InsertAt(s, k + 1, x)[i] = s[i]
         /\ InsertAt(s, k + 1, x)[k + 1] = x
         /\ \A i \in k + 2 .. Len(s) + 1 : InsertAt(s, k + 1, x)[i] = s[i - 1]
  <1> DEFINE a == SubSeq(s, 1, k)
             b == SubSeq(s, k + 1, Len(s))
  <1>1. /\ a \in Seq(T) /\ Len(a) = k /\ \A i \in 1 .. k : a[i] = s[i]
        /\ b \in Seq(T) /\ Len(b) = Len(s) - k
        /\ \A i \in 1 .. Len(s) - k : b[i] = s[k + i]
    BY SplitSeq
  <1>2. InsertAt(s, k + 1, x) = a \o <<x>> \o b
    <2>1. (k + 1) - 1 = k
      OBVIOUS
    <2> QED
      BY <2>1 DEF InsertAt
  <1> HIDE DEF a, b
  <1> DEFINE c == a \o <<x>>
  <1>3. /\ c \in Seq(T) /\ Len(c) = k + 1 /\ c[k + 1] = x
        /\ \A i \in 1 .. k : c[i] = s[i]
    BY <1>1
  <1> HIDE DEF c
  <1>4. /\ c \o b \in Seq(T) /\ Len(c \o b) = Len(s) + 1
        /\ \A i \in 1 .. k + 1 : (c \o b)[i] = c[i]
        /\ \A i \in 1 .. Len(s) - k : (c \o b)[k + 1 + i] = b[i]
    <2>1. Len(s) \in Nat /\ k \in Nat
      OBVIOUS
    <2>0. c \in Seq(T) /\ b \in Seq(T) /\ Len(c) = k + 1 /\ Len(b) = Len(s) - k
      BY <1>1, <1>3
    <2>2. c \o b \in Seq(T) /\ Len(c \o b) = Len(c) + Len(b)
      BY <2>0
    <2>3. Len(c \o b) = Len(s) + 1
      BY <2>0, <2>1, <2>2
    <2>4. ASSUME NEW i \in 1 .. k + 1 PROVE (c \o b)[i] = c[i]
      BY <2>0, <2>1
    <2>5. ASSUME NEW i \in 1 .. Len(s) - k PROVE (c \o b)[k + 1 + i] = b[i]
      BY <2>0, <2>1
    <2> QED
      BY <2>2, <2>3, <2>4, <2>5
  <1>5. ASSUME NEW i \in k + 2 .. Len(s) + 1 PROVE (c \o b)[i] = s[i - 1]
    <2>1. PICK j \in 1 .. Len(s) - k : i = k + 1 + j
      <3>1. i - k - 1 \in 1 .. Len(s) - k /\ i = k + 1 + (i - k - 1)
        OBVIOUS
      <3> QED
        BY <3>1
    <2>2. i - 1 = k + j
      BY <2>1
    <2>3. (c \o b)[k + 1 + j] = b[j] /\ b[j] = s[k + j]
      BY <1>1, <1>4
    <2> QED
      BY <2>1, <2>2, <2>3
  <1>6. InsertAt(s, k + 1, x) = c \o b
    BY <1>2 DEF c
  <1>7. (c \o b)[k + 1] = x /\ \A i \in 1 .. k : (c \o b)[i] = s[i]
    BY <1>3, <1>4
  <1> QED
    BY <1>4, <1>5, <1>6, <1>7

LEMMA SequenceNumbers ==
  /\ M \in Nat \ {0} /\ MAXSEQ \in Nat /\ M = MAXSEQ + 1
  /\ \A x \in Int : x % M \in 0 .. MAXSEQ
  <1>1. M \in Nat \ {0} /\ MAXSEQ \in Nat /\ M = MAXSEQ + 1
    BY ConstantsAssumption DEF ConstantsAssumption, M
  <1> HIDE DEF M
  <1> QED
    BY <1>1

-----------------------------------------------------------------------------
(* The handlers keep the types and lose no block                           *)
CtxType ==
  [LastIndSeq : {RESET} \cup 0 .. MAXSEQ, BAWinSize : Windows, list : Seq(FrameType),
   age : 0 .. 2, pool : Nat, out : Seq(FrameType), why : SUBSET Causes, leaked : Nat]

\* The blocks that a handler has in its hands: free, in the list or leaked.
Held(c) == c.pool + c.leaked + Len(c.list)

Keeps(c, d) == d \in CtxType /\ Held(d) = Held(c) /\ d.BAWinSize = c.BAWinSize

LEMMA FrameSeq ==
  ASSUME NEW fr \in FrameType
  PROVE  Seq12(fr) \in 0 .. MAXSEQ
  BY SequenceNumbers, ConstantsAssumption
  DEF ConstantsAssumption, Seq12, FrameType, Frames

LEMMA AnnounceKeeps ==
  ASSUME NEW c \in CtxType, NEW k \in 0 .. Len(c.list)
  PROVE  /\ Keeps(c, Announce(c, k))
         /\ Announce(c, k).LastIndSeq = c.LastIndSeq
         /\ Announce(c, k).list = SubSeq(c.list, k + 1, Len(c.list))
         /\ Announce(c, k).why = c.why
  <1> DEFINE a == SubSeq(c.list, 1, k)
             b == SubSeq(c.list, k + 1, Len(c.list))
             o == c.out \o a
             d == [c EXCEPT !.out = o, !.list = b, !.pool = c.pool + k]
  <1>0. c.list \in Seq(FrameType) /\ c.out \in Seq(FrameType) /\ c.pool \in Nat
        /\ c.leaked \in Nat
    BY DEF CtxType
  <1>1. a \in Seq(FrameType) /\ b \in Seq(FrameType) /\ Len(b) = Len(c.list) - k
    BY <1>0, SplitSeq
  <1>2. Announce(c, k) = d
    BY DEF Announce
  <1> HIDE DEF a, b
  <1>3. o \in Seq(FrameType) /\ c.pool + k \in Nat
    BY <1>0, <1>1
  <1> HIDE DEF o
  <1>4. d \in CtxType
    BY <1>1, <1>3 DEF CtxType
  <1>5. /\ d.pool = c.pool + k /\ d.leaked = c.leaked /\ d.list = b
        /\ d.BAWinSize = c.BAWinSize /\ d.LastIndSeq = c.LastIndSeq /\ d.why = c.why
    BY DEF CtxType
  <1>6. Held(d) = Held(c)
    BY <1>0, <1>1, <1>5 DEF Held
  <1> QED
    BY <1>2, <1>4, <1>5, <1>6 DEF Keeps, b

\* A handler may record a new position, causes and age at any time.
LEMMA RecordSeq ==
  ASSUME NEW c \in CtxType, NEW seq \in {RESET} \cup 0 .. MAXSEQ
  PROVE  Keeps(c, [c EXCEPT !.LastIndSeq = seq])
  BY DEF Keeps, CtxType, Held

LEMMA RecordCause ==
  ASSUME NEW c \in CtxType, NEW w \in SUBSET Causes
  PROVE  Keeps(c, [c EXCEPT !.why = w])
  BY DEF Keeps, CtxType, Held

LEMMA RecordAge ==
  ASSUME NEW c \in CtxType
  PROVE  Keeps(c, [c EXCEPT !.age = 0])
  BY DEF Keeps, CtxType, Held

LEMMA RecordBoth ==
  ASSUME NEW c \in CtxType, NEW seq \in {RESET} \cup 0 .. MAXSEQ, NEW w \in SUBSET Causes
  PROVE  Keeps(c, [c EXCEPT !.LastIndSeq = seq, !.why = w])
  BY DEF Keeps, CtxType, Held

LEMMA KeepsTrans ==
  ASSUME NEW c, NEW d, NEW e, Keeps(c, d), Keeps(d, e)
  PROVE  Keeps(c, e)
  BY DEF Keeps

LEMMA InOrderKeeps ==
  ASSUME NEW c \in CtxType, NEW seq \in Int
  PROVE  Keeps(c, InOrder(c, seq))
  <1> DEFINE run == {k \in 0 .. Len(c.list) :
                       \A i \in 1 .. k : Seq12(c.list[i]) = (seq + i) % M}
             k == Max(run)
  <1>0. c.list \in Seq(FrameType) /\ Len(c.list) \in Nat
    BY DEF CtxType
  <1>1. k \in 0 .. Len(c.list)
    <2>1. 0 \in run /\ run \in SUBSET (0 .. Len(c.list))
      BY <1>0
    <2> HIDE DEF run
    <2> QED
      BY <1>0, <2>1, MaxIn
  <1>2. InOrder(c, seq) = IF k = 0 THEN c
                          ELSE [Announce(c, k) EXCEPT !.LastIndSeq = Seq12(c.list[k])]
    BY DEF InOrder
  <1> HIDE DEF k
  <1>3. CASE k = 0
    BY <1>2, <1>3 DEF Keeps
  <1>4. CASE k # 0
    <2>1. c.list[k] \in FrameType
      BY <1>0, <1>1, <1>4
    <2>2. Seq12(c.list[k]) \in {RESET} \cup 0 .. MAXSEQ
      BY <2>1, FrameSeq
    <2>3. Keeps(c, Announce(c, k)) /\ Announce(c, k) \in CtxType
      BY <1>1, AnnounceKeeps DEF Keeps
    <2>4. Keeps(Announce(c, k), [Announce(c, k) EXCEPT !.LastIndSeq = Seq12(c.list[k])])
      BY <2>2, <2>3, RecordSeq
    <2> QED
      BY <1>2, <1>4, <2>3, <2>4, KeepsTrans
  <1> QED
    BY <1>3, <1>4

LEMMA LeSeqKeeps ==
  ASSUME NEW c \in CtxType, NEW seq \in Int
  PROVE  Keeps(c, LeSeq(c, seq)) /\ LeSeq(c, seq) \in CtxType
  <1> DEFINE run == {k \in 0 .. Len(c.list) :
                       \A i \in 1 .. k : \/ Seq12(c.list[i]) = seq
                                         \/ SEQ_SMALLER(Seq12(c.list[i]), seq)}
             k == Max(run)
  <1>0. Len(c.list) \in Nat
    BY DEF CtxType
  <1>1. k \in 0 .. Len(c.list)
    <2>1. 0 \in run /\ run \in SUBSET (0 .. Len(c.list))
      BY <1>0
    <2> HIDE DEF run
    <2> QED
      BY <1>0, <2>1, MaxIn
  <1>2. LeSeq(c, seq) = Announce(c, k)
    BY DEF LeSeq
  <1> HIDE DEF k
  <1> QED
    BY <1>1, <1>2, AnnounceKeeps DEF Keeps

LEMMA RefreshKeeps ==
  ASSUME NEW c \in CtxType
  PROVE  /\ Keeps(c, Refresh(c)) /\ Refresh(c) \in CtxType
         /\ Refresh(c).list = <<>> /\ Refresh(c).why = c.why
         /\ Refresh(c).leaked = c.leaked
  <1>0. c.list \in Seq(FrameType) /\ Len(c.list) \in 0 .. Len(c.list)
    BY DEF CtxType
  <1>1. /\ Keeps(c, Announce(c, Len(c.list))) /\ Announce(c, Len(c.list)) \in CtxType
        /\ Announce(c, Len(c.list)).list = SubSeq(c.list, Len(c.list) + 1, Len(c.list))
        /\ Announce(c, Len(c.list)).why = c.why
    BY <1>0, AnnounceKeeps DEF Keeps
  <1>2. SubSeq(c.list, Len(c.list) + 1, Len(c.list)) = <<>>
    BY <1>0
  <1>3. Announce(c, Len(c.list)).leaked = c.leaked
    BY DEF Announce, CtxType
  <1> DEFINE d == Announce(c, Len(c.list))
  <1> HIDE DEF d
  <1>4. Refresh(c) = [d EXCEPT !.LastIndSeq = RESET]
    BY DEF Refresh, d
  <1>5. d \in CtxType /\ Keeps(c, d) /\ d.list = <<>> /\ d.why = c.why /\ d.leaked = c.leaked
    BY <1>1, <1>2, <1>3 DEF d
  <1>6. Keeps(d, Refresh(c))
    BY <1>4, <1>5, RecordSeq
  <1>7. Refresh(c).list = d.list /\ Refresh(c).why = d.why /\ Refresh(c).leaked = d.leaked
    BY <1>4, <1>5 DEF CtxType
  <1> QED
    BY <1>5, <1>6, <1>7, KeepsTrans DEF Keeps

LEMMA FlushTimeoutKeeps ==
  ASSUME NEW c \in CtxType
  PROVE  Keeps(c, FlushTimeout(c))
  <1> DEFINE seq == (c.LastIndSeq + 1) % M
             d == LeSeq(c, seq)
             e == [d EXCEPT !.LastIndSeq = seq, !.why = c.why \cup {"timeout"}]
             g == [Refresh(c) EXCEPT !.why = c.why \cup {"refresh"}]
  <1>0. seq \in 0 .. MAXSEQ /\ c.why \subseteq Causes
    <2>1. c.LastIndSeq \in Int /\ c.why \subseteq Causes
      BY SequenceNumbers DEF CtxType, RESET
    <2>2. c.LastIndSeq + 1 \in Int
      BY <2>1
    <2> QED
      BY <2>1, <2>2, SequenceNumbers
  <1>1. FlushTimeout(c) \in {g, InOrder(e, seq), c}
    BY DEF FlushTimeout
  <1>2. Keeps(c, g)
    <2>1. Keeps(c, Refresh(c)) /\ Refresh(c) \in CtxType
      BY RefreshKeeps
    <2>2. c.why \cup {"refresh"} \in SUBSET Causes
      BY <1>0 DEF Causes
    <2>3. Keeps(Refresh(c), g)
      BY <2>1, <2>2, RecordCause
    <2> QED
      BY <2>1, <2>3, KeepsTrans
  <1>3. Keeps(c, InOrder(e, seq))
    <2> HIDE DEF seq
    <2>1. Keeps(c, d) /\ d \in CtxType
      BY <1>0, LeSeqKeeps
    <2>2. c.why \cup {"timeout"} \in SUBSET Causes
      BY <1>0 DEF Causes
    <2> HIDE DEF d
    <2>3. Keeps(d, e) /\ e \in CtxType
      BY <1>0, <2>1, <2>2, RecordBoth DEF Keeps
    <2> HIDE DEF e
    <2>4. Keeps(e, InOrder(e, seq))
      BY <1>0, <2>3, InOrderKeeps
    <2> QED
      BY <2>1, <2>3, <2>4, KeepsTrans
  <1> QED
    BY <1>1, <1>2, <1>3 DEF Keeps

LEMMA InsertSortedKeeps ==
  ASSUME NEW c \in CtxType, NEW fr \in FrameType, c.pool > 0
  PROVE  Keeps(c, InsertSorted(c, fr))
  <1> DEFINE places == {j \in 0 .. Len(c.list) :
                          \A i \in 1 .. j : SEQ_SMALLER(Seq12(c.list[i]), Seq12(fr))}
             k == Max(places)
             l == InsertAt(c.list, k + 1, fr)
             d == [c EXCEPT !.list = l, !.pool = c.pool - 1]
  <1>0. c.list \in Seq(FrameType) /\ Len(c.list) \in Nat /\ c.pool \in Nat /\ c.leaked \in Nat
    BY DEF CtxType
  <1>1. k \in 0 .. Len(c.list)
    <2>1. 0 \in places /\ places \in SUBSET (0 .. Len(c.list))
      BY <1>0
    <2> HIDE DEF places
    <2> QED
      BY <1>0, <2>1, MaxIn
  <1>2. InsertSorted(c, fr) \in {c, d}
    BY DEF InsertSorted
  <1> HIDE DEF k
  <1>3. l \in Seq(FrameType) /\ Len(l) = Len(c.list) + 1
    <2>1. ASSUME NEW T, NEW s \in Seq(T), NEW j \in 0 .. Len(s), NEW x \in T
          PROVE  InsertAt(s, j + 1, x) \in Seq(T) /\ Len(InsertAt(s, j + 1, x)) = Len(s) + 1
      BY InsertSeq
    <2> QED
      BY <1>0, <1>1, <2>1
  <1> HIDE DEF l
  <1>4. c.pool - 1 \in Nat
    BY <1>0
  <1>5. d \in CtxType
    BY <1>3, <1>4 DEF CtxType
  <1>6. d.pool = c.pool - 1 /\ d.leaked = c.leaked /\ d.list = l /\ d.BAWinSize = c.BAWinSize
    BY DEF CtxType
  <1> HIDE DEF d
  <1>7. Held(d) = Held(c)
    <2>1. Held(d) = (c.pool - 1) + c.leaked + (Len(c.list) + 1)
      BY <1>3, <1>6 DEF Held
    <2>2. \A p, q, n \in Nat : (p - 1) + q + (n + 1) = p + q + n
      OBVIOUS
    <2> QED
      BY <1>0, <2>1, <2>2 DEF Held
  <1> QED
    BY <1>2, <1>5, <1>6, <1>7 DEF Keeps

LEMMA IndicateKeeps ==
  ASSUME NEW c \in CtxType, NEW fr \in FrameType
  PROVE  Keeps(c, Indicate(c, fr))
  <1>1. Append(c.out, fr) \in Seq(FrameType)
    BY DEF CtxType
  <1> DEFINE o == Append(c.out, fr)
  <1>2. Indicate(c, fr) = [c EXCEPT !.out = o]
    BY DEF Indicate
  <1> HIDE DEF o
  <1>3. [c EXCEPT !.out = o] \in CtxType
    BY <1>1 DEF CtxType, o
  <1> QED
    BY <1>2, <1>3 DEF Keeps, Held, CtxType

LEMMA EnqueueKeeps ==
  ASSUME NEW c \in CtxType, NEW fr \in FrameType
  PROVE  Keeps(c, Enqueue(c, fr)) /\ Enqueue(c, fr) \in CtxType
  <1> DEFINE leak == IF c.pool > 0 THEN 1 ELSE 0
             a == [c EXCEPT !.pool = c.pool - leak, !.leaked = c.leaked + leak]
             d == LeSeq(a, Seq12(fr))
             w == d.why \cup {"direct"} \cup Again(c, Seq12(fr))
             e == [d EXCEPT !.LastIndSeq = Seq12(fr), !.why = w]
  <1>1. CASE c.pool > 0 /\ fr.n \notin EapFrames
    BY <1>1, InsertSortedKeeps DEF Enqueue, Keeps
  <1>2. CASE ~(c.pool > 0 /\ fr.n \notin EapFrames)
    <2>0. c.pool \in Nat /\ c.leaked \in Nat /\ Len(c.list) \in Nat
      BY DEF CtxType
    <2>1. leak \in Nat /\ c.pool - leak \in Nat /\ c.leaked + leak \in Nat
          /\ (c.pool - leak) + (c.leaked + leak) = c.pool + c.leaked
      BY <2>0
    <2>2. Enqueue(c, fr) = Indicate(e, fr)
      BY <1>2 DEF Enqueue
    <2> HIDE DEF leak
    <2>3. a \in CtxType
      BY <2>1 DEF CtxType
    <2>4. a.pool = c.pool - leak /\ a.leaked = c.leaked + leak /\ a.list = c.list
          /\ a.BAWinSize = c.BAWinSize
      BY DEF CtxType
    <2>5. Keeps(c, a)
      BY <2>0, <2>1, <2>3, <2>4 DEF Keeps, Held
    <2> HIDE DEF a
    <2>6. Seq12(fr) \in 0 .. MAXSEQ
      BY FrameSeq
    <2>7. Keeps(a, d) /\ d \in CtxType
      BY <2>3, <2>6, LeSeqKeeps
    <2> HIDE DEF d
    <2>8. w \in SUBSET Causes
      BY <2>7 DEF CtxType, Causes, Again
    <2> HIDE DEF w
    <2>9. Keeps(d, e) /\ e \in CtxType
      BY <2>6, <2>7, <2>8, RecordBoth DEF Keeps
    <2> HIDE DEF e
    <2>10. Keeps(e, Indicate(e, fr))
      BY <2>9, IndicateKeeps
    <2> QED
      BY <2>2, <2>5, <2>7, <2>9, <2>10, KeepsTrans DEF Keeps
  <1> QED
    BY <1>1, <1>2

LEMMA WithinWindowKeeps ==
  ASSUME NEW c \in CtxType, NEW fr \in FrameType
  PROVE  Keeps(c, WithinWindow(c, fr))
  <1> DEFINE d == Enqueue(c, fr)
             e == [d EXCEPT !.why = d.why \cup {"stuck"}]
  <1>1. WithinWindow(c, fr) \in {d, e}
    BY DEF WithinWindow
  <1>2. Keeps(c, d) /\ d \in CtxType
    BY EnqueueKeeps
  <1> HIDE DEF d
  <1>3. d.why \cup {"stuck"} \in SUBSET Causes
    BY <1>2 DEF CtxType, Causes
  <1>4. Keeps(d, e)
    BY <1>2, <1>3, RecordCause
  <1> QED
    BY <1>1, <1>2, <1>4, KeepsTrans

LEMMA BeyondWindowKeeps ==
  ASSUME NEW c \in CtxType, NEW fr \in FrameType
  PROVE  Keeps(c, BeyondWindow(c, fr))
  <1> DEFINE s == WinStartSeq(c, fr)
             a == LeSeq(c, s)
             b == [a EXCEPT !.LastIndSeq = s]
             d == Enqueue(b, fr)
  <1>1. s \in 0 .. MAXSEQ
    <2>1. c.BAWinSize \in Int /\ Seq12(fr) \in Int
      BY FrameSeq DEF CtxType, Windows
    <2>2. Seq12(fr) - c.BAWinSize \in Int
      BY <2>1
    <2> QED
      BY <2>2, SequenceNumbers DEF WinStartSeq
  <1>2. BeyondWindow(c, fr) = InOrder(d, d.LastIndSeq)
    BY DEF BeyondWindow
  <1> HIDE DEF s
  <1>3. Keeps(c, a) /\ a \in CtxType
    BY <1>1, LeSeqKeeps
  <1> HIDE DEF a
  <1>4. Keeps(a, b) /\ b \in CtxType
    BY <1>1, <1>3, RecordSeq DEF Keeps
  <1> HIDE DEF b
  <1>5. Keeps(b, d) /\ d \in CtxType
    BY <1>4, EnqueueKeeps
  <1> HIDE DEF d
  <1>6. Keeps(d, InOrder(d, d.LastIndSeq))
    <2>1. d.LastIndSeq \in Int
      BY <1>5, SequenceNumbers DEF CtxType, RESET
    <2> QED
      BY <1>5, <2>1, InOrderKeeps
  <1> QED
    BY <1>2, <1>3, <1>4, <1>5, <1>6, KeepsTrans

LEMMA IndicateAmpduKeeps ==
  ASSUME NEW c0 \in CtxType, NEW fr \in FrameType, NEW base
  PROVE  Keeps(c0, Indicate_AMPDU(c0, fr, base))
  <1> DEFINE b == FlushTimeout(c0)
             c == [b EXCEPT !.age = 0]
             s == Seq12(fr)
             w == IF fr.n = base THEN c.why ELSE c.why \cup {"first"}
             d == [c EXCEPT !.LastIndSeq = s, !.why = w]
             e == [c EXCEPT !.LastIndSeq = s]
  <1>1. Indicate_AMPDU(c0, fr, base) \in
          {Indicate(d, fr), InOrder(Indicate(e, fr), s), c, WithinWindow(c, fr),
           BeyondWindow(c, fr)}
    BY DEF Indicate_AMPDU
  <1>2. Keeps(c0, b) /\ b \in CtxType
    BY FlushTimeoutKeeps DEF Keeps
  <1> HIDE DEF b
  <1>3. Keeps(b, c) /\ c \in CtxType
    BY <1>2, RecordAge DEF Keeps
  <1>4. s \in 0 .. MAXSEQ /\ w \in SUBSET Causes
    BY <1>3, FrameSeq DEF CtxType, Causes
  <1> HIDE DEF c, s, w
  <1>5. Keeps(c, d) /\ d \in CtxType /\ Keeps(c, e) /\ e \in CtxType
    <2>1. s \in {RESET} \cup 0 .. MAXSEQ
      BY <1>4
    <2>2. Keeps(c, d)
      BY <1>3, <1>4, <2>1, RecordBoth
    <2>3. Keeps(c, e)
      BY <1>3, <2>1, RecordSeq
    <2> QED
      BY <2>2, <2>3 DEF Keeps
  <1> HIDE DEF d, e
  <1>6. Keeps(d, Indicate(d, fr)) /\ Keeps(e, Indicate(e, fr)) /\ Indicate(e, fr) \in CtxType
    BY <1>5, IndicateKeeps DEF Keeps
  <1>7. Keeps(Indicate(e, fr), InOrder(Indicate(e, fr), s))
    BY <1>4, <1>6, InOrderKeeps
  <1>8. Keeps(c, WithinWindow(c, fr)) /\ Keeps(c, BeyondWindow(c, fr))
    BY <1>3, WithinWindowKeeps, BeyondWindowKeeps
  <1>9. Keeps(c0, c)
    BY <1>2, <1>3, KeepsTrans
  <1>10. Keeps(c, Indicate(d, fr)) /\ Keeps(c, InOrder(Indicate(e, fr), s))
    BY <1>5, <1>6, <1>7, KeepsTrans
  <1> QED
    BY <1>1, <1>8, <1>9, <1>10, KeepsTrans

LEMMA BlockAckReqKeeps ==
  ASSUME NEW c \in CtxType, NEW start \in 0 .. MAXSEQ
  PROVE  Keeps(c, BlockAckReq(c, start))
  <1> DEFINE d == LeSeq(c, start)
             s == IF start = 0 THEN MAXSEQ ELSE start - 1
             w == c.why \cup Again(c, start)
             e == [d EXCEPT !.LastIndSeq = s, !.why = w]
  <1>1. BlockAckReq(c, start) \in {c, e}
    BY DEF BlockAckReq
  <1>2. s \in 0 .. MAXSEQ /\ w \in SUBSET Causes
    BY SequenceNumbers DEF CtxType, Causes, Again
  <1>3. Keeps(c, d) /\ d \in CtxType
    BY LeSeqKeeps
  <1> HIDE DEF d, s, w
  <1>4. Keeps(d, e)
    BY <1>2, <1>3, RecordBoth
  <1> QED
    BY <1>1, <1>3, <1>4, KeepsTrans DEF Keeps

-----------------------------------------------------------------------------
(* The blocks in use                                                       *)
Slots(r, S) == UNION {{e} \X DOMAIN r[e].list : e \in S}

LEMMA EntriesFinite == IsFiniteSet(Entries) /\ Entries \subseteq Nat
  <1> DEFINE n == MAX_LEN_OF_BA_REC_TABLE - 1
  <1>1. n \in Int /\ 1 \in Int
    BY ConstantsAssumption DEF ConstantsAssumption
  <1>2. Entries = 1 .. n
    BY DEF Entries
  <1> HIDE DEF n
  <1>3. IsFiniteSet(1 .. n)
    BY <1>1, FS_Interval
  <1>4. 1 .. n \subseteq Nat
    BY <1>1
  <1> QED
    BY <1>2, <1>3, <1>4

LEMMA ListSlots ==
  ASSUME NEW e, NEW l \in Seq(FrameType)
  PROVE  IsFiniteSet({e} \X DOMAIN l) /\ Cardinality({e} \X DOMAIN l) = Len(l)
  <1>1. DOMAIN l = 1 .. Len(l) /\ Len(l) \in Nat
    OBVIOUS
  <1>2. IsFiniteSet(1 .. Len(l)) /\ Cardinality(1 .. Len(l)) = Len(l)
    <2> DEFINE n == Len(l)
    <2>1. n \in Nat /\ n \in Int /\ 1 \in Int
      BY <1>1
    <2> HIDE DEF n
    <2>2. IsFiniteSet(1 .. n)
      BY <2>1, FS_Interval
    <2>3. Cardinality(1 .. n) = IF 1 > n THEN 0 ELSE n - 1 + 1
      BY <2>1, FS_Interval
    <2>4. Cardinality(1 .. n) = n
      BY <2>1, <2>3
    <2> QED
      BY <2>2, <2>4 DEF n
  <1>3. IsFiniteSet({e}) /\ Cardinality({e}) = 1
    BY FS_Singleton
  <1>4. /\ IsFiniteSet({e} \X (1 .. Len(l)))
        /\ Cardinality({e} \X (1 .. Len(l))) = 1 * Len(l)
    <2> DEFINE S == {e}
               T == 1 .. Len(l)
    <2> HIDE DEF S, T
    <2>1. IsFiniteSet(S) /\ Cardinality(S) = 1 /\ IsFiniteSet(T) /\ Cardinality(T) = Len(l)
      BY <1>2, <1>3 DEF S, T
    <2>2. IsFiniteSet(S \X T) /\ Cardinality(S \X T) = Cardinality(S) * Cardinality(T)
      BY <2>1, FS_Product
    <2>3. IsFiniteSet(S \X T) /\ Cardinality(S \X T) = 1 * Len(l)
      BY <2>1, <2>2
    <2> QED
      BY <2>3 DEF S, T
  <1>5. {e} \X DOMAIN l = {e} \X (1 .. Len(l))
    BY <1>1, Zenon
  <1>6. \A n \in Nat : 1 * n = n
    OBVIOUS
  <1> QED
    BY <1>1, <1>4, <1>5, <1>6

LEMMA SlotsFinite ==
  ASSUME NEW r \in [Entries -> RecType], NEW S \in SUBSET Entries
  PROVE  IsFiniteSet(Slots(r, S)) /\ Cardinality(Slots(r, S)) \in Nat
  <1> DEFINE P(e) == {e} \X DOMAIN r[e].list
             F == {P(e) : e \in S}
  <1>1. IsFiniteSet(S)
    BY EntriesFinite, FS_Subset
  <1>2. IsFiniteSet(F)
    <2> DEFINE g == [e \in S |-> P(e)]
    <2>1. g \in Surjection(S, F)
      BY DEF Surjection
    <2> HIDE DEF g, F
    <2> QED
      BY <1>1, <2>1, FS_Surjection
  <1>3. ASSUME NEW T \in F PROVE IsFiniteSet(T)
    <2>1. PICK e \in S : T = {e} \X DOMAIN r[e].list
      OBVIOUS
    <2>2. r[e].list \in Seq(FrameType)
      BY DEF RecType
    <2> QED
      BY <2>1, <2>2, ListSlots
  <1>4. Slots(r, S) = UNION F
    BY DEF Slots
  <1> HIDE DEF F
  <1>5. IsFiniteSet(UNION F)
    BY <1>2, <1>3, FS_UNION
  <1> QED
    BY <1>4, <1>5, FS_CardinalityType

\* A step that changes the list of one entry changes the blocks in use by the
\* difference of its lengths.
LEMMA SlotsSplit ==
  ASSUME NEW r \in [Entries -> RecType], NEW e \in Entries
  PROVE  Cardinality(Slots(r, Entries)) =
           Cardinality(Slots(r, Entries \ {e})) + Len(r[e].list)
  <1> DEFINE A == Slots(r, Entries \ {e})
             B == {e} \X DOMAIN r[e].list
  <1>1. Slots(r, Entries) = A \cup B
    BY DEF Slots
  <1>2. A \cap B = {}
    <2>1. \A x \in A : x[1] # e
      BY DEF Slots
    <2> QED
      BY <2>1
  <1>3. r[e].list \in Seq(FrameType)
    BY DEF RecType
  <1>4. IsFiniteSet(B) /\ Cardinality(B) = Len(r[e].list) /\ Len(r[e].list) \in Nat
    <2>1. Len(r[e].list) \in Nat
      BY <1>3
    <2>2. ASSUME NEW l \in Seq(FrameType)
          PROVE  IsFiniteSet({e} \X DOMAIN l) /\ Cardinality({e} \X DOMAIN l) = Len(l)
      BY ListSlots
    <2> QED
      BY <1>3, <2>1, <2>2
  <1>5. IsFiniteSet(A) /\ Cardinality(A) \in Nat
    BY SlotsFinite
  <1> HIDE DEF A, B
  <1>6. Cardinality(A \cup B) = Cardinality(A) + Cardinality(B) - Cardinality(A \cap B)
    BY <1>4, <1>5, FS_Union
  <1>7. Cardinality(A \cap B) = 0
    BY <1>2, FS_EmptySet
  <1> QED
    BY <1>1, <1>4, <1>5, <1>6, <1>7 DEF A

LEMMA SlotsChange ==
  ASSUME NEW r \in [Entries -> RecType], NEW e \in Entries, NEW x \in RecType
  PROVE  Cardinality(Slots([r EXCEPT ![e] = x], Entries)) =
           Cardinality(Slots(r, Entries)) - Len(r[e].list) + Len(x.list)
  <1> DEFINE q == [r EXCEPT ![e] = x]
  <1>1. q \in [Entries -> RecType] /\ q[e] = x /\ \A g \in Entries \ {e} : q[g] = r[g]
    OBVIOUS
  <1> HIDE DEF q
  <1>2. Slots(q, Entries \ {e}) = Slots(r, Entries \ {e})
    BY <1>1 DEF Slots
  <1>3. /\ Cardinality(Slots(q, Entries)) = Cardinality(Slots(q, Entries \ {e})) + Len(x.list)
        /\ Cardinality(Slots(r, Entries)) = Cardinality(Slots(r, Entries \ {e})) + Len(r[e].list)
    BY <1>1, SlotsSplit
  <1>4. Cardinality(Slots(r, Entries \ {e})) \in Nat /\ Len(x.list) \in Nat
        /\ Len(r[e].list) \in Nat
    BY SlotsFinite DEF RecType
  <1> QED
    BY <1>2, <1>3, <1>4 DEF q

-----------------------------------------------------------------------------
(* Types and blocks, step by step                                          *)

\* What the originators' numbers are in reach of.
OrigOK ==
  \A f \in Flows : /\ orig[f].base <= orig[f].next
                    /\ orig[f].next <= FirstFrame + ghost.sent
                    /\ \A n \in orig[f].acked : n < orig[f].next

TypesNoPool ==
  /\ rec \in [Entries -> RecType]
  /\ idx \in [Flows -> 0 .. MAX_LEN_OF_BA_REC_TABLE - 1]
  /\ sta \in [Flows -> BOOLEAN]
  /\ num \in Int
  /\ pool \in Nat
  /\ td \in TdType \cup {Idle}
  /\ orig \in [Flows -> OrigType]
  /\ up \in [Flows -> UpType]
  /\ why \in [Flows -> SUBSET Causes]
  /\ ghost \in GhostType

TInv == TypesNoPool /\ BlocksAccounted /\ OrigOK

\* The pool is bounded by what it was made with, because every block that it
\* gets back was taken.
LEMMA TInvTypes == TInv => TypeOK
  <1> SUFFICES ASSUME TInv PROVE TypeOK
    OBVIOUS
  <1>1. Cardinality(InUse) \in Nat
    <2>1. InUse = Slots(rec, Entries)
      BY DEF InUse, Slots
    <2> QED
      BY <2>1, SlotsFinite DEF TInv, TypesNoPool
  <1>2. pool \in Nat /\ ghost.leaked \in Nat
    BY DEF TInv, TypesNoPool, GhostType
  <1>3. pool + ghost.leaked + Cardinality(InUse) = MAX_REORDERING_MPDU_NUM
        /\ MAX_REORDERING_MPDU_NUM \in Nat
    BY ConstantsAssumption DEF ConstantsAssumption, TInv, BlocksAccounted
  <1>4. pool \in 0 .. MAX_REORDERING_MPDU_NUM
    BY <1>1, <1>2, <1>3
  <1> QED
    BY <1>4 DEF TInv, TypesNoPool, TypeOK

\* An entry is changed and no block is lost.
LEMMA EntryStep ==
  ASSUME TInv, NEW e \in Entries, NEW x \in RecType, rec' = [rec EXCEPT ![e] = x],
         pool' \in Nat, ghost'.leaked \in Nat,
         pool' + ghost'.leaked + Len(x.list) = pool + ghost.leaked + Len(rec[e].list)
  PROVE  rec' \in [Entries -> RecType] /\ BlocksAccounted'
  <1>0. rec \in [Entries -> RecType] /\ pool \in Nat /\ ghost.leaked \in Nat
    BY DEF TInv, TypesNoPool, GhostType
  <1>1. rec' \in [Entries -> RecType]
    BY <1>0
  <1>2. InUse = Slots(rec, Entries) /\ InUse' = Slots(rec', Entries)
    BY DEF InUse, Slots
  <1>3. Cardinality(InUse') = Cardinality(InUse) - Len(rec[e].list) + Len(x.list)
    <2>1. Cardinality(Slots([rec EXCEPT ![e] = x], Entries)) =
            Cardinality(Slots(rec, Entries)) - Len(rec[e].list) + Len(x.list)
      BY <1>0, SlotsChange
    <2> QED
      BY <1>2, <2>1
  <1>4. Cardinality(InUse) \in Nat /\ Len(rec[e].list) \in Nat /\ Len(x.list) \in Nat
    <2>1. Cardinality(Slots(rec, Entries)) \in Nat
      BY <1>0, SlotsFinite
    <2>2. rec[e].list \in Seq(FrameType) /\ x.list \in Seq(FrameType)
      BY <1>0 DEF RecType
    <2> QED
      BY <1>2, <2>1, <2>2
  <1>5. pool + ghost.leaked + Cardinality(InUse) = MAX_REORDERING_MPDU_NUM
    BY DEF TInv, BlocksAccounted
  <1>6. pool' + ghost'.leaked + Cardinality(InUse') = MAX_REORDERING_MPDU_NUM
    <2> DEFINE p == pool
               q == ghost.leaked
               l == Len(rec[e].list)
               n == Cardinality(InUse)
               p1 == pool'
               q1 == ghost'.leaked
               l1 == Len(x.list)
    <2>1. /\ p \in Nat /\ q \in Nat /\ l \in Nat /\ n \in Nat
          /\ p1 \in Nat /\ q1 \in Nat /\ l1 \in Nat
          /\ p1 + q1 + l1 = p + q + l
      BY <1>0, <1>4
    <2>2. p + q + n = MAX_REORDERING_MPDU_NUM /\ Cardinality(InUse') = n - l + l1
      BY <1>3, <1>5
    <2> HIDE DEF p, q, l, n, p1, q1, l1
    <2>3. p1 + q1 + (n - l + l1) = p + q + n
      BY <2>1
    <2> QED
      BY <2>2, <2>3 DEF p1, q1
  <1> QED
    BY <1>1, <1>6 DEF BlocksAccounted

LEMMA CtxOK ==
  ASSUME TInv, NEW f \in Flows, NEW e \in Entries
  PROVE  /\ Ctx(f, e) \in CtxType /\ Ctx(f, e).leaked = ghost.leaked
         /\ Held(Ctx(f, e)) = pool + ghost.leaked + Len(rec[e].list)
         /\ Ctx(f, e).list = rec[e].list /\ Ctx(f, e).pool = pool
  <1>1. rec[e] \in RecType /\ why[f] \in SUBSET Causes /\ pool \in Nat
        /\ ghost.leaked \in Nat
    BY DEF TInv, TypesNoPool, GhostType
  <1>2. <<>> \in Seq(FrameType)
    OBVIOUS
  <1> QED
    BY <1>1, <1>2 DEF Ctx, CtxType, RecType, Held

LEMMA EntryOK ==
  ASSUME TInv, NEW e \in Entries, NEW c \in CtxType
  PROVE  /\ Entry(e, c) \in RecType /\ Entry(e, c).list = c.list
         /\ Entry(e, c).status = rec[e].status /\ Entry(e, c).flow = rec[e].flow
  <1>1. rec[e] \in RecType
    BY DEF TInv, TypesNoPool
  <1> QED
    BY <1>1 DEF Entry, CtxType, RecType

LEMMA PassedOK ==
  ASSUME up \in [Flows -> UpType], NEW out \in Seq(FrameType)
  PROVE  Passed(out) \in [Flows -> UpType]
  <1>1. CASE ghost.raced
    BY <1>1 DEF Passed
  <1>2. CASE ~ghost.raced
    <2> SUFFICES ASSUME NEW f \in Flows
                 PROVE  LET ns == [i \in DOMAIN out |->
                                     IF out[i].flow = f THEN {out[i].n} ELSE {}]
                        IN  up[f].seen \cup UNION Range(ns) \in SUBSET Frames
      BY <1>2 DEF Passed, UpType
    <2> DEFINE ns == [i \in DOMAIN out |-> IF out[i].flow = f THEN {out[i].n} ELSE {}]
    <2>1. \A i \in DOMAIN out : out[i] \in FrameType
      OBVIOUS
    <2>2. \A i \in DOMAIN out : ns[i] \subseteq Frames
      BY <2>1 DEF FrameType
    <2>3. UNION Range(ns) \subseteq Frames
      BY <2>2 DEF Range
    <2> QED
      BY <2>3 DEF UpType
  <1> QED
    BY <1>1, <1>2

LEMMA TInvInit == Init => TInv
  <1> SUFFICES ASSUME Init PROVE TInv
    OBVIOUS
  <1>1. rec \in [Entries -> RecType] /\ \A e \in Entries : rec[e].list = <<>>
    <2>1. Max({RxBAWinLimit, DefaultWin}) \in Nat
      BY MaxOfTwo, ConstantsAssumption DEF ConstantsAssumption
    <2>2. FreeEntry \in RecType /\ FreeEntry.list = <<>>
      <3>1. <<>> \in Seq(FrameType) /\ 0 \in 0 .. MAXSEQ /\ 0 \in Windows
        BY <2>1, SequenceNumbers DEF Windows
      <3> QED
        BY <3>1 DEF FreeEntry, RecType
    <2> QED
      BY <2>2 DEF Init
  <1>2. InUse = {}
    BY <1>1 DEF InUse
  <1>3. BlocksAccounted
    BY <1>2, FS_EmptySet, ConstantsAssumption
    DEF Init, ConstantsAssumption, BlocksAccounted
  <1>4. NoOrig \in OrigType
    <2>1. Max({RxBAWinLimit, DefaultWin}) \in Nat
      BY MaxOfTwo, ConstantsAssumption DEF ConstantsAssumption
    <2>2. 0 \in Windows /\ FirstFrame \in Numbers
      BY <2>1, ConstantsAssumption DEF ConstantsAssumption, Windows, Numbers
    <2> QED
      BY <2>2 DEF NoOrig, OrigType
  <1>5. OrigOK
    BY ConstantsAssumption DEF ConstantsAssumption, OrigOK, Init, NoOrig
  <1>6. idx \in [Flows -> 0 .. MAX_LEN_OF_BA_REC_TABLE - 1]
    BY ConstantsAssumption DEF ConstantsAssumption, Init
  <1>7. NothingUp \in UpType
    BY DEF NothingUp, UpType
  <1>8. ghost \in GhostType /\ pool \in Nat
    BY ConstantsAssumption DEF ConstantsAssumption, Init, GhostType
  <1> QED
    BY <1>1, <1>3, <1>4, <1>5, <1>6, <1>7, <1>8 DEF Init, TInv, TypesNoPool

LEMMA Small ==
  /\ NoOrig \in OrigType /\ NothingUp \in UpType
  /\ \A buf \in BufSizes : BAWinSize(buf) \in Windows /\ Opened(buf) \in OrigType
  /\ 0 \in Windows
  <1>1. /\ Max({RxBAWinLimit, DefaultWin}) \in Nat /\ RxBAWinLimit \in Nat
        /\ DefaultWin \in Nat
        /\ RxBAWinLimit <= Max({RxBAWinLimit, DefaultWin})
        /\ DefaultWin <= Max({RxBAWinLimit, DefaultWin})
    BY MaxOfTwo, ConstantsAssumption DEF ConstantsAssumption
  <1>2. 0 \in Windows /\ FirstFrame \in Numbers
    BY <1>1, ConstantsAssumption DEF ConstantsAssumption, Windows, Numbers
  <1>3. NoOrig \in OrigType
    BY <1>2 DEF NoOrig, OrigType
  <1>4. ASSUME NEW buf \in BufSizes PROVE BAWinSize(buf) \in Windows
    <2> DEFINE w == Min({buf, RxBAWinLimit})
    <2>1. buf \in Nat
      BY ConstantsAssumption DEF ConstantsAssumption
    <2>2. w \in Nat /\ w <= RxBAWinLimit
      BY <1>1, <2>1, MaxOfTwo
    <2>3. BAWinSize(buf) = IF w = 0 THEN DefaultWin ELSE w
      BY DEF BAWinSize
    <2> HIDE DEF w
    <2> QED
      BY <1>1, <2>2, <2>3 DEF Windows
  <1>5. \A buf \in BufSizes : Opened(buf) \in OrigType
    BY <1>3, <1>4 DEF Opened, OrigType
  <1>6. NothingUp \in UpType
    BY DEF NothingUp, UpType
  <1> QED
    BY <1>2, <1>3, <1>4, <1>5, <1>6

\* An originator slides its window to a frame that is not acknowledged.
LEMMA SlideOK ==
  ASSUME NEW o \in OrigType, o.base <= o.next, \A n \in o.acked : n < o.next
  PROVE  /\ Slide(o) \in OrigType /\ Slide(o).base <= Slide(o).next
         /\ Slide(o).next = o.next /\ Slide(o).acked = o.acked
  <1> DEFINE S == {k \in o.base .. o.next : k \notin o.acked}
             m == Min(S)
  <1>0. o.base \in Nat /\ o.next \in Nat /\ o.base \in Numbers /\ o.next \in Numbers
    BY ConstantsAssumption DEF ConstantsAssumption, OrigType, Numbers
  <1>1. S \in SUBSET (o.base .. o.next) /\ o.next \in S
    BY <1>0
  <1>2. Slide(o) = [o EXCEPT !.base = m]
    BY DEF Slide
  <1> HIDE DEF S
  <1>3. m \in o.base .. o.next
    BY <1>0, <1>1, MinIn
  <1> HIDE DEF m
  <1>4. m \in Numbers /\ m <= o.next
    BY <1>0, <1>3, ConstantsAssumption DEF ConstantsAssumption, Numbers
  <1> QED
    BY <1>2, <1>4 DEF OrigType

LEMMA SentOK ==
  ASSUME NEW o \in OrigType, o.base <= o.next, \A m \in o.acked : m < o.next,
         NEW n \in Frames, n <= o.next, NEW ack
  PROVE  /\ Sent(o, n, ack) \in OrigType
         /\ Sent(o, n, ack).base <= Sent(o, n, ack).next
         /\ Sent(o, n, ack).next = IF n = o.next THEN n + 1 ELSE o.next
         /\ \A m \in Sent(o, n, ack).acked : m < Sent(o, n, ack).next
  <1> DEFINE x == IF n = o.next THEN n + 1 ELSE o.next
             a == IF ack THEN o.acked \cup {n} ELSE o.acked
             d == [o EXCEPT !.next = x, !.acked = a]
  <1>0. /\ n \in Nat /\ n + 1 \in Numbers /\ o.next \in Nat /\ o.base \in Nat
        /\ o.next \in Numbers
    BY ConstantsAssumption DEF ConstantsAssumption, OrigType, Numbers, Frames
  <1>1. o.acked \in SUBSET Frames /\ Frames \subseteq Int
    BY ConstantsAssumption DEF ConstantsAssumption, OrigType, Frames
  <1>2. x \in Numbers /\ o.base <= x /\ n < x /\ o.next <= x
    BY <1>0
  <1>3. a \in SUBSET Frames /\ \A m \in a : m < x
    <2>1. a \in SUBSET Frames
      BY <1>1
    <2>2. SUFFICES ASSUME NEW m \in a PROVE m < x
      BY <2>1
    <2>3. m \in o.acked \/ m = n
      OBVIOUS
    <2>4. CASE m = n
      BY <1>2, <2>4
    <2>5. CASE m \in o.acked
      <3>1. m < o.next /\ m \in Int
        BY <1>1, <2>5
      <3>2. x \in Int
        BY <1>0
      <3> HIDE DEF x
      <3> QED
        BY <1>0, <1>2, <3>1, <3>2
    <2> QED
      BY <2>3, <2>4, <2>5
  <1>4. Sent(o, n, ack) = Slide(d)
    BY DEF Sent
  <1>5. x = IF n = o.next THEN n + 1 ELSE o.next
    OBVIOUS
  <1> HIDE DEF x, a
  <1>6. d \in OrigType /\ d.base = o.base /\ d.next = x /\ d.acked = a
    BY <1>2, <1>3 DEF OrigType
  <1> HIDE DEF d
  <1> QED
    BY <1>2, <1>3, <1>4, <1>5, <1>6, SlideOK

\* A handler that keeps its blocks keeps the types and the accounts.
LEMMA HandledOK ==
  ASSUME TInv, NEW f \in Flows, NEW e \in Entries, NEW c, NEW new \in BOOLEAN,
         Keeps(Ctx(f, e), c), Handled(f, e, c, new), new => ghost.sent < MaxFrames
  PROVE  /\ rec' \in [Entries -> RecType] /\ BlocksAccounted' /\ pool' \in Nat
         /\ up' \in [Flows -> UpType] /\ why' \in [Flows -> SUBSET Causes]
         /\ ghost' \in GhostType
         /\ ghost'.sent = IF new THEN ghost.sent + 1 ELSE ghost.sent
  <1>0. c \in CtxType /\ Held(c) = pool + ghost.leaked + Len(rec[e].list)
    BY CtxOK DEF Keeps
  <1>1. /\ rec' = [rec EXCEPT ![e] = Entry(e, c)] /\ pool' = c.pool
        /\ up' = Passed(c.out)
        /\ why' = IF ghost.raced THEN why ELSE [why EXCEPT ![f] = c.why]
    BY DEF Handled
  <1>2. ghost' \in GhostType /\ ghost'.leaked = c.leaked
        /\ ghost'.sent = IF new THEN ghost.sent + 1 ELSE ghost.sent
    <2> DEFINE sent == IF new THEN ghost.sent + 1 ELSE ghost.sent
               raced == ghost.raced \/ Refilled(e, c)
    <2>1. ghost \in GhostType /\ c.leaked \in Nat
      BY <1>0 DEF TInv, TypesNoPool, CtxType
    <2>2. sent \in 0 .. MaxFrames
      BY <2>1, ConstantsAssumption DEF ConstantsAssumption, GhostType
    <2>3. raced \in BOOLEAN
      BY <2>1 DEF GhostType, Refilled
    <2>4. ghost' = [ghost EXCEPT !.leaked = c.leaked, !.sent = sent, !.raced = raced]
      BY DEF Handled
    <2>5. sent = IF new THEN ghost.sent + 1 ELSE ghost.sent
      OBVIOUS
    <2> HIDE DEF sent, raced
    <2> QED
      BY <2>1, <2>2, <2>3, <2>4, <2>5 DEF GhostType
  <1>3. Entry(e, c) \in RecType /\ Entry(e, c).list = c.list
    BY <1>0, EntryOK
  <1>4. pool' \in Nat /\ ghost'.leaked \in Nat
    BY <1>0, <1>1, <1>2 DEF CtxType
  <1>5. pool' + ghost'.leaked + Len(Entry(e, c).list) = pool + ghost.leaked + Len(rec[e].list)
    BY <1>0, <1>1, <1>2, <1>3 DEF Held
  <1>6. rec' \in [Entries -> RecType] /\ BlocksAccounted'
    BY <1>1, <1>3, <1>4, <1>5, EntryStep
  <1>7. c.out \in Seq(FrameType) /\ up \in [Flows -> UpType] /\ c.why \in SUBSET Causes
        /\ why \in [Flows -> SUBSET Causes]
    BY <1>0 DEF CtxType, TInv, TypesNoPool
  <1>8. up' \in [Flows -> UpType]
    BY <1>1, <1>7, PassedOK
  <1>9. why' \in [Flows -> SUBSET Causes]
    BY <1>1, <1>7
  <1> QED
    BY <1>2, <1>4, <1>6, <1>8, <1>9

LEMMA Session ==
  ASSUME TInv, NEW f \in Flows, idx[f] # 0
  PROVE  idx[f] \in Entries
  BY ConstantsAssumption DEF ConstantsAssumption, TInv, TypesNoPool, Entries

\* One originator changes, and the others are as they were.
LEMMA OrigStep ==
  ASSUME TInv, NEW f \in Flows, NEW o \in OrigType, orig' = [orig EXCEPT ![f] = o],
         ghost'.sent \in Nat, ghost.sent <= ghost'.sent,
         o.base <= o.next, o.next <= FirstFrame + ghost'.sent,
         \A n \in o.acked : n < o.next
  PROVE  orig' \in [Flows -> OrigType] /\ OrigOK'
  <1>1. orig \in [Flows -> OrigType] /\ ghost.sent \in Nat /\ FirstFrame \in Nat
    BY ConstantsAssumption DEF ConstantsAssumption, TInv, TypesNoPool, GhostType
  <1>2. orig'[f] = o /\ \A g \in Flows \ {f} : orig'[g] = orig[g]
    BY <1>1
  <1>3. ASSUME NEW g \in Flows \ {f}
        PROVE  /\ orig[g].base <= orig[g].next /\ orig[g].next <= FirstFrame + ghost'.sent
               /\ \A n \in orig[g].acked : n < orig[g].next
    <2>1. /\ orig[g].base <= orig[g].next /\ orig[g].next <= FirstFrame + ghost.sent
          /\ \A n \in orig[g].acked : n < orig[g].next
      BY DEF TInv, OrigOK
    <2>2. orig[g].next \in Nat
      BY <1>1, ConstantsAssumption DEF ConstantsAssumption, OrigType, Numbers
    <2> QED
      BY <1>1, <2>1, <2>2
  <1>4. OrigOK'
    BY <1>2, <1>3 DEF OrigOK
  <1> QED
    BY <1>1, <1>4

\* A frame finds the session as it is; all that is added is a cause.
LEMMA ArrivingOK ==
  ASSUME TInv, NEW f \in Flows, idx[f] # 0, NEW n
  PROVE  /\ Arriving(f, n) \in CtxType /\ Ctx(f, idx[f]) \in CtxType
         /\ Held(Arriving(f, n)) = Held(Ctx(f, idx[f]))
         /\ Arriving(f, n).list = rec[idx[f]].list
         /\ Arriving(f, n).LastIndSeq = rec[idx[f]].LastIndSeq
         /\ Arriving(f, n).BAWinSize = rec[idx[f]].BAWinSize
         /\ Arriving(f, n).age = rec[idx[f]].age
         /\ Arriving(f, n).out = <<>>
         /\ Arriving(f, n).why = why[f] \cup Behind(f, n)
  <1> DEFINE c == Ctx(f, idx[f])
             w == why[f] \cup Behind(f, n)
  <1>1. c \in CtxType
    BY Session, CtxOK
  <1>2. w \in SUBSET Causes
    BY DEF TInv, TypesNoPool, Behind, Causes
  <1>3. /\ c.list = rec[idx[f]].list /\ c.LastIndSeq = rec[idx[f]].LastIndSeq
        /\ c.BAWinSize = rec[idx[f]].BAWinSize /\ c.age = rec[idx[f]].age /\ c.out = <<>>
    BY DEF Ctx
  <1>4. Arriving(f, n) = [c EXCEPT !.why = w]
    BY DEF Arriving
  <1> HIDE DEF c, w
  <1> QED
    BY <1>1, <1>2, <1>3, <1>4 DEF CtxType, Held, c, w

LEMMA TAmpdu ==
  ASSUME TInv, NEW f \in Flows, NEW n \in Frames, NEW ack \in BOOLEAN,
         Indicate_AMPDU_Packet(f, n, ack)
  PROVE  TInv'
  <1> DEFINE e == idx[f]
             fr == [flow |-> f, n |-> n]
             c == Indicate_AMPDU(Arriving(f, n), fr, orig[f].base)
             new == n = orig[f].next
             o == Sent(orig[f], n, ack)
  <1>0. e \in Entries /\ orig' = [orig EXCEPT ![f] = o] /\ Handled(f, e, c, new)
        /\ UNCHANGED <<idx, sta, num, td>>
    BY Session DEF Indicate_AMPDU_Packet
  <1>1. orig[f] \in OrigType /\ orig[f].base <= orig[f].next
        /\ (\A m \in orig[f].acked : m < orig[f].next)
        /\ orig[f].next <= FirstFrame + ghost.sent /\ orig[f].next \in Nat
        /\ orig[f].base \in Nat /\ ghost.sent \in Nat /\ FirstFrame \in Nat
    BY ConstantsAssumption
    DEF ConstantsAssumption, TInv, TypesNoPool, OrigOK, OrigType, Numbers, GhostType
  <1>2. n <= orig[f].next /\ (new => ghost.sent < MaxFrames) /\ n \in Nat
    <2>1. CASE n \in Outstanding(orig[f])
      BY <1>1, <2>1 DEF Outstanding
    <2>2. CASE n = orig[f].next /\ MaySendNew(orig[f])
      BY <1>1, <2>2 DEF MaySendNew
    <2> QED
      BY <2>1, <2>2 DEF Indicate_AMPDU_Packet
  <1>3. /\ fr \in FrameType /\ Arriving(f, n) \in CtxType
        /\ Held(Arriving(f, n)) = Held(Ctx(f, e))
        /\ Arriving(f, n).BAWinSize = Ctx(f, e).BAWinSize
    <2>1. idx[f] # 0 /\ Ctx(f, e).BAWinSize = rec[e].BAWinSize
      BY DEF Indicate_AMPDU_Packet, Ctx
    <2> QED
      BY <2>1, ArrivingOK DEF FrameType
  <1>4. Keeps(Ctx(f, e), c)
    <2>1. Keeps(Arriving(f, n), c)
      BY <1>3, IndicateAmpduKeeps
    <2> QED
      BY <1>3, <2>1 DEF Keeps
  <1>5. o \in OrigType /\ o.base <= o.next /\ (\A m \in o.acked : m < o.next)
        /\ o.next = IF new THEN n + 1 ELSE orig[f].next
    BY <1>1, <1>2, SentOK
  <1>6. new \in BOOLEAN
    OBVIOUS
  <1> HIDE DEF c, o, fr, e
  <1>7. /\ rec' \in [Entries -> RecType] /\ BlocksAccounted' /\ pool' \in Nat
        /\ up' \in [Flows -> UpType] /\ why' \in [Flows -> SUBSET Causes]
        /\ ghost' \in GhostType
        /\ ghost'.sent = IF new THEN ghost.sent + 1 ELSE ghost.sent
    BY <1>0, <1>2, <1>4, <1>6, HandledOK
  <1>8. ghost'.sent \in Nat /\ ghost.sent <= ghost'.sent /\ o.next <= FirstFrame + ghost'.sent
    BY <1>1, <1>2, <1>5, <1>7
  <1>9. orig' \in [Flows -> OrigType] /\ OrigOK'
    BY <1>0, <1>5, <1>8, OrigStep
  <1> QED
    BY <1>0, <1>7, <1>9 DEF TInv, TypesNoPool

LEMMA TBlockAckReq ==
  ASSUME TInv, NEW f \in Flows, CntlEnqueueForRecv(f)
  PROVE  TInv'
  <1> DEFINE e == idx[f]
             start == orig[f].base % M
             c == BlockAckReq(Ctx(f, e), start)
  <1>0. e \in Entries /\ Handled(f, e, c, FALSE) /\ UNCHANGED <<idx, sta, num, td, orig>>
    BY Session DEF CntlEnqueueForRecv
  <1>1. start \in 0 .. MAXSEQ
    <2>1. orig[f].base \in Int
      BY ConstantsAssumption
      DEF ConstantsAssumption, TInv, TypesNoPool, OrigType, Numbers
    <2> QED
      BY <2>1, SequenceNumbers
  <1> HIDE DEF start
  <1>2. Keeps(Ctx(f, e), c)
    BY <1>0, <1>1, CtxOK, BlockAckReqKeeps
  <1> HIDE DEF c, e
  <1>3. /\ rec' \in [Entries -> RecType] /\ BlocksAccounted' /\ pool' \in Nat
        /\ up' \in [Flows -> UpType] /\ why' \in [Flows -> SUBSET Causes]
        /\ ghost' \in GhostType /\ ghost'.sent = ghost.sent
    BY <1>0, <1>2, HandledOK
  <1>4. OrigOK'
    BY <1>0, <1>3 DEF TInv, OrigOK
  <1> QED
    BY <1>0, <1>3, <1>4 DEF TInv, TypesNoPool

\* An originator that starts anew, and one that nothing happens to.
LEMMA OrigReset ==
  ASSUME TInv, NEW f \in Flows, NEW o \in OrigType, orig' = [orig EXCEPT ![f] = o],
         o.base = FirstFrame, o.next = FirstFrame, o.acked = {},
         ghost'.sent = ghost.sent
  PROVE  orig' \in [Flows -> OrigType] /\ OrigOK'
  <1>1. ghost.sent \in Nat /\ FirstFrame \in Nat
    BY ConstantsAssumption DEF ConstantsAssumption, TInv, TypesNoPool, GhostType
  <1>2. ghost'.sent \in Nat /\ ghost.sent <= ghost'.sent /\ o.base <= o.next
        /\ o.next <= FirstFrame + ghost'.sent
    BY <1>1
  <1> QED
    BY <1>2, OrigStep

LEMMA OrigSame ==
  ASSUME TInv, UNCHANGED orig, ghost'.sent = ghost.sent
  PROVE  orig' \in [Flows -> OrigType] /\ OrigOK'
  BY DEF TInv, TypesNoPool, OrigOK

\* No list, no free block: the accounts are as they were.
LEMMA BlocksSame ==
  ASSUME TInv, UNCHANGED <<rec, pool>>, ghost'.leaked = ghost.leaked
  PROVE  rec' \in [Entries -> RecType] /\ pool' \in Nat /\ BlocksAccounted'
  BY DEF TInv, TypesNoPool, BlocksAccounted, InUse

\* The list of an entry stays, whatever else of it changes.
LEMMA ListStays ==
  ASSUME TInv, NEW e \in Entries, NEW x \in RecType, rec' = [rec EXCEPT ![e] = x],
         x.list = rec[e].list, UNCHANGED pool, ghost'.leaked = ghost.leaked
  PROVE  rec' \in [Entries -> RecType] /\ pool' \in Nat /\ BlocksAccounted'
  <1>1. pool' \in Nat /\ ghost'.leaked \in Nat
    BY DEF TInv, TypesNoPool, GhostType
  <1>2. pool' + ghost'.leaked + Len(x.list) = pool + ghost.leaked + Len(rec[e].list)
    OBVIOUS
  <1> QED
    BY <1>1, <1>2, EntryStep

\* The list of an entry is flushed, whatever else of it changes.
LEMMA ListFlushed ==
  ASSUME TInv, NEW f \in Flows, NEW e \in Entries, NEW x \in RecType,
         rec' = [rec EXCEPT ![e] = x], x.list = Refresh(Ctx(f, e)).list,
         pool' = Refresh(Ctx(f, e)).pool, ghost'.leaked = ghost.leaked
  PROVE  rec' \in [Entries -> RecType] /\ pool' \in Nat /\ BlocksAccounted'
  <1> DEFINE c == Refresh(Ctx(f, e))
  <1>1. Ctx(f, e) \in CtxType /\ Ctx(f, e).leaked = ghost.leaked
        /\ Held(Ctx(f, e)) = pool + ghost.leaked + Len(rec[e].list)
    BY CtxOK
  <1>2. Keeps(Ctx(f, e), c) /\ c.leaked = Ctx(f, e).leaked
    BY <1>1, RefreshKeeps
  <1>3. c \in CtxType /\ Held(c) = Held(Ctx(f, e))
    BY <1>2 DEF Keeps
  <1>4. x.list = c.list /\ pool' = c.pool
    OBVIOUS
  <1> HIDE DEF c
  <1>5. pool' \in Nat /\ ghost'.leaked \in Nat
    BY <1>1, <1>2, <1>3, <1>4 DEF CtxType
  <1>6. pool' + ghost'.leaked + Len(x.list) = pool + ghost.leaked + Len(rec[e].list)
    BY <1>1, <1>2, <1>3, <1>4 DEF Held
  <1> QED
    BY <1>5, <1>6, EntryStep

LEMMA TTick ==
  ASSUME TInv, NEW e \in Entries, Tick(e)
  PROVE  TInv'
  <1> DEFINE x == [rec[e] EXCEPT !.age = rec[e].age + 1]
  <1>1. x \in RecType /\ x.list = rec[e].list
    <2>1. rec[e] \in RecType /\ rec[e].age < 2
      BY DEF Tick, TInv, TypesNoPool
    <2>2. rec[e].age + 1 \in 0 .. 2
      BY <2>1 DEF RecType
    <2> QED
      BY <2>1, <2>2 DEF RecType
  <1>2. rec' = [rec EXCEPT ![e] = x]
    BY DEF Tick
  <1>3. UNCHANGED <<idx, sta, num, pool, td, orig, up, why, ghost>>
    BY DEF Tick
  <1> HIDE DEF x
  <1>4. rec' \in [Entries -> RecType] /\ pool' \in Nat /\ BlocksAccounted'
    BY <1>1, <1>2, <1>3, ListStays
  <1>5. OrigOK'
    BY <1>3, OrigSame
  <1> QED
    BY <1>3, <1>4, <1>5 DEF TInv, TypesNoPool

LEMMA TLoseFrame ==
  ASSUME TInv, NEW f \in Flows, LoseFrame(f)
  PROVE  TInv'
  <1> DEFINE b == orig[f].base
             n == orig[f].next
             o == [orig[f] EXCEPT !.next = n + 1]
  <1>0. /\ orig[f] \in OrigType /\ b \in Nat /\ n \in Nat /\ b <= n
        /\ n <= FirstFrame + ghost.sent
        /\ (\A m \in orig[f].acked : m < n /\ m \in Nat)
        /\ ghost.sent \in Nat /\ FirstFrame \in Nat /\ FirstFrame <= n
    <2>1. orig[f] \in OrigType /\ ghost.sent \in Nat /\ FirstFrame \in Nat
      BY ConstantsAssumption DEF ConstantsAssumption, TInv, TypesNoPool, GhostType
    <2>2. \A m \in orig[f].acked : m \in Nat
      BY <2>1, ConstantsAssumption DEF ConstantsAssumption, OrigType, Frames
    <2> QED
      BY <2>1, <2>2, ConstantsAssumption
      DEF ConstantsAssumption, TInv, OrigOK, OrigType, Numbers
  <1>1. /\ UNCHANGED <<rec, idx, sta, num, pool, td, up>> /\ ghost.sent < MaxFrames
        /\ why' \in [Flows -> SUBSET Causes]
    BY DEF LoseFrame, MaySendNew, TInv, TypesNoPool, Behind, Causes
  <1>2. orig' = [orig EXCEPT ![f] = o]
    BY DEF LoseFrame
  <1>3. /\ ghost' \in GhostType /\ ghost'.leaked = ghost.leaked
        /\ ghost'.sent = ghost.sent + 1
    <2>1. ghost.sent + 1 \in 0 .. MaxFrames
      BY <1>0, <1>1, ConstantsAssumption DEF ConstantsAssumption
    <2> QED
      BY <2>1 DEF LoseFrame, TInv, TypesNoPool, GhostType
  <1>4. n + 1 \in Numbers
    BY <1>0, <1>1, ConstantsAssumption DEF ConstantsAssumption, Numbers
  <1>5. o \in OrigType /\ o.base = b /\ o.next = n + 1 /\ o.acked = orig[f].acked
    BY <1>0, <1>4 DEF OrigType
  <1> HIDE DEF o, b, n
  <1>6. o.base <= o.next /\ o.next <= FirstFrame + ghost'.sent
        /\ ghost'.sent \in Nat /\ ghost.sent <= ghost'.sent
    BY <1>0, <1>3, <1>5
  <1>7. \A m \in o.acked : m < o.next
    BY <1>0, <1>5
  <1>8. orig' \in [Flows -> OrigType] /\ OrigOK'
    BY <1>2, <1>5, <1>6, <1>7, OrigStep
  <1>9. rec' \in [Entries -> RecType] /\ pool' \in Nat /\ BlocksAccounted'
    BY <1>1, <1>3, BlocksSame
  <1> QED
    BY <1>1, <1>3, <1>8, <1>9 DEF TInv, TypesNoPool

LEMMA TGiveUp ==
  ASSUME TInv, NEW f \in Flows, GiveUp(f)
  PROVE  TInv'
  <1> DEFINE b == orig[f].base
             n == orig[f].next
             d == [orig[f] EXCEPT !.base = b + 1]
             o == Slide(d)
  <1>0. /\ orig[f] \in OrigType /\ b \in Numbers /\ n \in Numbers
        /\ b \in Nat /\ n \in Nat /\ b < n
        /\ n <= FirstFrame + ghost.sent /\ ghost.sent \in Nat
        /\ \A m \in orig[f].acked : m < n
    BY ConstantsAssumption
    DEF ConstantsAssumption, TInv, TypesNoPool, OrigOK, OrigType, Numbers, GhostType, GiveUp
  <1>1. UNCHANGED <<rec, idx, sta, num, pool, td, up, why, ghost>>
        /\ orig' = [orig EXCEPT ![f] = o]
    BY DEF GiveUp
  <1>2. b + 1 \in Numbers /\ b + 1 <= n
    BY <1>0, ConstantsAssumption DEF ConstantsAssumption, Numbers
  <1>3. d \in OrigType /\ d.base = b + 1 /\ d.next = n /\ d.acked = orig[f].acked
    BY <1>0, <1>2 DEF OrigType
  <1> HIDE DEF d
  <1>4. o \in OrigType /\ o.base <= o.next /\ o.next = n /\ o.acked = orig[f].acked
    BY <1>0, <1>2, <1>3, SlideOK
  <1> HIDE DEF o
  <1>5. ghost'.sent \in Nat /\ ghost.sent <= ghost'.sent /\ o.next <= FirstFrame + ghost'.sent
        /\ \A m \in o.acked : m < o.next
    BY <1>0, <1>1, <1>4
  <1>6. orig' \in [Flows -> OrigType] /\ OrigOK'
    BY <1>1, <1>4, <1>5, OrigStep
  <1>7. rec' \in [Entries -> RecType] /\ pool' \in Nat /\ BlocksAccounted'
    BY <1>1, BlocksSame
  <1> QED
    BY <1>1, <1>6, <1>7 DEF TInv, TypesNoPool

LEMMA TTornDown ==
  ASSUME TInv, NEW f \in Flows, Indicate_TornDown(f)
  PROVE  TInv'
  <1>1. orig' = [orig EXCEPT ![f] = NoOrig] /\ UNCHANGED <<rec, idx, sta, num, pool, td, ghost>>
    BY DEF Indicate_TornDown
  <1>2. NoOrig.base = FirstFrame /\ NoOrig.next = FirstFrame /\ NoOrig.acked = {}
    BY DEF NoOrig
  <1>3. orig' \in [Flows -> OrigType] /\ OrigOK'
    BY <1>1, <1>2, Small, OrigReset
  <1>4. rec' \in [Entries -> RecType] /\ pool' \in Nat /\ BlocksAccounted'
    BY <1>1, BlocksSame
  <1>5. up' \in [Flows -> UpType] /\ why' \in [Flows -> SUBSET Causes]
    BY Small DEF Indicate_TornDown, TInv, TypesNoPool
  <1> QED
    BY <1>1, <1>3, <1>4, <1>5 DEF TInv, TypesNoPool

LEMMA TInsert ==
  ASSUME TInv, NEW f \in Flows, MacTableInsertEntry(f)
  PROVE  TInv'
  <1>1. UNCHANGED <<rec, num, pool, td, orig, up, why>>
    BY DEF MacTableInsertEntry
  <1>2. {idx[f]} \ {0} \subseteq Entries
    BY Session
  <1>3. ghost' \in GhostType /\ ghost'.leaked = ghost.leaked /\ ghost'.sent = ghost.sent
    <2> DEFINE S == ghost.orphans \cup ({idx[f]} \ {0})
    <2>1. ghost \in GhostType /\ S \in SUBSET Entries
      BY <1>2 DEF TInv, TypesNoPool, GhostType
    <2>2. ghost' = [ghost EXCEPT !.orphans = S]
      BY DEF MacTableInsertEntry
    <2> HIDE DEF S
    <2> QED
      BY <2>1, <2>2 DEF GhostType
  <1>4. idx' \in [Flows -> 0 .. MAX_LEN_OF_BA_REC_TABLE - 1] /\ sta' \in [Flows -> BOOLEAN]
    BY ConstantsAssumption
    DEF ConstantsAssumption, MacTableInsertEntry, TInv, TypesNoPool
  <1>5. rec' \in [Entries -> RecType] /\ pool' \in Nat /\ BlocksAccounted'
    BY <1>1, <1>3, BlocksSame
  <1>6. orig' \in [Flows -> OrigType] /\ OrigOK'
    BY <1>1, <1>3, OrigSame
  <1> QED
    BY <1>1, <1>3, <1>4, <1>5, <1>6 DEF TInv, TypesNoPool

LEMMA AllocOK == AllocRecEntry \in Entries
  <1>1. MAX_LEN_OF_BA_REC_TABLE - 1 \in Entries
    BY ConstantsAssumption DEF ConstantsAssumption, Entries
  <1>2. CASE NoneEntries = {}
    BY <1>1, <1>2 DEF AllocRecEntry
  <1>3. CASE NoneEntries # {}
    <2>1. NoneEntries \in SUBSET (1 .. MAX_LEN_OF_BA_REC_TABLE - 1)
      BY DEF NoneEntries, Entries
    <2>2. 1 \in Nat /\ MAX_LEN_OF_BA_REC_TABLE - 1 \in Nat
      BY ConstantsAssumption DEF ConstantsAssumption
    <2>3. Min(NoneEntries) \in NoneEntries
      BY <1>3, <2>1, <2>2, MinIn
    <2> QED
      BY <1>3, <2>3 DEF AllocRecEntry, NoneEntries
  <1> QED
    BY <1>2, <1>3

\* What BARecSessionTearDown leaves of the types and the accounts.
LEMMA TearDownOK ==
  ASSUME TInv, NEW f \in Flows, BARecSessionTearDown(f), ghost'.leaked = ghost.leaked
  PROVE  /\ rec' \in [Entries -> RecType] /\ pool' \in Nat /\ BlocksAccounted'
         /\ idx' \in [Flows -> 0 .. MAX_LEN_OF_BA_REC_TABLE - 1] /\ num' \in Int
         /\ up' \in [Flows -> UpType] /\ why' \in [Flows -> SUBSET Causes]
  <1> DEFINE e == idx[f]
             c == Refresh(Ctx(f, e))
             x == [Entry(e, c) EXCEPT !.BAWinSize = 0, !.status = "NONE"]
  <1>0. /\ idx \in [Flows -> 0 .. MAX_LEN_OF_BA_REC_TABLE - 1] /\ num \in Int
        /\ up \in [Flows -> UpType] /\ why \in [Flows -> SUBSET Causes]
    BY DEF TInv, TypesNoPool
  <1>1. CASE e # 0 /\ rec[e].status = "Accept"
    <2>1. e \in Entries
      BY <1>1, Session
    <2>2. /\ rec' = [rec EXCEPT ![e] = x]
          /\ idx' = [g \in Flows |-> IF g \in {f, rec[e].flow} THEN 0 ELSE idx[g]]
          /\ num' = num - 1 /\ pool' = c.pool
          /\ up' = [Passed(c.out) EXCEPT ![f] = NothingUp]
          /\ why' = [why EXCEPT ![f] = {}]
      BY <1>1 DEF BARecSessionTearDown
    <2>3. c \in CtxType
      BY <2>1, CtxOK, RefreshKeeps
    <2>4. Entry(e, c) \in RecType /\ Entry(e, c).list = c.list
      BY <2>1, <2>3, EntryOK
    <2>5. x \in RecType /\ x.list = c.list
      <3> DEFINE r == Entry(e, c)
      <3>1. r \in RecType /\ r.list = c.list /\ 0 \in Windows
        BY <2>4, Small
      <3> HIDE DEF r
      <3> QED
        BY <3>1 DEF RecType, r
    <2>6. c.out \in Seq(FrameType)
      BY <2>3 DEF CtxType
    <2>7. Passed(c.out) \in [Flows -> UpType]
      BY <1>0, <2>6, PassedOK
    <2>8. up' \in [Flows -> UpType] /\ why' \in [Flows -> SUBSET Causes]
      BY <1>0, <2>2, <2>7, Small
    <2>9. idx' \in [Flows -> 0 .. MAX_LEN_OF_BA_REC_TABLE - 1] /\ num' \in Int
      BY <1>0, <2>2, ConstantsAssumption DEF ConstantsAssumption
    <2> HIDE DEF x
    <2>10. rec' \in [Entries -> RecType] /\ pool' \in Nat /\ BlocksAccounted'
      BY <2>1, <2>2, <2>5, ListFlushed
    <2> QED
      BY <2>8, <2>9, <2>10
  <1>2. CASE ~(e # 0 /\ rec[e].status = "Accept")
    <2>1. /\ up' = [up EXCEPT ![f] = NothingUp] /\ why' = [why EXCEPT ![f] = {}]
          /\ UNCHANGED <<rec, idx, num, pool>>
      BY <1>2 DEF BARecSessionTearDown
    <2>2. up' \in [Flows -> UpType] /\ why' \in [Flows -> SUBSET Causes]
      BY <1>0, <2>1, Small
    <2>3. rec' \in [Entries -> RecType] /\ pool' \in Nat /\ BlocksAccounted'
      BY <2>1, BlocksSame
    <2> QED
      BY <1>0, <2>1, <2>2, <2>3
  <1> QED
    BY <1>1, <1>2

LEMMA TearDownAllOK ==
  ASSUME TInv, NEW f \in Flows, NEW fails \in BOOLEAN, BASessionTearDownALL(f, fails)
  PROVE  /\ rec' \in [Entries -> RecType] /\ pool' \in Nat /\ BlocksAccounted'
         /\ idx' \in [Flows -> 0 .. MAX_LEN_OF_BA_REC_TABLE - 1] /\ num' \in Int
         /\ up' \in [Flows -> UpType] /\ why' \in [Flows -> SUBSET Causes]
         /\ ghost' \in GhostType /\ ghost'.sent = ghost.sent
  <1>0. ghost \in GhostType
    BY DEF TInv, TypesNoPool
  <1>1. CASE fails
    <2>1. /\ ghost.upsets < MaxUpsets /\ ghost' = [ghost EXCEPT !.upsets = ghost.upsets + 1]
          /\ UNCHANGED <<rec, idx, num, pool, up, why>>
      BY <1>1 DEF BASessionTearDownALL
    <2>2. ghost.upsets + 1 \in 0 .. MaxUpsets
      BY <1>0, <2>1, ConstantsAssumption DEF ConstantsAssumption, GhostType
    <2>3. ghost' \in GhostType /\ ghost'.sent = ghost.sent /\ ghost'.leaked = ghost.leaked
      BY <1>0, <2>1, <2>2 DEF GhostType
    <2>4. rec' \in [Entries -> RecType] /\ pool' \in Nat /\ BlocksAccounted'
      BY <2>1, <2>3, BlocksSame
    <2> QED
      BY <2>1, <2>3, <2>4 DEF TInv, TypesNoPool
  <1>2. CASE ~fails
    <2>1. BARecSessionTearDown(f) /\ UNCHANGED ghost
      BY <1>2 DEF BASessionTearDownALL
    <2> QED
      BY <1>0, <2>1, TearDownOK
  <1> QED
    BY <1>1, <1>2

LEMMA TSessionEnds ==
  ASSUME TInv, NEW f \in Flows,
         \/ PeerDelBAAction(f)
         \/ \E fails \in BOOLEAN : PeerAuth(f, fails)
         \/ \E fails \in BOOLEAN : MacTableDeleteEntry(f, fails)
  PROVE  TInv'
  <1>1. /\ rec' \in [Entries -> RecType] /\ pool' \in Nat /\ BlocksAccounted'
        /\ idx' \in [Flows -> 0 .. MAX_LEN_OF_BA_REC_TABLE - 1] /\ num' \in Int
        /\ up' \in [Flows -> UpType] /\ why' \in [Flows -> SUBSET Causes]
        /\ ghost' \in GhostType /\ ghost'.sent = ghost.sent
    <2>1. CASE PeerDelBAAction(f)
      <3>1. BARecSessionTearDown(f) /\ UNCHANGED ghost
        BY <2>1 DEF PeerDelBAAction
      <3> QED
        BY <3>1, TearDownOK DEF TInv, TypesNoPool
    <2>2. ASSUME NEW fails \in BOOLEAN, PeerAuth(f, fails) \/ MacTableDeleteEntry(f, fails)
          PROVE  BASessionTearDownALL(f, fails)
      BY <2>2 DEF PeerAuth, MacTableDeleteEntry
    <2> QED
      BY <2>1, <2>2, TearDownAllOK
  <1>2. orig' = [orig EXCEPT ![f] = NoOrig] /\ UNCHANGED td /\ sta' \in [Flows -> BOOLEAN]
    BY DEF PeerDelBAAction, PeerAuth, MacTableDeleteEntry, TInv, TypesNoPool
  <1>3. NoOrig.base = FirstFrame /\ NoOrig.next = FirstFrame /\ NoOrig.acked = {}
    BY DEF NoOrig
  <1>4. orig' \in [Flows -> OrigType] /\ OrigOK'
    BY <1>1, <1>2, <1>3, Small, OrigReset
  <1> QED
    BY <1>1, <1>2, <1>4 DEF TInv, TypesNoPool

LEMMA TAdd ==
  ASSUME TInv, NEW f \in Flows, NEW buf \in BufSizes, NEW heard \in BOOLEAN,
         PeerAddBAReqAction(f, buf, heard)
  PROVE  TInv'
  <1> DEFINE new == idx[f] = 0
             e == IF new THEN AllocRecEntry ELSE idx[f]
             c == IF new THEN Ctx(f, e) ELSE Refresh(Ctx(f, e))
             x == Accepted(f, e, c, buf)
  <1>1. CASE new /\ num >= MAX_LEN_OF_BA_REC_TABLE - 1
    <2>1. UNCHANGED <<rec, idx, num, pool, orig, up, why, ghost, sta, td>>
      BY <1>1 DEF PeerAddBAReqAction
    <2>2. rec' \in [Entries -> RecType] /\ pool' \in Nat /\ BlocksAccounted'
      BY <2>1, BlocksSame
    <2>3. orig' \in [Flows -> OrigType] /\ OrigOK'
      BY <2>1, OrigSame
    <2> QED
      BY <2>1, <2>2, <2>3 DEF TInv, TypesNoPool
  <1>2. CASE ~(new /\ num >= MAX_LEN_OF_BA_REC_TABLE - 1)
    <2>1. /\ rec' = [rec EXCEPT ![e] = x]
          /\ idx' = [idx EXCEPT ![f] = IF new /\ NoneEntries = {} THEN 0 ELSE e]
          /\ num' = IF new /\ NoneEntries # {} THEN num + 1 ELSE num
          /\ pool' = c.pool
          /\ up' = [Passed(c.out) EXCEPT ![f] = NothingUp]
          /\ why' = [why EXCEPT ![f] = {}]
          /\ orig' = [orig EXCEPT ![f] = IF heard THEN Opened(buf) ELSE NoOrig]
          /\ ghost' = [ghost EXCEPT
                 !.adds = ghost.adds + 1,
                 !.raced = \/ ghost.raced
                           \/ new /\ td.pc # "idle" /\ (td.flow = f \/ td.e = e)]
          /\ UNCHANGED <<sta, td>> /\ ghost.adds < MaxAdds
      BY <1>2 DEF PeerAddBAReqAction
    <2>2. e \in Entries
      BY AllocOK, Session
    <2>3. c \in CtxType
      BY <2>2, CtxOK, RefreshKeeps
    <2>4. Entry(e, c) \in RecType /\ Entry(e, c).list = c.list
      BY <2>2, <2>3, EntryOK
    <2>5. x \in RecType /\ x.list = c.list
      <3> DEFINE r == Entry(e, c)
      <3>1. r \in RecType /\ r.list = c.list /\ BAWinSize(buf) \in Windows
        BY <2>4, Small
      <3>2. x = [r EXCEPT !.status = "Accept", !.flow = f, !.LastIndSeq = RESET,
                          !.BAWinSize = BAWinSize(buf)]
        BY DEF Accepted
      <3> HIDE DEF r, x
      <3> QED
        BY <3>1, <3>2 DEF RecType
    <2>6. ghost' \in GhostType /\ ghost'.sent = ghost.sent /\ ghost'.leaked = ghost.leaked
      <3> DEFINE r == \/ ghost.raced
                      \/ new /\ td.pc # "idle" /\ (td.flow = f \/ td.e = e)
      <3>1. ghost \in GhostType /\ r \in BOOLEAN
        BY DEF TInv, TypesNoPool, GhostType
      <3>2. ghost.adds + 1 \in 0 .. MaxAdds
        BY <2>1, <3>1, ConstantsAssumption DEF ConstantsAssumption, GhostType
      <3>3. ghost' = [ghost EXCEPT !.adds = ghost.adds + 1, !.raced = r]
        BY <2>1
      <3> HIDE DEF r
      <3> QED
        BY <3>1, <3>2, <3>3 DEF GhostType
    <2>7. up' \in [Flows -> UpType] /\ why' \in [Flows -> SUBSET Causes]
      <3>1. c.out \in Seq(FrameType) /\ up \in [Flows -> UpType]
            /\ why \in [Flows -> SUBSET Causes]
        BY <2>3 DEF CtxType, TInv, TypesNoPool
      <3>2. Passed(c.out) \in [Flows -> UpType]
        BY <3>1, PassedOK
      <3> QED
        BY <2>1, <3>1, <3>2, Small
    <2>8. idx' \in [Flows -> 0 .. MAX_LEN_OF_BA_REC_TABLE - 1] /\ num' \in Int
      <3>1. e \in 0 .. MAX_LEN_OF_BA_REC_TABLE - 1 /\ 0 \in 0 .. MAX_LEN_OF_BA_REC_TABLE - 1
        BY <2>2, ConstantsAssumption DEF ConstantsAssumption, Entries
      <3>2. idx \in [Flows -> 0 .. MAX_LEN_OF_BA_REC_TABLE - 1] /\ num \in Int
        BY DEF TInv, TypesNoPool
      <3> HIDE DEF e
      <3> QED
        BY <2>1, <3>1, <3>2
    <2>9. orig' \in [Flows -> OrigType] /\ OrigOK'
      <3> DEFINE o == IF heard THEN Opened(buf) ELSE NoOrig
      <3>1. o \in OrigType
        BY Small
      <3>2. o.base = FirstFrame /\ o.next = FirstFrame /\ o.acked = {}
        BY DEF Opened, NoOrig
      <3>3. orig' = [orig EXCEPT ![f] = o]
        BY <2>1
      <3> HIDE DEF o
      <3> QED
        BY <2>6, <3>1, <3>2, <3>3, OrigReset
    <2>10. rec' \in [Entries -> RecType] /\ pool' \in Nat /\ BlocksAccounted'
      <3>1. CASE new
        <4>1. x.list = rec[e].list /\ UNCHANGED pool
          BY <2>1, <2>2, <2>5, <3>1, CtxOK
        <4> HIDE DEF x, e
        <4> QED
          BY <2>1, <2>2, <2>5, <2>6, <4>1, ListStays
      <3>2. CASE ~new
        <4>1. x.list = Refresh(Ctx(f, e)).list /\ pool' = Refresh(Ctx(f, e)).pool
          BY <2>1, <2>5, <3>2
        <4> HIDE DEF x, e
        <4> QED
          BY <2>1, <2>2, <2>5, <2>6, <4>1, ListFlushed
      <3> QED
        BY <3>1, <3>2
    <2> QED
      BY <2>1, <2>6, <2>7, <2>8, <2>9, <2>10 DEF TInv, TypesNoPool
  <1> QED
    BY <1>1, <1>2

\* While a command is under way it names a flow and an entry.
LEMMA Commanded ==
  ASSUME TInv, td.pc # "idle"
  PROVE  td \in TdType /\ td.flow \in Flows /\ td.e \in Entries
  BY DEF TInv, TypesNoPool, TdType, Idle

LEMMA TTdEnter ==
  ASSUME TInv, NEW f \in Flows, NEW heard \in BOOLEAN, TdEnter(f, heard)
  PROVE  TInv'
  <1>1. UNCHANGED <<rec, idx, sta, num, pool, up, why>> /\ ghost.upsets < MaxUpsets
        /\ ghost' = [ghost EXCEPT !.upsets = ghost.upsets + 1] /\ idx[f] \in Entries
        /\ td' = [pc |-> "refresh", flow |-> f, e |-> idx[f]]
        /\ orig' = IF heard THEN [orig EXCEPT ![f] = NoOrig] ELSE orig
    BY Session DEF TdEnter
  <1>2. ghost' \in GhostType /\ ghost'.sent = ghost.sent /\ ghost'.leaked = ghost.leaked
    <2>1. ghost \in GhostType
      BY DEF TInv, TypesNoPool
    <2>2. ghost.upsets + 1 \in 0 .. MaxUpsets
      BY <1>1, <2>1, ConstantsAssumption DEF ConstantsAssumption, GhostType
    <2> QED
      BY <1>1, <2>1, <2>2 DEF GhostType
  <1>3. td' \in TdType
    BY <1>1 DEF TdType
  <1>4. orig' \in [Flows -> OrigType] /\ OrigOK'
    <2>1. NoOrig.base = FirstFrame /\ NoOrig.next = FirstFrame /\ NoOrig.acked = {}
      BY DEF NoOrig
    <2>2. CASE heard
      BY <1>1, <1>2, <2>1, <2>2, Small, OrigReset
    <2>3. CASE ~heard
      BY <1>1, <1>2, <2>3, OrigSame
    <2> QED
      BY <2>2, <2>3
  <1>5. rec' \in [Entries -> RecType] /\ pool' \in Nat /\ BlocksAccounted'
    BY <1>1, <1>2, BlocksSame
  <1> QED
    BY <1>1, <1>2, <1>3, <1>4, <1>5 DEF TInv, TypesNoPool

LEMMA TTdRefresh ==
  ASSUME TInv, TdRefresh
  PROVE  TInv'
  <1> DEFINE f == td.flow
             e == td.e
             c == Refresh(Ctx(f, e))
             x == Entry(e, c)
  <1>1. td \in TdType /\ f \in Flows /\ e \in Entries
    BY Commanded DEF TdRefresh
  <1>2. /\ rec' = [rec EXCEPT ![e] = x] /\ pool' = c.pool /\ up' = Passed(c.out)
        /\ why' = [why EXCEPT ![f] = c.why \cup {"refresh"}]
        /\ td' = [td EXCEPT !.pc = "section"]
        /\ UNCHANGED <<idx, sta, num, orig, ghost>>
    BY DEF TdRefresh
  <1>3. td' \in TdType
    BY <1>1, <1>2 DEF TdType
  <1>4. c \in CtxType
    BY <1>1, CtxOK, RefreshKeeps
  <1>5. x \in RecType /\ x.list = c.list
    BY <1>1, <1>4, EntryOK
  <1>6. c.out \in Seq(FrameType) /\ c.why \cup {"refresh"} \in SUBSET Causes
    BY <1>4 DEF CtxType, Causes
  <1>7. up' \in [Flows -> UpType] /\ why' \in [Flows -> SUBSET Causes]
    <2>1. up \in [Flows -> UpType] /\ why \in [Flows -> SUBSET Causes]
      BY DEF TInv, TypesNoPool
    <2> QED
      BY <1>2, <1>6, <2>1, PassedOK
  <1>8. rec' \in [Entries -> RecType] /\ pool' \in Nat /\ BlocksAccounted'
    <2> HIDE DEF x, e, f
    <2> QED
      BY <1>1, <1>2, <1>5, ListFlushed
  <1>9. orig' \in [Flows -> OrigType] /\ OrigOK'
    BY <1>2, OrigSame
  <1> QED
    BY <1>2, <1>3, <1>7, <1>8, <1>9 DEF TInv, TypesNoPool

LEMMA TTdSection ==
  ASSUME TInv, TdSection
  PROVE  TInv'
  <1> DEFINE f == td.flow
             e == td.e
             x == [rec[e] EXCEPT !.LastIndSeq = RESET, !.BAWinSize = 0]
             o == [NoOrig EXCEPT !.open = orig[f].open]
  <1>1. td \in TdType /\ f \in Flows /\ e \in Entries
    BY Commanded DEF TdSection
  <1>2. /\ idx' = [idx EXCEPT ![f] = 0] /\ td' = [td EXCEPT !.pc = "free"]
        /\ orig' = [orig EXCEPT ![f] = o] /\ up' = [up EXCEPT ![f] = NothingUp]
        /\ why' = [why EXCEPT ![f] = {}] /\ UNCHANGED <<sta, num, pool, ghost>>
    BY DEF TdSection
  <1>3. rec \in [Entries -> RecType]
    BY DEF TInv, TypesNoPool
  <1>4. rec' = [rec EXCEPT ![e] = x]
    <2>1. rec' = [rec EXCEPT ![e].LastIndSeq = RESET, ![e].BAWinSize = 0]
      BY DEF TdSection
    <2> QED
      BY <1>1, <1>3, <2>1
  <1>5. x \in RecType /\ x.list = rec[e].list
    <2>1. rec[e] \in RecType /\ 0 \in Windows
      BY <1>1, <1>3, Small
    <2> QED
      BY <2>1 DEF RecType
  <1>6. td' \in TdType
    BY <1>1, <1>2 DEF TdType
  <1>7. o \in OrigType /\ o.base = FirstFrame /\ o.next = FirstFrame /\ o.acked = {}
    <2>1. NoOrig \in OrigType /\ orig[f].open \in BOOLEAN
      BY <1>1, Small DEF TInv, TypesNoPool, OrigType
    <2>2. NoOrig.base = FirstFrame /\ NoOrig.next = FirstFrame /\ NoOrig.acked = {}
      BY DEF NoOrig
    <2> QED
      BY <2>1, <2>2 DEF OrigType
  <1> HIDE DEF x, e, f, o
  <1>8. rec' \in [Entries -> RecType] /\ pool' \in Nat /\ BlocksAccounted'
    BY <1>1, <1>2, <1>4, <1>5, ListStays
  <1>9. orig' \in [Flows -> OrigType] /\ OrigOK'
    BY <1>1, <1>2, <1>7, OrigReset
  <1>10. idx' \in [Flows -> 0 .. MAX_LEN_OF_BA_REC_TABLE - 1]
    <2>1. 0 \in 0 .. MAX_LEN_OF_BA_REC_TABLE - 1
      BY ConstantsAssumption DEF ConstantsAssumption
    <2>2. idx \in [Flows -> 0 .. MAX_LEN_OF_BA_REC_TABLE - 1]
      BY DEF TInv, TypesNoPool
    <2> QED
      BY <1>2, <2>1, <2>2
  <1>11. up' \in [Flows -> UpType] /\ why' \in [Flows -> SUBSET Causes]
    BY <1>2, Small DEF TInv, TypesNoPool
  <1> QED
    BY <1>2, <1>6, <1>8, <1>9, <1>10, <1>11 DEF TInv, TypesNoPool

LEMMA TTdFree ==
  ASSUME TInv, TdFree
  PROVE  TInv'
  <1>1. td \in TdType
    BY Commanded DEF TdFree
  <1>2. UNCHANGED <<rec, sta, num, pool, orig, up, why, ghost>>
    BY DEF TdFree
  <1>3. td' \in TdType \cup {Idle}
    BY <1>1 DEF TdFree, TdType
  <1>4. idx' \in [Flows -> 0 .. MAX_LEN_OF_BA_REC_TABLE - 1]
    BY ConstantsAssumption DEF TdFree, ConstantsAssumption, TInv, TypesNoPool
  <1>5. rec' \in [Entries -> RecType] /\ pool' \in Nat /\ BlocksAccounted'
    BY <1>2, BlocksSame
  <1>6. orig' \in [Flows -> OrigType] /\ OrigOK'
    BY <1>2, OrigSame
  <1> QED
    BY <1>2, <1>3, <1>4, <1>5, <1>6 DEF TInv, TypesNoPool

LEMMA TTdDec ==
  ASSUME TInv, TdDec
  PROVE  TInv'
  <1> DEFINE e == td.e
             x == [rec[e] EXCEPT !.status = "NONE"]
  <1>1. e \in Entries
    BY Commanded DEF TdDec
  <1>2. rec' = [rec EXCEPT ![e] = x] /\ td' = Idle /\ num' = num - 1
        /\ UNCHANGED <<idx, sta, pool, orig, up, why, ghost>>
    BY DEF TdDec
  <1>3. x \in RecType /\ x.list = rec[e].list
    <2>1. rec[e] \in RecType
      BY <1>1 DEF TInv, TypesNoPool
    <2> QED
      BY <2>1 DEF RecType
  <1> HIDE DEF x, e
  <1>4. rec' \in [Entries -> RecType] /\ pool' \in Nat /\ BlocksAccounted'
    BY <1>1, <1>2, <1>3, ListStays
  <1>5. orig' \in [Flows -> OrigType] /\ OrigOK'
    BY <1>2, OrigSame
  <1> QED
    BY <1>2, <1>4, <1>5 DEF TInv, TypesNoPool

LEMMA TNext == TInv /\ [Next]_vars => TInv'
  <1> SUFFICES ASSUME TInv, [Next]_vars PROVE TInv'
    OBVIOUS
  <1>1. ASSUME NEW f \in Flows, Softirq(f) PROVE TInv'
    BY <1>1, TAmpdu, TTornDown, TBlockAckReq, TAdd, TSessionEnds, TInsert DEF Softirq
  <1>2. ASSUME NEW f \in Flows, LoseFrame(f) \/ GiveUp(f) PROVE TInv'
    BY <1>2, TLoseFrame, TGiveUp
  <1>3. CASE UNCHANGED vars
    <2>1. UNCHANGED <<rec, idx, sta, num, pool, td, orig, up, why, ghost>>
      BY <1>3 DEF vars
    <2>2. BlocksAccounted' /\ OrigOK'
      BY <2>1, BlocksSame, OrigSame
    <2> QED
      BY <2>1, <2>2 DEF TInv, TypesNoPool
  <1> QED
    BY <1>1, <1>2, <1>3, TTdEnter, TTdRefresh, TTdSection, TTdFree, TTdDec, TTick DEF Next

LEMMA TInvAlways == Spec => []TInv
  BY TInvInit, TNext, PTL DEF Spec

\* Type correctness: positions, windows, lists and the pool of the recipient
\* keep their ranges in every session of every flow, whatever the size of the
\* table, the pool and the windows, and whatever iwpriv interrupts.
THEOREM BaTypeCorrect == Spec => []TypeOK
  <1>1. TInv => TypeOK
    BY TInvTypes
  <1> QED
    BY <1>1, TInvAlways, PTL

\* No handler of the reordering list loses a block or returns one twice: every
\* block is free, holds a frame of a list, or was taken by an EAPOL frame.
THEOREM BlocksAreAccounted == Spec => []BlocksAccounted
  <1>1. TInv => BlocksAccounted
    BY DEF TInv
  <1> QED
    BY <1>1, TInvAlways, PTL
=============================================================================
