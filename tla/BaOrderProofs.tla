--------------------------- MODULE BaOrderProofs ---------------------------
(***************************************************************************)
(* A Block Ack recipient passes the frames of a session up in their order, *)
(* each once, and loses no acknowledged frame.  The code knows a frame by  *)
(* its number modulo 4096; the argument gives the position of a session    *)
(* the number T of the frame that it stands for, and shows that the code's *)
(* comparisons are those of the unbounded numbers as long as the           *)
(* originator is less than half of the space ahead.                        *)
(***************************************************************************)
EXTENDS BaListProofs

-----------------------------------------------------------------------------
(* Sequence numbers and the frames they stand for                          *)
LEMMA ModDiff ==
  ASSUME NEW a \in Int, NEW b \in Int
  PROVE  ((a % M) - (b % M)) % M = (a - b) % M
  <1>1. M \in {2, 4, 8, 16, 32, 64, 128, 256, 512, 1024, 2048, 4096}
    BY ConstantsAssumption DEF ConstantsAssumption, M
  <1> HIDE DEF M
  <1> QED
    BY <1>1

LEMMA ModSum ==
  ASSUME NEW a \in Int, NEW b \in Int
  PROVE  ((a % M) + b) % M = (a + b) % M
  <1>1. M \in {2, 4, 8, 16, 32, 64, 128, 256, 512, 1024, 2048, 4096}
    BY ConstantsAssumption DEF ConstantsAssumption, M
  <1> HIDE DEF M
  <1> QED
    BY <1>1

LEMMA SpaceIs ==
  /\ M \in Nat /\ M >= 1 /\ M = MAXSEQ + 1
  /\ \A x \in Int : x % M \in Positions /\ x % M # RESET /\ x % M \in Int
  <1>1. M \in Nat \ {0} /\ M = MAXSEQ + 1 /\ \A x \in Int : x % M \in 0 .. MAXSEQ
    BY SequenceNumbers
  <1> HIDE DEF M
  <1> QED
    BY <1>1 DEF Positions, RESET

\* Frames less than the whole space apart have different sequence numbers.
LEMMA SameNumber ==
  ASSUME NEW a \in Int, NEW b \in Int, -M < a - b, a - b < M
  PROVE  a % M = b % M <=> a = b
  <1>0. M \in Nat /\ M >= 1 /\ a % M \in Int /\ b % M \in Int
    BY SpaceIs
  <1> HIDE DEF M
  <1>1. ASSUME a % M = b % M PROVE a = b
    <2>1. (a - b) % M = ((a % M) - (b % M)) % M
      BY ModDiff
    <2>2. ((a % M) - (b % M)) = 0
      BY <1>0, <1>1
    <2>3. 0 % M = 0
      BY <1>0, Reduce
    <2>4. (a - b) % M = 0
      BY <2>1, <2>2, <2>3
    <2>5. a - b \in Int /\ (0 <= a - b => (a - b) % M = a - b)
          /\ (a - b < 0 => (a - b) % M = a - b + M)
      BY <1>0, Reduce
    <2> QED
      BY <1>0, <2>4, <2>5
  <1> QED
    BY <1>1

\* SEQ_SMALLER orders frames that are within half of the space.
LEMMA SmallerNumber ==
  ASSUME NEW a \in Int, NEW b \in Int, 2 * (a - b) < M, 2 * (b - a) <= M
  PROVE  SEQ_SMALLER(a % M, b % M) <=> a < b
  <1>0. M \in Nat /\ M \div 2 \in Nat /\ 2 * (M \div 2) = M
    BY SpaceIs, Half
  <1> DEFINE h == M \div 2
  <1>1. SEQ_SMALLER(a % M, b % M) <=> (a - b) % M >= h
    <2>1. ((a % M) - (b % M)) % M = (a - b) % M
      BY ModDiff
    <2>2. SEQ_SMALLER(a % M, b % M) <=> ((a % M) - (b % M)) % M >= h
      BY Zenon DEF SEQ_SMALLER
    <2> QED
      BY <2>1, <2>2, Zenon
  <1> HIDE DEF h
  <1>2. h \in Nat /\ 2 * h = M
    BY <1>0 DEF h
  <1> HIDE DEF M
  <1>3. a - b \in Int /\ (0 <= a - b => (a - b) % M = a - b)
        /\ (a - b < 0 => (a - b) % M = a - b + M)
    BY <1>0, Reduce
  <1> QED
    BY <1>0, <1>1, <1>2, <1>3

LEMMA StepNumber ==
  ASSUME NEW a \in Int, NEW b \in Int, -M < a - (b + 1), a - (b + 1) < M
  PROVE  SEQ_STEPONE(a % M, b % M) <=> a = b + 1
  <1>1. ((b % M) + 1) % M = (b + 1) % M
    BY ModSum
  <1>2. b + 1 \in Int
    OBVIOUS
  <1>3. a % M = (b + 1) % M <=> a = b + 1
    BY <1>2, SameNumber
  <1> QED
    BY <1>1, <1>3 DEF SEQ_STEPONE

-----------------------------------------------------------------------------
(* Frames in a list and frames passed up                                   *)

LEMMA NumberOf ==
  ASSUME NEW l \in Seq(FrameType)
  PROVE  /\ Len(l) \in Nat /\ DOMAIN l = 1 .. Len(l)
         /\ \A i \in DOMAIN l : /\ l[i] \in FrameType /\ l[i].n \in Int /\ l[i].n \in Frames
                                 /\ Seq12(l[i]) = l[i].n % M
  <1>1. Frames \subseteq Int
    BY ConstantsAssumption DEF ConstantsAssumption, Frames
  <1>2. \A i \in DOMAIN l : l[i] \in FrameType
    OBVIOUS
  <1>3. \A i \in DOMAIN l : l[i].n \in Frames
    BY <1>2 DEF FrameType
  <1>4. Len(l) \in Nat /\ DOMAIN l = 1 .. Len(l)
    OBVIOUS
  <1>5. \A i \in DOMAIN l : Seq12(l[i]) = l[i].n % M
    BY Zenon DEF Seq12
  <1> QED
    BY <1>1, <1>2, <1>3, <1>4, <1>5

\* The frames of l belong to flow f and follow frame T in increasing order.
Follows(f, l, T, lo, hi) ==
  /\ \A i \in DOMAIN l : l[i].flow = f /\ l[i].n \in T + lo .. T + hi
  /\ \A i, j \in DOMAIN l : i < j => l[i].n < l[j].n

\* What was passed up before (S) and is passed up now (out) is in order, up to
\* T and before the list; with a slack of 1 the last frame may come once more.
Rises(S, out, l, T, k) ==
  /\ \A m \in S : m <= T + k
  /\ \A m \in S, i \in DOMAIN l : m < l[i].n
  /\ \A m \in S, i \in DOMAIN out : m < out[i].n + k
  /\ \A i \in DOMAIN out : out[i].n <= T + k
  /\ \A i \in DOMAIN out, j \in DOMAIN l : out[i].n < l[j].n
  /\ \A i, j \in DOMAIN out : i < j => out[i].n < out[j].n + k

\* The first k frames of l are passed up.
Moves(out, l, k, out2, l2) ==
  /\ Len(out2) = Len(out) + k /\ Len(l2) = Len(l) - k
  /\ \A i \in 1 .. Len(out) : out2[i] = out[i]
  /\ \A i \in Len(out) + 1 .. Len(out) + k : out2[i] = l[i - Len(out)]
  /\ \A i \in 1 .. Len(l) - k : l2[i] = l[k + i]

Grows(l) == \A i, j \in DOMAIN l : i < j => l[i].n < l[j].n
UpTo(l, k, T, z) == \A i \in 1 .. k : l[i].n <= T + z
From(l, k, T, lo) == \A i \in k + 1 .. Len(l) : l[i].n >= T + lo

LEMMA AnnounceMoves ==
  ASSUME NEW c \in CtxType, NEW k \in 0 .. Len(c.list)
  PROVE  /\ Moves(c.out, c.list, k, Announce(c, k).out, Announce(c, k).list)
         /\ Announce(c, k) \in CtxType /\ Announce(c, k).why = c.why
         /\ Announce(c, k).LastIndSeq = c.LastIndSeq /\ Announce(c, k).age = c.age
         /\ Announce(c, k).BAWinSize = c.BAWinSize
  <1> DEFINE a == SubSeq(c.list, 1, k)
             b == SubSeq(c.list, k + 1, Len(c.list))
  <1>1. c.list \in Seq(FrameType) /\ c.out \in Seq(FrameType) /\ k \in Nat
        /\ Len(c.list) \in Nat /\ Len(c.out) \in Nat
    BY DEF CtxType
  <1>2. /\ a \in Seq(FrameType) /\ Len(a) = k /\ \A i \in 1 .. k : a[i] = c.list[i]
        /\ b \in Seq(FrameType) /\ Len(b) = Len(c.list) - k
        /\ \A i \in 1 .. Len(c.list) - k : b[i] = c.list[k + i]
    BY <1>1, SplitSeq, SMTT(30)
  <1>3. /\ Announce(c, k).out = c.out \o a /\ Announce(c, k).list = b
        /\ Announce(c, k).age = c.age
    BY DEF Announce, CtxType
  <1>4. /\ Announce(c, k) \in CtxType /\ Announce(c, k).why = c.why
        /\ Announce(c, k).LastIndSeq = c.LastIndSeq
        /\ Announce(c, k).BAWinSize = c.BAWinSize
    BY AnnounceKeeps DEF Keeps
  <1> HIDE DEF a, b
  <1>5. /\ Len(c.out \o a) = Len(c.out) + k
        /\ \A i \in 1 .. Len(c.out) : (c.out \o a)[i] = c.out[i]
        /\ \A i \in Len(c.out) + 1 .. Len(c.out) + k : (c.out \o a)[i] = a[i - Len(c.out)]
    <2>1. ASSUME NEW s \in Seq(FrameType), NEW t \in Seq(FrameType)
          PROVE  /\ Len(s \o t) = Len(s) + Len(t)
                 /\ \A i \in 1 .. Len(s) : (s \o t)[i] = s[i]
                 /\ \A i \in Len(s) + 1 .. Len(s) + Len(t) : (s \o t)[i] = t[i - Len(s)]
      OBVIOUS
    <2> QED
      BY <1>1, <1>2, <2>1
  <1>6. \A i \in Len(c.out) + 1 .. Len(c.out) + k :
            (c.out \o a)[i] = c.list[i - Len(c.out)]
    <2>1. \A i \in Len(c.out) + 1 .. Len(c.out) + k : i - Len(c.out) \in 1 .. k
      BY <1>1
    <2> QED
      BY <1>2, <1>5, <2>1
  <1>7. Moves(c.out, c.list, k, c.out \o a, b)
    BY <1>2, <1>5, <1>6 DEF Moves
  <1> QED
    BY <1>3, <1>4, <1>7

LEMMA RisesMoves ==
  ASSUME NEW out \in Seq(FrameType), NEW l \in Seq(FrameType),
         NEW out2 \in Seq(FrameType), NEW l2 \in Seq(FrameType),
         NEW n \in 0 .. Len(l), Moves(out, l, n, out2, l2),
         NEW S \in SUBSET Int, NEW T \in Int, NEW T2 \in Int, NEW k \in Nat, NEW k2 \in Nat,
         Rises(S, out, l, T, k), Grows(l), T <= T2, k <= k2, UpTo(l, n, T2, k2)
  PROVE  Rises(S, out2, l2, T2, k2)
  <1> USE DEF Grows, UpTo
  <1>1. /\ Len(out) \in Nat /\ Len(l) \in Nat /\ n \in Nat /\ n <= Len(l)
        /\ DOMAIN out = 1 .. Len(out) /\ DOMAIN l = 1 .. Len(l)
        /\ DOMAIN out2 = 1 .. Len(out) + n /\ DOMAIN l2 = 1 .. Len(l) - n
    BY DEF Moves
  <1>2. /\ \A i \in DOMAIN out : out[i].n \in Int
        /\ \A i \in DOMAIN l : l[i].n \in Int
    BY NumberOf
  <1>3. ASSUME NEW i \in DOMAIN l2 PROVE n + i \in DOMAIN l /\ l2[i] = l[n + i]
    BY <1>1 DEF Moves
  <1>4. ASSUME NEW i \in DOMAIN out2
        PROVE  \/ i \in DOMAIN out /\ out2[i] = out[i]
               \/ /\ i > Len(out) /\ i - Len(out) \in 1 .. n /\ i - Len(out) \in DOMAIN l
                  /\ out2[i] = l[i - Len(out)]
    <2>1. CASE i <= Len(out)
      BY <1>1, <2>1 DEF Moves
    <2>2. CASE i > Len(out)
      <3>1. i - Len(out) \in 1 .. n /\ i - Len(out) \in 1 .. Len(l) /\ i \in Len(out) + 1 .. Len(out) + n
        BY <1>1, <2>2
      <3> QED
        BY <1>1, <2>2, <3>1 DEF Moves
    <2> QED
      BY <1>1, <2>1, <2>2
  <1>5. \A m \in S : m <= T2 + k2
    BY DEF Rises
  <1>6. ASSUME NEW m \in S, NEW i \in DOMAIN l2 PROVE m < l2[i].n
    BY <1>3 DEF Rises
  <1>7. ASSUME NEW m \in S, NEW i \in DOMAIN out2 PROVE m < out2[i].n + k2
    <2>1. CASE i \in DOMAIN out /\ out2[i] = out[i]
      <3>1. m < out[i].n + k /\ out[i].n \in Int /\ m \in Int
        BY <1>2, <2>1 DEF Rises
      <3> QED
        BY <2>1, <3>1
    <2>2. CASE i - Len(out) \in DOMAIN l /\ out2[i] = l[i - Len(out)]
      <3>1. m < l[i - Len(out)].n /\ l[i - Len(out)].n \in Int /\ m \in Int
        BY <1>2, <2>2 DEF Rises
      <3> QED
        BY <2>2, <3>1
    <2> QED
      BY <1>4, <2>1, <2>2
  <1>8. ASSUME NEW i \in DOMAIN out2 PROVE out2[i].n <= T2 + k2
    <2>1. CASE i \in DOMAIN out /\ out2[i] = out[i]
      <3>1. out[i].n <= T + k /\ out[i].n \in Int
        BY <1>2, <2>1 DEF Rises
      <3> QED
        BY <2>1, <3>1
    <2> QED
      BY <1>4, <2>1
  <1>9. ASSUME NEW i \in DOMAIN out2, NEW j \in DOMAIN l2 PROVE out2[i].n < l2[j].n
    <2>1. CASE i \in DOMAIN out /\ out2[i] = out[i]
      BY <1>3, <2>1 DEF Rises
    <2>2. CASE i - Len(out) \in 1 .. n /\ i - Len(out) \in DOMAIN l /\ out2[i] = l[i - Len(out)]
      <3>1. i - Len(out) < n + j
        BY <1>1, <2>2
      <3> QED
        BY <1>3, <2>2, <3>1
    <2> QED
      BY <1>4, <2>1, <2>2
  <1>10. ASSUME NEW i \in DOMAIN out2, NEW j \in DOMAIN out2, i < j
         PROVE  out2[i].n < out2[j].n + k2
    <2>1. CASE j \in DOMAIN out /\ out2[j] = out[j]
      <3>1. i \in DOMAIN out /\ out2[i] = out[i]
        BY <1>1, <1>4, <1>10, <2>1
      <3>2. out[i].n < out[j].n + k /\ out[i].n \in Int /\ out[j].n \in Int
        BY <1>2, <1>10, <2>1, <3>1 DEF Rises
      <3> QED
        BY <2>1, <3>1, <3>2
    <2>2. CASE /\ j > Len(out) /\ j - Len(out) \in 1 .. n /\ j - Len(out) \in DOMAIN l
               /\ out2[j] = l[j - Len(out)]
      <3>0. l[j - Len(out)].n \in Int
        BY <1>2, <2>2
      <3>1. CASE i \in DOMAIN out /\ out2[i] = out[i]
        <4>1. out[i].n < l[j - Len(out)].n /\ out[i].n \in Int
          BY <1>2, <2>2, <3>1 DEF Rises
        <4> QED
          BY <2>2, <3>0, <3>1, <4>1, SMTT(30)
      <3>2. CASE i - Len(out) \in DOMAIN l /\ out2[i] = l[i - Len(out)]
        <4>1. i - Len(out) < j - Len(out)
          BY <1>1, <1>10
        <4>2. l[i - Len(out)].n < l[j - Len(out)].n /\ l[i - Len(out)].n \in Int
          BY <1>2, <2>2, <3>2, <4>1
        <4> DEFINE p == l[i - Len(out)].n
                   q == l[j - Len(out)].n
        <4>3. p < q + k2
          <5>1. p \in Int /\ q \in Int /\ p < q
            BY <3>0, <4>2
          <5> HIDE DEF p, q
          <5> QED
            BY <5>1
        <4> QED
          BY <2>2, <3>2, <4>3
      <3> QED
        BY <1>4, <3>1, <3>2
    <2> QED
      BY <1>4, <2>1, <2>2
  <1> QED
    BY <1>5, <1>6, <1>7, <1>8, <1>9, <1>10 DEF Rises

LEMMA RisesAppend ==
  ASSUME NEW out \in Seq(FrameType), NEW l \in Seq(FrameType), NEW x \in FrameType,
         NEW S \in SUBSET Int, NEW T \in Int, NEW T2 \in Int, NEW k \in Nat, NEW k2 \in Nat,
         Rises(S, out, l, T, k), T <= T2, k <= k2, x.n <= T2 + k2,
         \A m \in S : m < x.n + k2, \A i \in DOMAIN out : out[i].n < x.n + k2,
         \A i \in DOMAIN l : x.n < l[i].n
  PROVE  Rises(S, Append(out, x), l, T2, k2)
  <1> DEFINE o == Append(out, x)
  <1>1. /\ Len(out) \in Nat /\ DOMAIN out = 1 .. Len(out) /\ DOMAIN o = 1 .. Len(out) + 1
        /\ o[Len(out) + 1] = x /\ \A i \in 1 .. Len(out) : o[i] = out[i]
    OBVIOUS
  <1>2. \A i \in DOMAIN out : out[i].n \in Int
    BY NumberOf
  <1>3. x.n \in Int
    BY ConstantsAssumption DEF ConstantsAssumption, FrameType, Frames
  <1> HIDE DEF o
  <1>4. ASSUME NEW i \in DOMAIN o
        PROVE  (i \in DOMAIN out /\ o[i] = out[i]) \/ (i = Len(out) + 1 /\ o[i] = x)
    BY <1>1
  <1>5. \A m \in S : m <= T2 + k2 /\ \A i \in DOMAIN l : m < l[i].n
    BY DEF Rises
  <1>6. ASSUME NEW m \in S, NEW i \in DOMAIN o PROVE m < o[i].n + k2
    <2>1. CASE i \in DOMAIN out /\ o[i] = out[i]
      <3>1. m < out[i].n + k /\ out[i].n \in Int
        BY <1>2, <2>1 DEF Rises
      <3> QED
        BY <2>1, <3>1
    <2> QED
      BY <1>4, <2>1
  <1>7. ASSUME NEW i \in DOMAIN o PROVE o[i].n <= T2 + k2
    <2>1. CASE i \in DOMAIN out /\ o[i] = out[i]
      <3>1. out[i].n <= T + k /\ out[i].n \in Int
        BY <1>2, <2>1 DEF Rises
      <3> QED
        BY <2>1, <3>1
    <2> QED
      BY <1>4, <2>1
  <1>8. ASSUME NEW i \in DOMAIN o, NEW j \in DOMAIN l PROVE o[i].n < l[j].n
    BY <1>4 DEF Rises
  <1>9. ASSUME NEW i \in DOMAIN o, NEW j \in DOMAIN o, i < j PROVE o[i].n < o[j].n + k2
    <2>1. i \in DOMAIN out /\ o[i] = out[i]
      BY <1>1, <1>4, <1>9
    <2>2. CASE j \in DOMAIN out /\ o[j] = out[j]
      <3>1. out[i].n < out[j].n + k /\ out[i].n \in Int /\ out[j].n \in Int
        BY <1>2, <1>9, <2>1, <2>2 DEF Rises
      <3> QED
        BY <2>1, <2>2, <3>1
    <2>3. CASE o[j] = x
      BY <2>1, <2>3
    <2> QED
      BY <1>4, <2>2, <2>3
  <1> QED
    BY <1>5, <1>6, <1>7, <1>8, <1>9 DEF Rises, o

LEMMA FollowsMoves ==
  ASSUME NEW out \in Seq(FrameType), NEW l \in Seq(FrameType),
         NEW out2 \in Seq(FrameType), NEW l2 \in Seq(FrameType),
         NEW n \in 0 .. Len(l), Moves(out, l, n, out2, l2), NEW f,
         NEW T \in Int, NEW T2 \in Int, NEW lo \in Int, NEW lo2 \in Int, NEW hi \in Int,
         Follows(f, l, T, lo, hi), T <= T2, From(l, n, T2, lo2)
  PROVE  Follows(f, l2, T2, lo2, hi)
  <1> USE DEF From
  <1>1. /\ Len(l) \in Nat /\ n \in Nat /\ n <= Len(l)
        /\ DOMAIN l = 1 .. Len(l) /\ DOMAIN l2 = 1 .. Len(l) - n
    BY DEF Moves
  <1>2. \A i \in DOMAIN l : l[i].n \in Int
    BY NumberOf
  <1>3. ASSUME NEW i \in DOMAIN l2
        PROVE  n + i \in DOMAIN l /\ n + i \in n + 1 .. Len(l) /\ l2[i] = l[n + i]
    BY <1>1, SMTT(30) DEF Moves
  <1>4. ASSUME NEW i \in DOMAIN l2 PROVE l2[i].flow = f /\ l2[i].n \in T2 + lo2 .. T2 + hi
    <2>1. l[n + i].flow = f /\ l[n + i].n \in T + lo .. T + hi /\ l[n + i].n >= T2 + lo2
      BY <1>3 DEF Follows
    <2> QED
      BY <1>2, <1>3, <2>1, SMTT(30)
  <1>5. ASSUME NEW i \in DOMAIN l2, NEW j \in DOMAIN l2, i < j PROVE l2[i].n < l2[j].n
    <2>1. n + i < n + j
      BY <1>1, <1>5
    <2> QED
      BY <1>3, <2>1 DEF Follows
  <1> QED
    BY <1>4, <1>5 DEF Follows

LEMMA RestMoves ==
  ASSUME NEW out \in Seq(FrameType), NEW l \in Seq(FrameType),
         NEW out2 \in Seq(FrameType), NEW l2 \in Seq(FrameType),
         NEW n \in 0 .. Len(l), Moves(out, l, n, out2, l2)
  PROVE  \A i \in DOMAIN l2 : \E j \in DOMAIN l : l2[i] = l[j]
  <1> SUFFICES ASSUME NEW i \in DOMAIN l2 PROVE \E j \in DOMAIN l : l2[i] = l[j]
    OBVIOUS
  <1>1. n + i \in DOMAIN l /\ i \in 1 .. Len(l) - n
    BY DEF Moves
  <1>2. l2[i] = l[n + i]
    BY <1>1 DEF Moves
  <1> QED
    BY <1>1, <1>2

LEMMA FollowsWeaker ==
  ASSUME NEW l \in Seq(FrameType), NEW f, NEW T \in Int, NEW lo \in Int, NEW lo2 \in Int,
         NEW hi \in Int, Follows(f, l, T, lo, hi), lo2 <= lo
  PROVE  Follows(f, l, T, lo2, hi)
  <1>1. \A i \in DOMAIN l : l[i].n \in Int
    BY NumberOf
  <1> QED
    BY <1>1 DEF Follows

\* ba_indicate_reordering_mpdus_le_seq stops at the first frame beyond q.
LEMMA LeSeqUpTo ==
  ASSUME NEW c \in CtxType, NEW f, NEW T \in Int, NEW q \in Int,
         Follows(f, c.list, T, 1, c.BAWinSize), T < q, 2 * (q - T) <= M
  PROVE  \E k \in 0 .. Len(c.list) :
            /\ LeSeq(c, q % M) = Announce(c, k)
            /\ \A i \in 1 .. k : c.list[i].n <= q
            /\ \A i \in k + 1 .. Len(c.list) : c.list[i].n >= q + 1
  <1> DEFINE l == c.list
             W == c.BAWinSize
             t == q % M
             G == {i \in 1 .. Len(l) : Seq12(l[i]) = t \/ SEQ_SMALLER(Seq12(l[i]), t)}
             run == {j \in 0 .. Len(l) :
                       \A i \in 1 .. j : Seq12(l[i]) = t \/ SEQ_SMALLER(Seq12(l[i]), t)}
             k == Max(run)
  <1>0. /\ l \in Seq(FrameType) /\ Len(l) \in Nat /\ DOMAIN l = 1 .. Len(l)
        /\ W \in Nat /\ 2 * (W + 1) <= M /\ M \in Nat
        /\ \A i \in 1 .. Len(l) : l[i].n \in Int /\ Seq12(l[i]) = l[i].n % M
    <2>1. l \in Seq(FrameType) /\ W \in Windows
      BY DEF CtxType
    <2> HIDE DEF l, W
    <2> QED
      BY <2>1, NumberOf, WindowHalf
  <1>1. run = Runs(Len(l), G)
    <2> SUFFICES ASSUME NEW j \in 0 .. Len(l), NEW i \in 1 .. j PROVE i \in 1 .. Len(l)
      BY DEF Runs
    <2> QED
      BY <1>0
  <1> HIDE DEF run, G
  <1>2. k \in 0 .. Len(l) /\ (k < Len(l) => k + 1 \notin G) /\ \A i \in 1 .. k : i \in G
    <2>1. k = Max(Runs(Len(l), G))
      BY <1>1
    <2> HIDE DEF k, l
    <2> QED
      BY <1>0, <2>1, LongestRun
  <1> HIDE DEF k
  <1>3. LeSeq(c, t) = Announce(c, k)
    BY DEF LeSeq, k, run
  <1>4. ASSUME NEW i \in 1 .. Len(l) PROVE i \in G <=> l[i].n <= q
    <2> DEFINE a == l[i].n
    <2>1. a \in Int /\ a \in T + 1 .. T + W /\ Seq12(l[i]) = a % M
      BY <1>0 DEF Follows
    <2>2. -M < a - q /\ a - q < M /\ 2 * (a - q) < M /\ 2 * (q - a) <= M
      <3> HIDE DEF M, a, W
      <3> QED
        BY <1>0, <2>1
    <2>3. (a % M = t <=> a = q) /\ (SEQ_SMALLER(a % M, t) <=> a < q)
      <3> HIDE DEF M, a, W
      <3> QED
        BY <2>1, <2>2, SameNumber, SmallerNumber
    <2>4. i \in G <=> a % M = t \/ SEQ_SMALLER(a % M, t)
      BY <2>1 DEF G
    <2>5. i \in G <=> a = q \/ a < q
      BY <2>3, <2>4
    <2> HIDE DEF a
    <2>6. i \in G <=> a <= q
      BY <2>1, <2>5
    <2> QED
      BY <2>6 DEF a
  <1>5. ASSUME NEW i \in 1 .. k PROVE l[i].n <= q
    <2>1. i \in 1 .. Len(l)
      BY <1>0, <1>2
    <2> QED
      BY <1>2, <1>4, <2>1
  <1>6. ASSUME NEW i \in k + 1 .. Len(l) PROVE l[i].n >= q + 1
    <2>1. k + 1 \in 1 .. Len(l) /\ i \in 1 .. Len(l) /\ k < Len(l) /\ (i = k + 1 \/ k + 1 < i)
      BY <1>0, <1>2
    <2> DEFINE a == l[i].n
               b == l[k + 1].n
    <2>2. a \in Int /\ b \in Int /\ ~(b <= q)
      BY <1>0, <1>2, <1>4, <2>1
    <2>3. k + 1 < i => b < a
      BY <1>0, <2>1 DEF Follows
    <2>4. i = k + 1 => a = b
      OBVIOUS
    <2>5. a >= q + 1
      <3> HIDE DEF a, b
      <3> QED
        BY <2>1, <2>2, <2>3, <2>4
    <2> QED
      BY <2>5
  <1> QED
    BY <1>2, <1>3, <1>5, <1>6

\* ba_indicate_reordering_mpdus_in_order passes up the frames that continue T.
LEMMA InOrderFrom ==
  ASSUME NEW c \in CtxType, NEW f, NEW T \in Int,
         Follows(f, c.list, T, 1, c.BAWinSize)
  PROVE  \E k \in 0 .. Len(c.list) :
            /\ InOrder(c, T % M) = IF k = 0 THEN c
                                   ELSE [Announce(c, k) EXCEPT !.LastIndSeq = (T + k) % M]
            /\ \A i \in 1 .. k : c.list[i].n = T + i
            /\ \A i \in k + 1 .. Len(c.list) : c.list[i].n >= T + k + 2
  <1> DEFINE l == c.list
             W == c.BAWinSize
             p == T % M
             G == {i \in 1 .. Len(l) : Seq12(l[i]) = (p + i) % M}
             run == {j \in 0 .. Len(l) : \A i \in 1 .. j : Seq12(l[i]) = (p + i) % M}
             k == Max(run)
  <1>0. /\ l \in Seq(FrameType) /\ Len(l) \in Nat /\ DOMAIN l = 1 .. Len(l)
        /\ W \in Nat /\ 2 * (W + 1) <= M /\ M \in Nat
        /\ \A i \in 1 .. Len(l) : l[i].n \in Int /\ Seq12(l[i]) = l[i].n % M
    <2>1. l \in Seq(FrameType) /\ W \in Windows
      BY DEF CtxType
    <2> HIDE DEF l, W
    <2> QED
      BY <2>1, NumberOf, WindowHalf
  <1>1. run = Runs(Len(l), G)
    <2> SUFFICES ASSUME NEW j \in 0 .. Len(l), NEW i \in 1 .. j PROVE i \in 1 .. Len(l)
      BY DEF Runs
    <2> QED
      BY <1>0
  <1>g. ASSUME NEW i \in 1 .. Len(l) PROVE i \in G <=> l[i].n % M = (T + i) % M
    <2>1. (p + i) % M = (T + i) % M
      BY ModSum
    <2>2. Seq12(l[i]) = l[i].n % M
      BY <1>0
    <2> HIDE DEF l, p
    <2> QED
      BY <2>1, <2>2 DEF G
  <1> HIDE DEF run, G
  <1>2. k \in 0 .. Len(l) /\ (k < Len(l) => k + 1 \notin G) /\ \A i \in 1 .. k : i \in G
    <2>1. k = Max(Runs(Len(l), G))
      BY <1>1
    <2> HIDE DEF k, l
    <2> QED
      BY <1>0, <2>1, LongestRun
  <1> HIDE DEF k
  <1>3. InOrder(c, p) = IF k = 0 THEN c
                        ELSE [Announce(c, k) EXCEPT !.LastIndSeq = Seq12(l[k])]
    BY DEF InOrder, k, run
  <1>4. ASSUME NEW i \in 1 .. Len(l) PROVE l[i].n \in T + 1 .. T + W
    BY <1>0 DEF Follows
  <1>5. k < M
    <2> SUFFICES ASSUME k >= M PROVE FALSE
      <3> HIDE DEF M
      <3> QED
        BY <1>0, <1>2
    <2> DEFINE a == l[M].n
    <2>1. M \in 1 .. k /\ M \in 1 .. Len(l)
      <3>1. M \in Nat /\ M >= 1
        BY SpaceIs
      <3> HIDE DEF M
      <3> QED
        BY <1>2, <3>1
    <2>2. a % M = (T + M) % M /\ a \in Int /\ a \in T + 1 .. T + W
      BY <1>0, <1>2, <1>4, <1>g, <2>1
    <2>3. a = T + M
      <3> HIDE DEF M, a, W
      <3>1. -M < a - (T + M) /\ a - (T + M) < M /\ T + M \in Int
        BY <1>0, <2>2
      <3> QED
        BY <2>2, <3>1, SameNumber
    <2> HIDE DEF M, a, W
    <2> QED
      BY <1>0, <2>2, <2>3
  <1>6. ASSUME NEW i \in 1 .. Len(l), i <= k + 1 PROVE i \in G <=> l[i].n = T + i
    <2> DEFINE a == l[i].n
    <2>1. a \in Int /\ a \in T + 1 .. T + W
      BY <1>0, <1>4
    <2> HIDE DEF M, a, W
    <2>2. i \in 1 .. M /\ T + i \in Int
      BY <1>0, <1>2, <1>5, <1>6
    <2>3. -M < a - (T + i) /\ a - (T + i) < M
      BY <1>0, <2>1, <2>2
    <2>4. a % M = (T + i) % M <=> a = T + i
      BY <2>1, <2>2, <2>3, SameNumber
    <2> QED
      BY <1>g, <2>4 DEF a
  <1>7. ASSUME NEW i \in 1 .. k PROVE l[i].n = T + i
    <2>1. i \in 1 .. Len(l) /\ i <= k + 1
      BY <1>0, <1>2
    <2> QED
      BY <1>2, <1>6, <2>1
  <1>8. ASSUME NEW i \in k + 1 .. Len(l) PROVE l[i].n >= T + k + 2
    <2>1. k + 1 \in 1 .. Len(l) /\ i \in 1 .. Len(l) /\ k < Len(l) /\ (i = k + 1 \/ k + 1 < i)
          /\ k + 1 <= k + 1 /\ k \in Nat
      BY <1>0, <1>2
    <2> DEFINE a == l[i].n
               b == l[k + 1].n
    <2>2. a \in Int /\ b \in Int /\ b # T + (k + 1) /\ b >= T + 1
      <3>1. b # T + (k + 1)
        BY <1>2, <1>6, <2>1
      <3>2. a \in Int /\ b \in Int /\ b \in T + 1 .. T + W
        BY <1>0, <1>4, <2>1
      <3> QED
        BY <1>0, <3>1, <3>2
    <2>3. k > 0 => T + k < b
      <3> SUFFICES ASSUME k > 0 PROVE T + k < b
        OBVIOUS
      <3>1. k \in 1 .. k /\ k \in DOMAIN l /\ k + 1 \in DOMAIN l /\ k < k + 1
        BY <1>0, <2>1
      <3> QED
        BY <1>7, <3>1 DEF Follows
    <2>4. (k + 1 < i => b < a) /\ (i = k + 1 => a = b)
      BY <1>0, <2>1 DEF Follows
    <2>5. a >= T + k + 2
      <3> HIDE DEF a, b
      <3> QED
        BY <2>1, <2>2, <2>3, <2>4
    <2> QED
      BY <2>5
  <1>9. k # 0 => Seq12(l[k]) = (T + k) % M
    <2> SUFFICES ASSUME k # 0 PROVE Seq12(l[k]) = (T + k) % M
      OBVIOUS
    <2>1. k \in 1 .. k /\ k \in 1 .. Len(l)
      BY <1>0, <1>2
    <2> QED
      BY <1>0, <1>7, <2>1
  <1> QED
    BY <1>2, <1>3, <1>7, <1>8, <1>9

\* Frame fr is in one of two sequences.
In(fr, out, l) == (\E i \in DOMAIN out : out[i] = fr) \/ (\E i \in DOMAIN l : l[i] = fr)

LEMMA InMoves ==
  ASSUME NEW out \in Seq(FrameType), NEW l \in Seq(FrameType),
         NEW out2 \in Seq(FrameType), NEW l2 \in Seq(FrameType),
         NEW n \in 0 .. Len(l), Moves(out, l, n, out2, l2), NEW fr
  PROVE  In(fr, out, l) <=> In(fr, out2, l2)
  <1>1. /\ Len(out) \in Nat /\ Len(l) \in Nat /\ n \in Nat /\ n <= Len(l)
        /\ DOMAIN out = 1 .. Len(out) /\ DOMAIN l = 1 .. Len(l)
        /\ DOMAIN out2 = 1 .. Len(out) + n /\ DOMAIN l2 = 1 .. Len(l) - n
    BY DEF Moves
  <1>2. ASSUME NEW i \in DOMAIN out PROVE i \in DOMAIN out2 /\ out2[i] = out[i]
    BY <1>1 DEF Moves
  <1>3. ASSUME NEW i \in DOMAIN l PROVE In(l[i], out2, l2)
    <2>1. CASE i <= n
      <3>1. Len(out) + i \in Len(out) + 1 .. Len(out) + n /\ Len(out) + i \in DOMAIN out2
            /\ (Len(out) + i) - Len(out) = i
        BY <1>1, <2>1
      <3>2. out2[Len(out) + i] = l[i]
        BY <3>1 DEF Moves
      <3> QED
        BY <3>1, <3>2 DEF In
    <2>2. CASE i > n
      <3>1. i - n \in 1 .. Len(l) - n /\ i - n \in DOMAIN l2 /\ n + (i - n) = i
        BY <1>1, <2>2
      <3>2. l2[i - n] = l[i]
        BY <3>1 DEF Moves
      <3> QED
        BY <3>1, <3>2 DEF In
    <2> QED
      BY <1>1, <2>1, <2>2
  <1>4. ASSUME NEW i \in DOMAIN l2 PROVE n + i \in DOMAIN l /\ l2[i] = l[n + i]
    BY <1>1 DEF Moves
  <1>5. ASSUME NEW i \in DOMAIN out2 PROVE In(out2[i], out, l)
    <2>1. CASE i <= Len(out)
      BY <1>1, <2>1 DEF Moves, In
    <2>2. CASE i > Len(out)
      <3>1. i - Len(out) \in DOMAIN l /\ i \in Len(out) + 1 .. Len(out) + n
        BY <1>1, <2>2
      <3> QED
        BY <3>1 DEF Moves, In
    <2> QED
      BY <1>1, <2>1, <2>2
  <1> QED
    BY <1>2, <1>3, <1>4, <1>5, SMTT(30) DEF In

-----------------------------------------------------------------------------
(* No handler loses a frame                                                *)
Holds(c, fr) == In(fr, c.out, c.list)

\* What c holds d holds too, d has no other frames than those of X, and the
\* causes recorded stay.
Gains(c, d, X) ==
  /\ \A fr : Holds(c, fr) => Holds(d, fr)
  /\ \A fr : Holds(d, fr) => Holds(c, fr) \/ fr \in X
  /\ c.why \subseteq d.why

LEMMA GainsTrans ==
  ASSUME NEW c, NEW d, NEW e, NEW X, Gains(c, d, X), Gains(d, e, X)
  PROVE  Gains(c, e, X)
  BY DEF Gains

\* Only the lists of frames and the causes count.
LEMMA GainsSame ==
  ASSUME NEW c, NEW d, NEW X, d.out = c.out, d.list = c.list, c.why \subseteq d.why
  PROVE  Gains(c, d, X)
  BY DEF Gains, Holds

LEMMA AnnounceGains ==
  ASSUME NEW c \in CtxType, NEW k \in 0 .. Len(c.list), NEW X
  PROVE  Gains(c, Announce(c, k), X)
  <1> DEFINE d == Announce(c, k)
  <1>1. Moves(c.out, c.list, k, d.out, d.list) /\ d \in CtxType /\ d.why = c.why
    BY AnnounceMoves
  <1>2. /\ c.out \in Seq(FrameType) /\ c.list \in Seq(FrameType)
        /\ d.out \in Seq(FrameType) /\ d.list \in Seq(FrameType)
    BY <1>1 DEF CtxType
  <1> HIDE DEF d
  <1>3. ASSUME NEW fr PROVE Holds(c, fr) <=> Holds(d, fr)
    BY <1>1, <1>2, InMoves DEF Holds
  <1> QED
    BY <1>1, <1>3 DEF Gains, d

LEMMA LeSeqGains ==
  ASSUME NEW c \in CtxType, NEW seq \in Int, NEW X
  PROVE  Gains(c, LeSeq(c, seq), X)
  <1> DEFINE run == {k \in 0 .. Len(c.list) :
                       \A i \in 1 .. k : \/ Seq12(c.list[i]) = seq
                                         \/ SEQ_SMALLER(Seq12(c.list[i]), seq)}
             k == Max(run)
  <1>0. Len(c.list) \in Nat
    BY DEF CtxType
  <1>1. k \in 0 .. Len(c.list)
    <2>1. 0 \in run /\ run \in SUBSET (0 .. Len(c.list))
      BY <1>0
    <2> HIDE DEF run
    <2> QED
      BY <1>0, <2>1, MaxIn
  <1>2. LeSeq(c, seq) = Announce(c, k)
    BY DEF LeSeq
  <1> HIDE DEF k
  <1> QED
    BY <1>1, <1>2, AnnounceGains

LEMMA InOrderGains ==
  ASSUME NEW c \in CtxType, NEW seq \in Int, NEW X
  PROVE  Gains(c, InOrder(c, seq), X)
  <1> DEFINE run == {k \in 0 .. Len(c.list) :
                       \A i \in 1 .. k : Seq12(c.list[i]) = (seq + i) % M}
             k == Max(run)
             a == Announce(c, k)
             d == [a EXCEPT !.LastIndSeq = Seq12(c.list[k])]
  <1>0. Len(c.list) \in Nat
    BY DEF CtxType
  <1>1. k \in 0 .. Len(c.list)
    <2>1. 0 \in run /\ run \in SUBSET (0 .. Len(c.list))
      BY <1>0
    <2> HIDE DEF run
    <2> QED
      BY <1>0, <2>1, MaxIn
  <1>2. InOrder(c, seq) \in {c, d}
    BY DEF InOrder
  <1> HIDE DEF k
  <1>3. a \in CtxType /\ Gains(c, a, X)
    BY <1>1, AnnounceMoves, AnnounceGains
  <1> HIDE DEF a
  <1>4. d.out = a.out /\ d.list = a.list /\ d.why = a.why
    BY <1>3 DEF CtxType
  <1> HIDE DEF d
  <1>5. Gains(a, d, X) /\ Gains(c, c, X)
    BY <1>4, GainsSame
  <1> QED
    BY <1>2, <1>3, <1>5, GainsTrans

LEMMA RefreshGains ==
  ASSUME NEW c \in CtxType, NEW X
  PROVE  Gains(c, Refresh(c), X)
  <1> DEFINE a == Announce(c, Len(c.list))
  <1>1. Len(c.list) \in 0 .. Len(c.list)
    BY DEF CtxType
  <1>2. a \in CtxType /\ Gains(c, a, X)
    BY <1>1, AnnounceMoves, AnnounceGains
  <1>3. Refresh(c) = [a EXCEPT !.LastIndSeq = RESET]
    BY DEF Refresh
  <1> HIDE DEF a
  <1>4. Refresh(c).out = a.out /\ Refresh(c).list = a.list /\ Refresh(c).why = a.why
    BY <1>2, <1>3 DEF CtxType
  <1>5. Gains(a, Refresh(c), X)
    BY <1>4, GainsSame
  <1> QED
    BY <1>2, <1>5, GainsTrans

LEMMA FlushGains ==
  ASSUME NEW c \in CtxType, NEW X
  PROVE  Gains(c, FlushTimeout(c), X)
  <1> DEFINE seq == (c.LastIndSeq + 1) % M
             d == LeSeq(c, seq)
             e == [d EXCEPT !.LastIndSeq = seq, !.why = c.why \cup {"timeout"}]
             a == Refresh(c)
             g == [a EXCEPT !.why = c.why \cup {"refresh"}]
  <1>0. seq \in 0 .. MAXSEQ
    <2>1. c.LastIndSeq + 1 \in Int
      BY SequenceNumbers DEF CtxType, RESET
    <2> QED
      BY <2>1, SequenceNumbers
  <1>1. FlushTimeout(c) \in {g, InOrder(e, seq), c}
    BY DEF FlushTimeout
  <1>2. Gains(c, g, X)
    <2>1. Gains(c, a, X) /\ a \in CtxType /\ a.why = c.why
      BY RefreshKeeps, RefreshGains
    <2> HIDE DEF a
    <2>2. g.out = a.out /\ g.list = a.list /\ g.why = c.why \cup {"refresh"}
      BY <2>1 DEF CtxType
    <2>3. Gains(a, g, X)
      BY <2>1, <2>2, GainsSame
    <2> QED
      BY <2>1, <2>3, GainsTrans
  <1>3. Gains(c, InOrder(e, seq), X)
    <2> HIDE DEF seq
    <2>1. Gains(c, d, X) /\ d \in CtxType /\ d.why = c.why /\ seq \in Int
      BY <1>0, LeSeqKeeps, LeSeqGains, LeSeqMoves
    <2> HIDE DEF d
    <2>2. e \in CtxType /\ e.out = d.out /\ e.list = d.list /\ e.why = c.why \cup {"timeout"}
      BY <1>0, <2>1 DEF CtxType, Causes
    <2> HIDE DEF e
    <2>3. Gains(d, e, X)
      BY <2>1, <2>2, GainsSame
    <2>4. Gains(e, InOrder(e, seq), X)
      BY <2>1, <2>2, InOrderGains
    <2> QED
      BY <2>1, <2>3, <2>4, GainsTrans
  <1>4. Gains(c, c, X)
    BY GainsSame
  <1> QED
    BY <1>1, <1>2, <1>3, <1>4

LEMMA IndicateGains ==
  ASSUME NEW c \in CtxType, NEW fr \in FrameType
  PROVE  Gains(c, Indicate(c, fr), {fr}) /\ Holds(Indicate(c, fr), fr)
  <1> DEFINE d == Indicate(c, fr)
  <1>1. d.out = Append(c.out, fr) /\ d.list = c.list /\ d.why = c.why
        /\ c.out \in Seq(FrameType)
    BY DEF Indicate, CtxType
  <1> HIDE DEF d
  <1>2. /\ DOMAIN d.out = 1 .. Len(c.out) + 1 /\ DOMAIN c.out = 1 .. Len(c.out)
        /\ Len(c.out) \in Nat /\ d.out[Len(c.out) + 1] = fr
        /\ \A i \in 1 .. Len(c.out) : d.out[i] = c.out[i]
    <2>1. ASSUME NEW s \in Seq(FrameType)
          PROVE  /\ Len(s) \in Nat /\ DOMAIN s = 1 .. Len(s)
                 /\ DOMAIN Append(s, fr) = 1 .. Len(s) + 1 /\ Append(s, fr)[Len(s) + 1] = fr
                 /\ \A i \in 1 .. Len(s) : Append(s, fr)[i] = s[i]
      OBVIOUS
    <2> QED
      BY <1>1, <2>1
  <1>3. /\ Len(c.out) + 1 \in DOMAIN d.out
        /\ \A i \in DOMAIN c.out : i \in DOMAIN d.out
        /\ \A i \in DOMAIN d.out : i \in DOMAIN c.out \/ i = Len(c.out) + 1
    BY <1>2
  <1>4. ASSUME NEW x PROVE (Holds(c, x) => Holds(d, x)) /\ (Holds(d, x) => Holds(c, x) \/ x = fr)
    BY <1>1, <1>2, <1>3 DEF Holds, In
  <1>5. Holds(d, fr)
    BY <1>2, <1>3 DEF Holds, In
  <1> QED
    BY <1>1, <1>4, <1>5 DEF Gains, d

LEMMA InsertFrame ==
  ASSUME NEW l \in Seq(FrameType), NEW k \in 0 .. Len(l), NEW x \in FrameType
  PROVE  /\ InsertAt(l, k + 1, x) \in Seq(FrameType)
         /\ Len(InsertAt(l, k + 1, x)) = Len(l) + 1
         /\ \A i \in 1 .. k : InsertAt(l, k + 1, x)[i] = l[i]
         /\ InsertAt(l, k + 1, x)[k + 1] = x
         /\ \A i \in k + 2 .. Len(l) + 1 : InsertAt(l, k + 1, x)[i] = l[i - 1]
  <1>1. ASSUME NEW U, NEW s \in Seq(U), NEW j \in 0 .. Len(s), NEW y \in U
        PROVE  InsertAt(s, j + 1, y) \in Seq(U)
    BY InsertSeq
  <1>2. ASSUME NEW U, NEW s \in Seq(U), NEW j \in 0 .. Len(s), NEW y \in U
        PROVE  Len(InsertAt(s, j + 1, y)) = Len(s) + 1
    BY InsertSeq
  <1>3. ASSUME NEW U, NEW s \in Seq(U), NEW j \in 0 .. Len(s), NEW y \in U
        PROVE  /\ \A i \in 1 .. j : InsertAt(s, j + 1, y)[i] = s[i]
               /\ InsertAt(s, j + 1, y)[j + 1] = y
    BY InsertSeq
  <1>4. ASSUME NEW U, NEW s \in Seq(U), NEW j \in 0 .. Len(s), NEW y \in U
        PROVE  \A i \in j + 2 .. Len(s) + 1 : InsertAt(s, j + 1, y)[i] = s[i - 1]
    BY InsertSeq
  <1> DEFINE r == InsertAt(l, k + 1, x)
  <1>5. r \in Seq(FrameType) /\ Len(r) = Len(l) + 1
    BY <1>1, <1>2
  <1>6. (\A i \in 1 .. k : r[i] = l[i]) /\ r[k + 1] = x
    BY <1>3
  <1>7. \A i \in k + 2 .. Len(l) + 1 : r[i] = l[i - 1]
    BY <1>4
  <1> QED
    BY <1>5, <1>6, <1>7

LEMMA InsertGains ==
  ASSUME NEW c \in CtxType, NEW fr \in FrameType
  PROVE  Gains(c, InsertSorted(c, fr), {fr})
  <1> DEFINE places == {j \in 0 .. Len(c.list) :
                          \A i \in 1 .. j : SEQ_SMALLER(Seq12(c.list[i]), Seq12(fr))}
             k == Max(places)
             l == InsertAt(c.list, k + 1, fr)
             d == [c EXCEPT !.list = l, !.pool = c.pool - 1]
  <1>0. c.list \in Seq(FrameType) /\ Len(c.list) \in Nat /\ DOMAIN c.list = 1 .. Len(c.list)
    BY DEF CtxType
  <1>1. k \in 0 .. Len(c.list)
    <2>1. 0 \in places /\ places \in SUBSET (0 .. Len(c.list))
      BY <1>0
    <2> HIDE DEF places
    <2> QED
      BY <1>0, <2>1, MaxIn
  <1>2. InsertSorted(c, fr) \in {c, d}
    BY DEF InsertSorted
  <1> HIDE DEF k
  <1>3. /\ l \in Seq(FrameType) /\ Len(l) = Len(c.list) + 1
        /\ \A i \in 1 .. k : l[i] = c.list[i]
        /\ l[k + 1] = fr
        /\ \A i \in k + 2 .. Len(c.list) + 1 : l[i] = c.list[i - 1]
    BY <1>0, <1>1, InsertFrame, ZenonT(30)
  <1>4. d.out = c.out /\ d.list = l /\ d.why = c.why
    BY DEF CtxType
  <1> HIDE DEF l, d
  <1>5. ASSUME NEW i \in DOMAIN c.list PROVE \E j \in DOMAIN l : l[j] = c.list[i]
    <2>1. CASE i <= k
      <3>1. i \in 1 .. k /\ i \in DOMAIN l
        BY <1>0, <1>1, <1>3, <2>1
      <3> QED
        BY <1>3, <3>1
    <2>2. CASE i > k
      <3>1. i + 1 \in k + 2 .. Len(c.list) + 1 /\ i + 1 \in DOMAIN l /\ (i + 1) - 1 = i
        BY <1>0, <1>1, <1>3, <2>2
      <3> QED
        BY <1>3, <3>1
    <2> QED
      BY <1>0, <1>1, <2>1, <2>2
  <1>6. ASSUME NEW i \in DOMAIN l PROVE l[i] = fr \/ \E j \in DOMAIN c.list : c.list[j] = l[i]
    <2>1. CASE i <= k
      <3>1. i \in 1 .. k /\ i \in DOMAIN c.list
        BY <1>0, <1>1, <1>3, <2>1
      <3> QED
        BY <1>3, <3>1
    <2>2. CASE i = k + 1
      BY <1>3, <2>2
    <2>3. CASE i > k + 1
      <3>1. i \in k + 2 .. Len(c.list) + 1 /\ i - 1 \in DOMAIN c.list
        BY <1>0, <1>1, <1>3, <2>3
      <3> QED
        BY <1>3, <3>1
    <2> QED
      BY <1>0, <1>1, <1>3, <2>1, <2>2, <2>3
  <1>7. ASSUME NEW x PROVE (Holds(c, x) => Holds(d, x)) /\ (Holds(d, x) => Holds(c, x) \/ x = fr)
    BY <1>4, <1>5, <1>6 DEF Holds, In
  <1>8. Gains(c, d, {fr}) /\ Gains(c, c, {fr})
    BY <1>4, <1>7 DEF Gains
  <1> QED
    BY <1>2, <1>8

\* A frame is put into the list, or passed up with all that is not later.
LEMMA EnqueueWays ==
  ASSUME NEW c \in CtxType, NEW fr \in FrameType
  PROVE  \/ c.pool > 0 /\ Enqueue(c, fr) = InsertSorted(c, fr)
         \/ \E a \in CtxType :
              /\ a.list = c.list /\ a.out = c.out /\ a.why = c.why
              /\ a.LastIndSeq = c.LastIndSeq /\ a.BAWinSize = c.BAWinSize
              /\ Enqueue(c, fr).list = LeSeq(a, Seq12(fr)).list
              /\ Enqueue(c, fr).out = Append(LeSeq(a, Seq12(fr)).out, fr)
              /\ Enqueue(c, fr).LastIndSeq = Seq12(fr)
              /\ Enqueue(c, fr).why = c.why \cup {"direct"} \cup Again(c, Seq12(fr))
  <1> DEFINE leak == IF c.pool > 0 THEN 1 ELSE 0
             a == [c EXCEPT !.pool = c.pool - leak, !.leaked = c.leaked + leak]
             d == LeSeq(a, Seq12(fr))
             w == d.why \cup {"direct"} \cup Again(c, Seq12(fr))
             e == [d EXCEPT !.LastIndSeq = Seq12(fr), !.why = w]
  <1>1. CASE c.pool > 0 /\ fr.n \notin EapFrames
    BY <1>1 DEF Enqueue
  <1>2. CASE ~(c.pool > 0 /\ fr.n \notin EapFrames)
    <2>0. c.pool \in Nat /\ c.leaked \in Nat
      BY DEF CtxType
    <2>1. leak \in Nat /\ c.pool - leak \in Nat /\ c.leaked + leak \in Nat
      BY <2>0
    <2>2. Enqueue(c, fr) = Indicate(e, fr)
      BY <1>2 DEF Enqueue
    <2> HIDE DEF leak
    <2>3. a \in CtxType
      BY <2>1 DEF CtxType
    <2>4. /\ a.list = c.list /\ a.out = c.out /\ a.why = c.why
          /\ a.LastIndSeq = c.LastIndSeq /\ a.BAWinSize = c.BAWinSize
      BY DEF CtxType
    <2> HIDE DEF a
    <2>5. Seq12(fr) \in 0 .. MAXSEQ /\ Seq12(fr) \in Int
      BY FrameSeq
    <2>6. d \in CtxType /\ d.why = a.why
      BY <2>3, <2>5, LeSeqKeeps, LeSeqMoves
    <2>7. d.list = LeSeq(a, Seq12(fr)).list /\ d.out = LeSeq(a, Seq12(fr)).out
      OBVIOUS
    <2>8. w = c.why \cup {"direct"} \cup Again(c, Seq12(fr))
      BY <2>4, <2>6
    <2> HIDE DEF d, w
    <2>9. e.list = d.list /\ e.out = d.out /\ e.LastIndSeq = Seq12(fr) /\ e.why = w
      BY <2>6 DEF CtxType
    <2>10. /\ Indicate(e, fr).list = e.list /\ Indicate(e, fr).why = e.why
           /\ Indicate(e, fr).LastIndSeq = e.LastIndSeq
           /\ Indicate(e, fr).out = Append(e.out, fr)
      BY <2>6 DEF CtxType, Indicate
    <2> HIDE DEF e
    <2> QED
      BY <2>2, <2>3, <2>4, <2>7, <2>8, <2>9, <2>10
  <1> QED
    BY <1>1, <1>2

LEMMA AppendGains ==
  ASSUME NEW c \in CtxType, NEW d, NEW fr \in FrameType,
         d.out = Append(c.out, fr), d.list = c.list, c.why \subseteq d.why
  PROVE  Gains(c, d, {fr}) /\ Holds(d, fr)
  <1> DEFINE e == Indicate(c, fr)
  <1>1. Gains(c, e, {fr}) /\ Holds(e, fr)
    BY IndicateGains
  <1>2. d.out = e.out /\ d.list = e.list /\ e.why = c.why
    BY DEF CtxType, Indicate
  <1> HIDE DEF e
  <1>3. Gains(e, d, {fr})
    BY <1>2, GainsSame
  <1> QED
    BY <1>1, <1>3, GainsTrans DEF Gains

LEMMA EnqueueGains ==
  ASSUME NEW c \in CtxType, NEW fr \in FrameType
  PROVE  Gains(c, Enqueue(c, fr), {fr})
  <1>1. CASE Enqueue(c, fr) = InsertSorted(c, fr)
    BY <1>1, InsertGains
  <1>2. ASSUME NEW a \in CtxType,
               a.list = c.list, a.out = c.out, a.why = c.why,
               Enqueue(c, fr).list = LeSeq(a, Seq12(fr)).list,
               Enqueue(c, fr).out = Append(LeSeq(a, Seq12(fr)).out, fr),
               c.why \subseteq Enqueue(c, fr).why
        PROVE  Gains(c, Enqueue(c, fr), {fr})
    <2> DEFINE d == LeSeq(a, Seq12(fr))
    <2>1. Seq12(fr) \in Int
      BY FrameSeq
    <2>2. Gains(c, a, {fr})
      BY <1>2, GainsSame
    <2>3. Gains(a, d, {fr}) /\ d \in CtxType /\ d.why = a.why
      BY <2>1, LeSeqGains, LeSeqKeeps, LeSeqMoves
    <2> HIDE DEF d
    <2>4. Gains(d, Enqueue(c, fr), {fr})
      BY <1>2, <2>3, AppendGains DEF d
    <2> QED
      BY <2>2, <2>3, <2>4, GainsTrans
  <1> QED
    BY <1>1, <1>2, EnqueueWays

LEMMA WithinGains ==
  ASSUME NEW c \in CtxType, NEW fr \in FrameType
  PROVE  Gains(c, WithinWindow(c, fr), {fr})
  <1> DEFINE d == Enqueue(c, fr)
             e == [d EXCEPT !.why = d.why \cup {"stuck"}]
  <1>1. WithinWindow(c, fr) \in {d, e}
    BY DEF WithinWindow
  <1>2. Gains(c, d, {fr}) /\ d \in CtxType
    BY EnqueueKeeps, EnqueueGains
  <1> HIDE DEF d
  <1>3. e.out = d.out /\ e.list = d.list /\ d.why \subseteq e.why
    BY <1>2 DEF CtxType
  <1> HIDE DEF e
  <1>4. Gains(d, e, {fr})
    BY <1>3, GainsSame
  <1> QED
    BY <1>1, <1>2, <1>4, GainsTrans

LEMMA WinStartOK ==
  ASSUME NEW c \in CtxType, NEW fr \in FrameType
  PROVE  WinStartSeq(c, fr) \in 0 .. MAXSEQ /\ WinStartSeq(c, fr) \in Int
  <1>1. c.BAWinSize \in Int /\ Seq12(fr) \in Int
    BY FrameSeq DEF CtxType, Windows
  <1>2. Seq12(fr) - c.BAWinSize \in Int
    BY <1>1
  <1> QED
    BY <1>2, SequenceNumbers DEF WinStartSeq

LEMMA BeyondGains ==
  ASSUME NEW c \in CtxType, NEW fr \in FrameType
  PROVE  Gains(c, BeyondWindow(c, fr), {fr})
  <1> DEFINE s == WinStartSeq(c, fr)
             a == LeSeq(c, s)
             b == [a EXCEPT !.LastIndSeq = s]
             d == Enqueue(b, fr)
  <1>1. s \in 0 .. MAXSEQ /\ s \in Int
    BY WinStartOK
  <1>2. BeyondWindow(c, fr) = InOrder(d, d.LastIndSeq)
    BY DEF BeyondWindow
  <1> HIDE DEF s
  <1>3. Gains(c, a, {fr}) /\ a \in CtxType
    BY <1>1, LeSeqKeeps, LeSeqGains
  <1> HIDE DEF a
  <1>4. b \in CtxType /\ b.out = a.out /\ b.list = a.list /\ b.why = a.why
    BY <1>1, <1>3 DEF CtxType
  <1> HIDE DEF b
  <1>5. Gains(a, b, {fr})
    BY <1>4, GainsSame
  <1>6. Gains(b, d, {fr}) /\ d \in CtxType
    BY <1>4, EnqueueKeeps, EnqueueGains
  <1> HIDE DEF d
  <1>7. Gains(d, InOrder(d, d.LastIndSeq), {fr})
    <2>1. d.LastIndSeq \in Int
      BY <1>6, SequenceNumbers DEF CtxType, RESET
    <2> QED
      BY <1>6, <2>1, InOrderGains
  <1> QED
    BY <1>2, <1>3, <1>5, <1>6, <1>7, GainsTrans

LEMMA AmpduGains ==
  ASSUME NEW c0 \in CtxType, NEW fr \in FrameType, NEW base
  PROVE  Gains(c0, Indicate_AMPDU(c0, fr, base), {fr})
  <1> DEFINE b == FlushTimeout(c0)
             c == [b EXCEPT !.age = 0]
             s == Seq12(fr)
             w == IF fr.n = base THEN c.why ELSE c.why \cup {"first"}
             d == [c EXCEPT !.LastIndSeq = s, !.why = w]
             e == [c EXCEPT !.LastIndSeq = s]
  <1>1. Indicate_AMPDU(c0, fr, base) \in
          {Indicate(d, fr), InOrder(Indicate(e, fr), s), c, WithinWindow(c, fr),
           BeyondWindow(c, fr)}
    BY DEF Indicate_AMPDU
  <1>2. Gains(c0, b, {fr}) /\ b \in CtxType
    BY FlushTimeoutKeeps, FlushGains DEF Keeps
  <1> HIDE DEF b
  <1>3. c \in CtxType /\ c.out = b.out /\ c.list = b.list /\ c.why = b.why
    <2>1. c \in CtxType
      BY <1>2, RecordAge DEF Keeps
    <2>2. c.out = b.out /\ c.list = b.list /\ c.why = b.why
      BY <1>2 DEF CtxType
    <2> QED
      BY <2>1, <2>2
  <1> HIDE DEF c
  <1>4. s \in 0 .. MAXSEQ /\ s \in Int /\ w \in SUBSET Causes /\ c.why \subseteq w
    <2>1. s \in 0 .. MAXSEQ /\ s \in Int
      BY FrameSeq
    <2>2. w \in SUBSET Causes /\ c.why \subseteq w
      BY <1>3 DEF CtxType, Causes
    <2> QED
      BY <2>1, <2>2
  <1> HIDE DEF c, s, w
  <1>5. Gains(c0, c, {fr})
    <2>1. Gains(b, c, {fr})
      BY <1>3, GainsSame
    <2> QED
      BY <1>2, <2>1, GainsTrans
  <1>6. /\ d \in CtxType /\ d.out = c.out /\ d.list = c.list /\ d.why = w
        /\ e \in CtxType /\ e.out = c.out /\ e.list = c.list /\ e.why = c.why
    BY <1>3, <1>4 DEF CtxType
  <1> HIDE DEF d, e
  <1>7. Gains(c, d, {fr}) /\ Gains(c, e, {fr})
    BY <1>4, <1>6, GainsSame
  <1>8. /\ Gains(d, Indicate(d, fr), {fr}) /\ Gains(e, Indicate(e, fr), {fr})
        /\ Indicate(e, fr) \in CtxType
    BY <1>6, IndicateKeeps, IndicateGains DEF Keeps
  <1>9. Gains(Indicate(e, fr), InOrder(Indicate(e, fr), s), {fr})
    BY <1>4, <1>8, InOrderGains
  <1>10. Gains(c, WithinWindow(c, fr), {fr}) /\ Gains(c, BeyondWindow(c, fr), {fr})
    BY <1>3, WithinGains, BeyondGains
  <1>11. Gains(c, Indicate(d, fr), {fr}) /\ Gains(c, InOrder(Indicate(e, fr), s), {fr})
    BY <1>7, <1>8, <1>9, GainsTrans
  <1> QED
    BY <1>1, <1>5, <1>10, <1>11, GainsTrans

LEMMA BlockAckReqGains ==
  ASSUME NEW c \in CtxType, NEW start \in 0 .. MAXSEQ
  PROVE  Gains(c, BlockAckReq(c, start), {})
  <1> DEFINE d == LeSeq(c, start)
             s == IF start = 0 THEN MAXSEQ ELSE start - 1
             w == c.why \cup Again(c, start)
             e == [d EXCEPT !.LastIndSeq = s, !.why = w]
  <1>1. BlockAckReq(c, start) \in {c, e}
    BY DEF BlockAckReq
  <1>2. Gains(c, d, {}) /\ d \in CtxType /\ d.why = c.why
    <2>1. start \in Int
      OBVIOUS
    <2> QED
      BY <2>1, LeSeqKeeps, LeSeqGains, LeSeqMoves
  <1> HIDE DEF d, s
  <1>3. e.out = d.out /\ e.list = d.list /\ d.why \subseteq e.why
    BY <1>2 DEF CtxType
  <1> HIDE DEF e
  <1>4. Gains(d, e, {}) /\ Gains(c, c, {})
    BY <1>3, GainsSame
  <1> QED
    BY <1>1, <1>2, <1>4, GainsTrans

-----------------------------------------------------------------------------
(* The position of a session and the frame it stands for                   *)

\* What stays in the list and what is passed up when the frames up to q are.
LEMMA LeSeqAfter ==
  ASSUME NEW c \in CtxType, NEW f, NEW T \in Int, NEW q \in Int, NEW T2 \in Int,
         Follows(f, c.list, T, 1, c.BAWinSize), T < q, 2 * (q - T) <= M, T <= T2
  PROVE  LET a == LeSeq(c, q % M) IN
         /\ a \in CtxType /\ a.why = c.why /\ a.BAWinSize = c.BAWinSize
         /\ a.LastIndSeq = c.LastIndSeq
         /\ Follows(f, a.list, T2, (q + 1) - T2, c.BAWinSize)
         /\ \A i \in DOMAIN a.list : \E j \in DOMAIN c.list : a.list[i] = c.list[j]
         /\ \A i \in DOMAIN a.out : \/ \E j \in DOMAIN c.out : a.out[i] = c.out[j]
                                    \/ \E j \in DOMAIN c.list :
                                          a.out[i] = c.list[j] /\ c.list[j].n <= q
  <1> DEFINE a == LeSeq(c, q % M)
  <1>1. PICK k \in 0 .. Len(c.list) :
            /\ a = Announce(c, k)
            /\ \A i \in 1 .. k : c.list[i].n <= q
            /\ \A i \in k + 1 .. Len(c.list) : c.list[i].n >= q + 1
    BY LeSeqUpTo
  <1>2. /\ Moves(c.out, c.list, k, a.out, a.list) /\ a \in CtxType /\ a.why = c.why
        /\ a.LastIndSeq = c.LastIndSeq /\ a.BAWinSize = c.BAWinSize
    BY <1>1, AnnounceMoves
  <1> HIDE DEF a
  <1>3. /\ c.out \in Seq(FrameType) /\ c.list \in Seq(FrameType) /\ c.BAWinSize \in Int
        /\ a.out \in Seq(FrameType) /\ a.list \in Seq(FrameType) /\ (q + 1) - T2 \in Int
        /\ From(c.list, k, T2, (q + 1) - T2)
    <2>1. T2 + ((q + 1) - T2) = q + 1
      OBVIOUS
    <2>2. c.BAWinSize \in Windows
      BY DEF CtxType
    <2> QED
      BY <1>1, <1>2, <2>1, <2>2, WindowHalf DEF CtxType, From
  <1>4. Follows(f, a.list, T2, (q + 1) - T2, c.BAWinSize)
    BY <1>2, <1>3, FollowsMoves
  <1>5. /\ Len(c.out) \in Nat /\ Len(c.list) \in Nat /\ k \in Nat /\ k <= Len(c.list)
        /\ DOMAIN c.out = 1 .. Len(c.out) /\ DOMAIN c.list = 1 .. Len(c.list)
        /\ DOMAIN a.out = 1 .. Len(c.out) + k
    <2>1. Len(a.out) = Len(c.out) + k
      BY <1>2 DEF Moves
    <2>2. DOMAIN c.out = 1 .. Len(c.out) /\ DOMAIN a.out = 1 .. Len(a.out) /\ Len(c.out) \in Nat
      BY <1>3
    <2>3. DOMAIN c.list = 1 .. Len(c.list) /\ Len(c.list) \in Nat /\ k \in Nat /\ k <= Len(c.list)
      BY <1>3
    <2> QED
      BY <2>1, <2>2, <2>3
  <1>6. ASSUME NEW i \in DOMAIN a.out
        PROVE  \/ \E j \in DOMAIN c.out : a.out[i] = c.out[j]
               \/ \E j \in DOMAIN c.list : a.out[i] = c.list[j] /\ c.list[j].n <= q
    <2>1. CASE i <= Len(c.out)
      <3>1. i \in 1 .. Len(c.out)
        BY <1>5, <2>1
      <3> QED
        BY <1>2, <1>5, <3>1 DEF Moves
    <2>2. CASE i > Len(c.out)
      <3>1. i - Len(c.out) \in 1 .. k /\ i - Len(c.out) \in DOMAIN c.list
            /\ i \in Len(c.out) + 1 .. Len(c.out) + k
        BY <1>5, <2>2
      <3>2. a.out[i] = c.list[i - Len(c.out)] /\ c.list[i - Len(c.out)].n <= q
        BY <1>1, <1>2, <3>1 DEF Moves
      <3> QED
        BY <3>1, <3>2
    <2> QED
      BY <1>5, <2>1, <2>2
  <1>7. \A i \in DOMAIN a.list : \E j \in DOMAIN c.list : a.list[i] = c.list[j]
    BY <1>2, <1>3, RestMoves, SMTT(30)
  <1> QED
    BY <1>2, <1>4, <1>6, <1>7 DEF a

LEMMA LeSeqRises ==
  ASSUME NEW c \in CtxType, NEW f, NEW T \in Int, NEW q \in Int, NEW T2 \in Int,
         Follows(f, c.list, T, 1, c.BAWinSize), T < q, 2 * (q - T) <= M, T <= T2,
         NEW S \in SUBSET Int, NEW k \in Nat, NEW k2 \in Nat, k <= k2,
         Rises(S, c.out, c.list, T, k),
         \A i \in DOMAIN c.list : c.list[i].n <= q => c.list[i].n <= T2 + k2
  PROVE  Rises(S, LeSeq(c, q % M).out, LeSeq(c, q % M).list, T2, k2)
  <1> DEFINE a == LeSeq(c, q % M)
  <1>1. PICK j \in 0 .. Len(c.list) : a = Announce(c, j) /\ \A i \in 1 .. j : c.list[i].n <= q
    BY LeSeqUpTo
  <1>2. Moves(c.out, c.list, j, a.out, a.list) /\ a \in CtxType
    BY <1>1, AnnounceMoves
  <1> HIDE DEF a
  <1>3. /\ c.out \in Seq(FrameType) /\ c.list \in Seq(FrameType)
        /\ a.out \in Seq(FrameType) /\ a.list \in Seq(FrameType)
    BY <1>2 DEF CtxType
  <1>4. UpTo(c.list, j, T2, k2)
    <2>1. \A i \in 1 .. j : i \in DOMAIN c.list
      BY <1>3
    <2> QED
      BY <1>1, <2>1 DEF UpTo
  <1>5. Grows(c.list)
    BY DEF Follows, Grows
  <1>6. Rises(S, a.out, a.list, T2, k2)
    BY <1>2, <1>3, <1>4, <1>5, RisesMoves
  <1> QED
    BY <1>6 DEF a

Slack(w) == IF "again" \in w THEN 1 ELSE 0
Skips == {"first", "timeout", "direct"}

\* The position of c stands for frame T; S was passed up before, b is the
\* originator's oldest frame and x its next one.  The list follows T, what was
\* passed up rises to T, and nothing from b to T was skipped.
Good(f, S, b, x, c, T, lo) ==
  /\ c.LastIndSeq = T % M
  /\ Follows(f, c.list, T, lo, c.BAWinSize)
  /\ T < x
  /\ \A i \in DOMAIN c.list : c.list[i].n < x
  /\ "refresh" \notin c.why => Rises(S, c.out, c.list, T, Slack(c.why))
  /\ c.why \cap Skips = {} =>
       \A m \in b .. T : m \in S \/ \E i \in DOMAIN c.out : c.out[i].n = m

LEMMA GoodSame ==
  ASSUME NEW f, NEW S, NEW b, NEW x, NEW c, NEW d, NEW T, NEW lo, Good(f, S, b, x, c, T, lo),
         d.LastIndSeq = c.LastIndSeq, d.list = c.list, d.out = c.out, d.why = c.why,
         d.BAWinSize = c.BAWinSize
  PROVE  Good(f, S, b, x, d, T, lo)
  BY DEF Good

LEMMA GoodWeaker ==
  ASSUME NEW f, NEW S, NEW b \in Int, NEW x \in Int, NEW y \in Int, NEW c \in CtxType,
         NEW T \in Int, NEW lo \in Int, NEW lo2 \in Int,
         Good(f, S, b, x, c, T, lo), lo2 <= lo, x <= y
  PROVE  Good(f, S, b, y, c, T, lo2)
  <1>1. c.list \in Seq(FrameType) /\ c.BAWinSize \in Windows
    BY DEF CtxType
  <1>2. c.BAWinSize \in Int
    BY <1>1, WindowHalf
  <1>3. Follows(f, c.list, T, lo2, c.BAWinSize)
    BY <1>1, <1>2, FollowsWeaker DEF Good
  <1>4. \A i \in DOMAIN c.list : c.list[i].n \in Int
    BY <1>1, NumberOf
  <1>5. T < y /\ \A i \in DOMAIN c.list : c.list[i].n < y
    BY <1>4 DEF Good
  <1> QED
    BY <1>3, <1>5 DEF Good

\* The frames that continue T go up and T moves with them.
LEMMA InOrderGood ==
  ASSUME NEW c \in CtxType, NEW f, NEW S \in SUBSET Int, NEW b \in Int, NEW x \in Int,
         NEW T \in Int, Good(f, S, b, x, c, T, 1)
  PROVE  \E T2 \in Int : T <= T2 /\ Good(f, S, b, x, InOrder(c, T % M), T2, 2)
  <1> DEFINE l == c.list
             d == InOrder(c, T % M)
             W == c.BAWinSize
  <1>0. /\ l \in Seq(FrameType) /\ c.out \in Seq(FrameType) /\ W \in Int /\ Len(l) \in Nat
        /\ DOMAIN l = 1 .. Len(l) /\ \A i \in DOMAIN l : l[i].n \in Int
    <2>1. l \in Seq(FrameType) /\ W \in Windows /\ c.out \in Seq(FrameType)
      BY DEF CtxType
    <2> HIDE DEF l, W
    <2> QED
      BY <2>1, NumberOf, WindowHalf
  <1>1. PICK k \in 0 .. Len(l) :
            /\ d = IF k = 0 THEN c
                   ELSE [Announce(c, k) EXCEPT !.LastIndSeq = (T + k) % M]
            /\ \A i \in 1 .. k : l[i].n = T + i
            /\ \A i \in k + 1 .. Len(l) : l[i].n >= T + k + 2
    BY InOrderFrom DEF Good
  <1>2. CASE k = 0
    <2>1. d = c /\ \A i \in DOMAIN l : l[i].n >= T + 2
      BY <1>0, <1>1, <1>2
    <2>2. \A i \in DOMAIN l : l[i].flow = f /\ l[i].n \in T + 1 .. T + W
      BY DEF Good, Follows
    <2>3. \A i \in DOMAIN l : l[i].n \in T + 2 .. T + W
      <3> HIDE DEF l, W
      <3> QED
        BY <1>0, <2>1, <2>2
    <2>4. Follows(f, l, T, 2, W)
      BY <2>2, <2>3 DEF Good, Follows
    <2>5. Good(f, S, b, x, c, T, 2)
      BY <2>4 DEF Good
    <2> QED
      BY <2>1, <2>5
  <1>3. CASE k # 0
    <2> DEFINE a == Announce(c, k)
               T2 == T + k
    <2>1. /\ Moves(c.out, l, k, a.out, a.list) /\ a \in CtxType /\ a.why = c.why
          /\ a.BAWinSize = W
      BY AnnounceMoves
    <2>2. d = [a EXCEPT !.LastIndSeq = T2 % M]
      BY <1>1, <1>3
    <2> HIDE DEF a
    <2>3. /\ d.LastIndSeq = T2 % M /\ d.list = a.list /\ d.out = a.out /\ d.why = c.why
          /\ d.BAWinSize = W /\ a.out \in Seq(FrameType) /\ a.list \in Seq(FrameType)
      BY <2>1, <2>2 DEF CtxType
    <2> HIDE DEF d, l, W
    <2>4. T2 \in Int /\ T <= T2 /\ k \in 1 .. k /\ k \in DOMAIN l /\ k \in Nat
      BY <1>0, <1>3
    <2>5. Follows(f, a.list, T2, 2, W)
      <3>1. Follows(f, l, T, 1, W)
        BY DEF Good, l, W
      <3>2. From(l, k, T2, 2)
        BY <1>1 DEF From
      <3> HIDE DEF T2
      <3> QED
        BY <1>0, <2>1, <2>3, <2>4, <3>1, <3>2, FollowsMoves
    <2>6. T2 < x
      <3>1. l[k].n = T + k /\ l[k].n < x
        BY <1>1, <2>4 DEF Good, l
      <3> QED
        BY <3>1
    <2>7. \A i \in DOMAIN a.list : a.list[i].n < x
      <3>1. \A i \in DOMAIN a.list : \E j \in DOMAIN l : a.list[i] = l[j]
        BY <1>0, <2>1, <2>3, RestMoves, ZenonT(30)
      <3> QED
        BY <3>1 DEF Good, l
    <2>8. ASSUME "refresh" \notin c.why
          PROVE  Rises(S, a.out, a.list, T2, Slack(c.why))
      <3> DEFINE z == Slack(c.why)
      <3>1. z \in Nat /\ z <= z
        BY DEF Slack
      <3>2. Rises(S, c.out, l, T, z)
        BY <2>8 DEF Good, l
      <3> HIDE DEF z
      <3>3. UpTo(l, k, T2, z)
        BY <1>1, <2>4, <3>1 DEF UpTo
      <3>4. Grows(l)
        BY DEF Good, Follows, Grows, l
      <3> HIDE DEF T2
      <3> QED
        BY <1>0, <2>1, <2>3, <2>4, <3>1, <3>2, <3>3, <3>4, RisesMoves, SMTT(30) DEF z
    <2>9. ASSUME c.why \cap Skips = {}, NEW m \in b .. T2
          PROVE  m \in S \/ \E i \in DOMAIN a.out : a.out[i].n = m
      <3>0. /\ Len(c.out) \in Nat /\ DOMAIN a.out = 1 .. Len(c.out) + k
            /\ DOMAIN c.out = 1 .. Len(c.out)
            /\ \A i \in DOMAIN c.out : i \in DOMAIN a.out /\ a.out[i] = c.out[i]
        <4>1. c.out \in Seq(FrameType) /\ a.out \in Seq(FrameType) /\ Len(a.out) = Len(c.out) + k
              /\ \A i \in 1 .. Len(c.out) : a.out[i] = c.out[i]
          BY <1>0, <2>1, <2>3 DEF Moves
        <4>2. DOMAIN c.out = 1 .. Len(c.out) /\ DOMAIN a.out = 1 .. Len(a.out) /\ Len(c.out) \in Nat
          BY <4>1
        <4> QED
          BY <2>4, <4>1, <4>2, SMTT(30)
      <3>1. CASE m <= T
        <4>1. m \in b .. T
          BY <3>1
        <4>2. m \in S \/ \E i \in DOMAIN c.out : c.out[i].n = m
          BY <2>9, <4>1 DEF Good
        <4> QED
          BY <3>0, <4>2
      <3>2. CASE m > T
        <4> DEFINE i == m - T
        <4>1. i \in 1 .. k /\ m = T + i /\ Len(c.out) + i \in DOMAIN a.out
              /\ Len(c.out) + i \in Len(c.out) + 1 .. Len(c.out) + k
              /\ (Len(c.out) + i) - Len(c.out) = i
          BY <2>4, <3>0, <3>2
        <4> HIDE DEF i
        <4>2. a.out[Len(c.out) + i] = l[i] /\ l[i].n = m
          BY <1>1, <2>1, <4>1 DEF Moves
        <4> QED
          BY <4>1, <4>2
      <3> QED
        BY <3>1, <3>2
    <2>10. Good(f, S, b, x, d, T2, 2)
      BY <2>3, <2>5, <2>6, <2>7, <2>8, <2>9 DEF Good
    <2> QED
      BY <2>4, <2>10 DEF d
  <1> QED
    BY <1>2, <1>3

\* A frame of the window is in its place in the list, or was there already.
LEMMA InsertFollows ==
  ASSUME NEW c \in CtxType, NEW fr \in FrameType, NEW T \in Int,
         Follows(fr.flow, c.list, T, 1, c.BAWinSize), fr.n \in T + 1 .. T + c.BAWinSize
  PROVE  LET d == InsertSorted(c, fr) IN
         /\ Follows(fr.flow, d.list, T, 1, c.BAWinSize)
         /\ \E i \in DOMAIN d.list : d.list[i] = fr
         /\ \A i \in DOMAIN d.list : d.list[i] = fr \/ \E j \in DOMAIN c.list : d.list[i] = c.list[j]
         /\ d.LastIndSeq = c.LastIndSeq /\ d.why = c.why /\ d.out = c.out
         /\ d.BAWinSize = c.BAWinSize
  <1> DEFINE l == c.list
             W == c.BAWinSize
             t == Seq12(fr)
             n == fr.n
             G == {i \in 1 .. Len(l) : SEQ_SMALLER(Seq12(l[i]), t)}
             run == {j \in 0 .. Len(l) : \A i \in 1 .. j : SEQ_SMALLER(Seq12(l[i]), t)}
             k == Max(run)
             r == InsertAt(l, k + 1, fr)
  <1>0. /\ l \in Seq(FrameType) /\ Len(l) \in Nat /\ DOMAIN l = 1 .. Len(l)
        /\ W \in Nat /\ 2 * (W + 1) <= M /\ M \in Nat
        /\ \A i \in 1 .. Len(l) : l[i].n \in Int /\ Seq12(l[i]) = l[i].n % M /\ l[i] \in FrameType
    <2>1. l \in Seq(FrameType) /\ W \in Windows
      BY DEF CtxType
    <2> HIDE DEF l, W
    <2> QED
      BY <2>1, NumberOf, WindowHalf
  <1>n. n \in Int /\ t = n % M /\ n \in T + 1 .. T + W
    BY <1>0 DEF Seq12
  <1>1. run = Runs(Len(l), G)
    <2> SUFFICES ASSUME NEW j \in 0 .. Len(l), NEW i \in 1 .. j PROVE i \in 1 .. Len(l)
      BY DEF Runs
    <2> QED
      BY <1>0
  <1>2. ASSUME NEW i \in 1 .. Len(l)
        PROVE  /\ l[i].n \in T + 1 .. T + W
               /\ i \in G <=> l[i].n < n
               /\ Seq12(l[i]) = t <=> l[i].n = n
    <2> DEFINE a == l[i].n
    <2>1. a \in Int /\ a \in T + 1 .. T + W /\ Seq12(l[i]) = a % M
      BY <1>0 DEF Follows
    <2>2. i \in G <=> SEQ_SMALLER(a % M, n % M)
      BY <1>n, <2>1
    <2> HIDE DEF M, a, W, n, G
    <2>3. -M < a - n /\ a - n < M /\ 2 * (a - n) < M /\ 2 * (n - a) <= M
      BY <1>0, <1>n, <2>1
    <2>4. (a % M = n % M <=> a = n) /\ (SEQ_SMALLER(a % M, n % M) <=> a < n)
      BY <1>n, <2>1, <2>3, SameNumber, SmallerNumber
    <2> QED
      BY <1>n, <2>1, <2>2, <2>4 DEF a
  <1> HIDE DEF run, G
  <1>3. k \in 0 .. Len(l) /\ (k < Len(l) => k + 1 \notin G) /\ \A i \in 1 .. k : i \in G
    <2>1. k = Max(Runs(Len(l), G))
      BY <1>1
    <2> HIDE DEF k, l
    <2> QED
      BY <1>0, <2>1, LongestRun
  <1> HIDE DEF k
  <1>4. InsertSorted(c, fr) =
          IF k < Len(l) /\ Seq12(l[k + 1]) = t THEN c
          ELSE [c EXCEPT !.list = r, !.pool = c.pool - 1]
    BY DEF InsertSorted, k, run
  <1>5. CASE k < Len(l) /\ Seq12(l[k + 1]) = t
    <2>1. k + 1 \in 1 .. Len(l)
      BY <1>0, <1>3, <1>5
    <2>2. l[k + 1] \in FrameType /\ l[k + 1].n = n /\ l[k + 1].flow = fr.flow
      BY <1>0, <1>2, <1>5, <2>1 DEF Follows
    <2>3. l[k + 1] = fr
      BY <2>2 DEF FrameType
    <2> QED
      BY <1>0, <1>4, <1>5, <2>1, <2>3
  <1>6. CASE ~(k < Len(l) /\ Seq12(l[k + 1]) = t)
    <2> DEFINE d == [c EXCEPT !.list = r, !.pool = c.pool - 1]
    <2>1. InsertSorted(c, fr) = d
      BY <1>4, <1>6
    <2>2. /\ d.list = r /\ d.LastIndSeq = c.LastIndSeq /\ d.why = c.why /\ d.out = c.out
          /\ d.BAWinSize = W
      BY DEF CtxType
    <2>3. /\ r \in Seq(FrameType) /\ Len(r) = Len(l) + 1
          /\ \A i \in 1 .. k : r[i] = l[i]
          /\ r[k + 1] = fr
          /\ \A i \in k + 2 .. Len(l) + 1 : r[i] = l[i - 1]
      <3>1. l \in Seq(FrameType) /\ k \in 0 .. Len(l) /\ fr \in FrameType
        BY <1>0, <1>3
      <3> HIDE DEF l
      <3> QED
        BY <3>1, InsertFrame
    <2> HIDE DEF r, d
    <2>4. DOMAIN r = 1 .. Len(l) + 1 /\ k \in Nat /\ k + 1 \in DOMAIN r
      BY <1>0, <1>3, <2>3
    <2>5. ASSUME NEW i \in 1 .. k PROVE i \in 1 .. Len(l) /\ l[i].n < n
      <3>1. i \in 1 .. Len(l)
        BY <1>0, <1>3
      <3> QED
        BY <1>2, <1>3, <3>1
    <2>6. ASSUME NEW i \in k + 1 .. Len(l) PROVE i \in 1 .. Len(l) /\ n < l[i].n
      <3>1. k + 1 \in 1 .. Len(l) /\ i \in 1 .. Len(l) /\ k < Len(l) /\ (i = k + 1 \/ k + 1 < i)
        BY <1>0, <1>3
      <3> DEFINE a == l[i].n
                 b == l[k + 1].n
      <3>2. a \in Int /\ b \in Int /\ ~(b < n) /\ b # n
        BY <1>0, <1>2, <1>3, <1>6, <3>1
      <3>3. (k + 1 < i => b < a) /\ (i = k + 1 => a = b)
        BY <1>0, <3>1 DEF Follows
      <3> HIDE DEF a, b, n
      <3>4. n < a
        BY <1>n, <3>1, <3>2, <3>3
      <3> QED
        BY <3>1, <3>4 DEF a
    <2> DEFINE Old(i) == i \in 1 .. k /\ i \in 1 .. Len(l) /\ r[i] = l[i] /\ l[i].n < n
               New(i) == i = k + 1 /\ r[i] = fr
               Rest(i) == /\ i > k + 1 /\ i - 1 \in 1 .. Len(l) /\ r[i] = l[i - 1]
                          /\ n < l[i - 1].n
    <2>7. ASSUME NEW i \in DOMAIN r PROVE Old(i) \/ New(i) \/ Rest(i)
      <3>1. CASE i <= k
        <4>1. i \in 1 .. k
          BY <2>4, <3>1
        <4> QED
          BY <2>3, <2>5, <4>1
      <3>2. CASE i = k + 1
        BY <2>3, <3>2
      <3>3. CASE i > k + 1
        <4>1. i \in k + 2 .. Len(l) + 1 /\ i - 1 \in k + 1 .. Len(l)
          BY <1>0, <2>4, <3>3, SMTT(30)
        <4> QED
          BY <2>3, <2>6, <3>3, <4>1
      <3> QED
        BY <2>4, <3>1, <3>2, <3>3
    <2>8. ASSUME NEW i \in DOMAIN r
          PROVE  r[i].flow = fr.flow /\ r[i].n \in T + 1 .. T + W
      <3>1. CASE New(i)
        BY <1>n, <3>1
      <3>2. ASSUME NEW j \in 1 .. Len(l), r[i] = l[j]
            PROVE  r[i].flow = fr.flow /\ r[i].n \in T + 1 .. T + W
        BY <1>0, <1>2, <3>2 DEF Follows
      <3> QED
        BY <2>7, <3>1, <3>2
    <2>9. ASSUME NEW i \in DOMAIN r, NEW j \in DOMAIN r, i < j PROVE r[i].n < r[j].n
      <3>0. i \in Int /\ j \in Int
        BY <2>4
      <3>1. ASSUME Old(i), Old(j) PROVE r[i].n < r[j].n
        BY <1>0, <2>9, <3>1 DEF Follows
      <3>2. ASSUME Old(i), New(j) PROVE r[i].n < r[j].n
        BY <3>2
      <3>3. ASSUME Old(i), Rest(j) PROVE r[i].n < r[j].n
        <4> DEFINE a == l[i].n
                   b == l[j - 1].n
        <4>1. a \in Int /\ b \in Int /\ a < n /\ n < b
          BY <1>0, <3>3
        <4>2. a < b
          <5> HIDE DEF a, b, n
          <5> QED
            BY <1>n, <4>1
        <4> QED
          BY <3>3, <4>2
      <3>4. ASSUME New(i), Rest(j) PROVE r[i].n < r[j].n
        BY <3>4
      <3>5. ASSUME Rest(i), Rest(j) PROVE r[i].n < r[j].n
        <4>1. i - 1 < j - 1
          BY <2>9, <3>0
        <4> QED
          BY <1>0, <3>5, <4>1 DEF Follows
      <3>6. (Old(j) => Old(i)) /\ (New(j) => Old(i))
        <4>1. Old(j) \/ New(j) => i \in 1 .. k
          BY <2>4, <2>9, <3>0
        <4>2. i \in 1 .. k => ~(New(i) \/ Rest(i))
          BY <2>4
        <4> QED
          BY <2>7, <4>1, <4>2
      <3> QED
        BY <2>7, <3>1, <3>2, <3>3, <3>4, <3>5, <3>6
    <2>10. Follows(fr.flow, r, T, 1, W)
      BY <2>8, <2>9 DEF Follows
    <2>11. \A i \in DOMAIN r : r[i] = fr \/ \E j \in DOMAIN l : r[i] = l[j]
      BY <1>0, <2>7
    <2>12. \E i \in DOMAIN r : r[i] = fr
      BY <2>3, <2>4
    <2> QED
      BY <2>1, <2>2, <2>10, <2>11, <2>12
  <1> QED
    BY <1>5, <1>6

\* A timeout passes up what is late, or everything when the position is forgotten.
LEMMA FlushGood ==
  ASSUME NEW c \in CtxType, NEW f, NEW S \in SUBSET Int, NEW b \in Int, NEW x \in Int,
         NEW T \in Int, Good(f, S, b, x, c, T, 2)
  PROVE  LET d == FlushTimeout(c) IN
         \/ d.LastIndSeq = RESET /\ d.list = <<>> /\ "refresh" \in d.why
         \/ \E T2 \in Int : T <= T2 /\ Good(f, S, b, x, d, T2, 2)
  <1> DEFINE q == T + 1
             seq == (c.LastIndSeq + 1) % M
             a == LeSeq(c, q % M)
             e == [a EXCEPT !.LastIndSeq = q % M, !.why = c.why \cup {"timeout"}]
             g == [Refresh(c) EXCEPT !.why = c.why \cup {"refresh"}]
             k == Slack(c.why)
  <1>1. seq = q % M /\ q \in Int /\ q % M \in 0 .. MAXSEQ /\ k \in Nat
    BY ModSum, SpaceIs DEF Good, Positions, Slack
  <1>2. \/ FlushTimeout(c) = g
        \/ Len(c.list) > 0 /\ FlushTimeout(c) = InOrder(e, q % M)
        \/ FlushTimeout(c) = c
    BY <1>1 DEF FlushTimeout
  <1>3. g.LastIndSeq = RESET /\ g.list = <<>> /\ "refresh" \in g.why
    <2> DEFINE h == Announce(c, Len(c.list))
    <2>1. Refresh(c) \in CtxType /\ Refresh(c).list = <<>>
      BY RefreshKeeps
    <2>2. Refresh(c).LastIndSeq = RESET
      <3>1. Len(c.list) \in 0 .. Len(c.list)
        BY DEF CtxType
      <3>2. h \in CtxType /\ Refresh(c) = [h EXCEPT !.LastIndSeq = RESET]
        BY <3>1, AnnounceMoves DEF Refresh
      <3> HIDE DEF h
      <3> QED
        BY <3>2 DEF CtxType
    <2> QED
      BY <2>1, <2>2 DEF CtxType
  <1>4. ASSUME Len(c.list) > 0
        PROVE  \E T2 \in Int : T <= T2 /\ Good(f, S, b, x, InOrder(e, q % M), T2, 2)
    <2>0. /\ c.list \in Seq(FrameType) /\ c.BAWinSize \in Nat /\ 2 * (c.BAWinSize + 1) <= M
          /\ M \in Nat /\ Follows(f, c.list, T, 2, c.BAWinSize) /\ c.why \subseteq Causes
      BY WindowHalf DEF CtxType, Good
    <2>1. Follows(f, c.list, T, 1, c.BAWinSize)
      BY <2>0, FollowsWeaker
    <2>2. T < q /\ 2 * (q - T) <= M /\ T <= q /\ (q + 1) - q = 1
      BY <2>0
    <2>3. T + 1 < x /\ \A i \in DOMAIN c.list : c.list[i].n < x
      <3>1. 1 \in DOMAIN c.list /\ c.list[1].n \in Int
        BY <1>4, <2>0, NumberOf
      <3>2. c.list[1].n >= T + 2
        BY <3>1 DEF Good, Follows
      <3>3. \A i \in DOMAIN c.list : c.list[i].n < x
        BY DEF Good
      <3> QED
        BY <3>1, <3>2, <3>3
    <2> HIDE DEF q
    <2>4. /\ a \in CtxType /\ a.why = c.why /\ a.BAWinSize = c.BAWinSize
          /\ Follows(f, a.list, q, (q + 1) - q, c.BAWinSize)
      BY <1>1, <2>1, <2>2, LeSeqAfter, ZenonT(30)
    <2>r. \A i \in DOMAIN a.list : \E j \in DOMAIN c.list : a.list[i] = c.list[j]
      BY <1>1, <2>1, <2>2, LeSeqAfter, ZenonT(30)
    <2>5. ASSUME "refresh" \notin c.why PROVE Rises(S, a.out, a.list, q, k)
      <3>1. Rises(S, c.out, c.list, T, k)
        BY <2>5 DEF Good
      <3>2. \A i \in DOMAIN c.list : c.list[i].n <= q => c.list[i].n <= q + k
        <4> SUFFICES ASSUME NEW i \in DOMAIN c.list PROVE c.list[i].n <= q => c.list[i].n <= q + k
          OBVIOUS
        <4> DEFINE y == c.list[i].n
        <4>1. y \in Int
          BY <2>0, NumberOf
        <4> HIDE DEF y, k
        <4>2. y <= q => y <= q + k
          BY <1>1, <4>1
        <4> QED
          BY <4>2 DEF y
      <3>3. k <= k
        BY <1>1
      <3> HIDE DEF k
      <3> QED
        BY <1>1, <2>1, <2>2, <3>1, <3>2, <3>3, LeSeqRises
    <2> HIDE DEF a
    <2>6. /\ e \in CtxType /\ e.LastIndSeq = q % M /\ e.list = a.list /\ e.out = a.out
          /\ e.why = c.why \cup {"timeout"} /\ e.BAWinSize = c.BAWinSize
      BY <1>1, <2>0, <2>4 DEF CtxType, Causes
    <2>7. Slack(e.why) = k /\ e.why \cap Skips # {} /\ ("refresh" \in e.why <=> "refresh" \in c.why)
      BY <2>6 DEF Slack, Skips
    <2> HIDE DEF e, k
    <2>8. q < x /\ \A i \in DOMAIN e.list : e.list[i].n < x
      BY <2>3, <2>r, <2>6 DEF q
    <2>9. Good(f, S, b, x, e, q, 1)
      BY <2>2, <2>4, <2>5, <2>6, <2>7, <2>8 DEF Good
    <2>10. \E T2 \in Int : q <= T2 /\ Good(f, S, b, x, InOrder(e, q % M), T2, 2)
      BY <1>1, <2>6, <2>9, InOrderGood
    <2> QED
      BY <1>1, <2>2, <2>10
  <1> HIDE DEF g, e
  <1> QED
    BY <1>2, <1>3, <1>4

\* The first frame of a session, or after its position was forgotten (case I).
LEMMA ResetGood ==
  ASSUME NEW c \in CtxType, NEW fr \in FrameType, NEW S \in SUBSET Int, NEW b \in Int,
         NEW x \in Int, c.list = <<>>, "refresh" \notin c.why => S = {} /\ c.out = <<>>,
         fr.n < x
  PROVE  LET w == IF fr.n = b THEN c.why ELSE c.why \cup {"first"}
         IN  Good(fr.flow, S, b, x, Indicate([c EXCEPT !.LastIndSeq = Seq12(fr), !.why = w], fr),
                  fr.n, 2)
  <1> DEFINE w == IF fr.n = b THEN c.why ELSE c.why \cup {"first"}
             e == [c EXCEPT !.LastIndSeq = Seq12(fr), !.why = w]
             d == Indicate(e, fr)
             o == Append(c.out, fr)
  <1>1. fr.n \in Int /\ Seq12(fr) = fr.n % M /\ c.out \in Seq(FrameType)
    BY ConstantsAssumption DEF FrameType, Frames, Seq12, ConstantsAssumption, CtxType
  <1>2. /\ d.LastIndSeq = fr.n % M /\ d.list = <<>> /\ d.out = o /\ d.why = w
        /\ d.BAWinSize = c.BAWinSize
    BY <1>1 DEF Indicate, CtxType
  <1>3. DOMAIN o = 1 .. Len(c.out) + 1 /\ o[Len(c.out) + 1] = fr /\ Len(c.out) \in Nat
    BY <1>1
  <1>4. (c.out = <<>> => \A i \in DOMAIN o : o[i] = fr /\ i = 1) /\ DOMAIN d.list = {}
    <2>1. c.out = <<>> => Len(c.out) = 0
      OBVIOUS
    <2> HIDE DEF o
    <2>2. c.out = <<>> => \A i \in DOMAIN o : o[i] = fr /\ i = 1
      BY <1>3, <2>1
    <2>3. DOMAIN d.list = {}
      BY <1>2
    <2> QED
      BY <2>2, <2>3
  <1> HIDE DEF d, o
  <1>5. Follows(fr.flow, d.list, fr.n, 2, d.BAWinSize) /\ \A i \in DOMAIN d.list : d.list[i].n < x
    BY <1>4 DEF Follows
  <1>6. Slack(d.why) \in Nat /\ ("refresh" \in d.why <=> "refresh" \in c.why)
    BY <1>2 DEF Slack
  <1>7. ASSUME "refresh" \notin d.why PROVE Rises(S, d.out, d.list, fr.n, Slack(d.why))
    <2>1. S = {} /\ \A i \in DOMAIN d.out : d.out[i] = fr /\ i = 1
      BY <1>2, <1>4, <1>6, <1>7
    <2> DEFINE k == Slack(d.why)
    <2> HIDE DEF k
    <2>2. fr.n <= fr.n + k
      BY <1>1, <1>6 DEF k
    <2>3. Rises(S, d.out, d.list, fr.n, k)
      BY <1>4, <2>1, <2>2 DEF Rises
    <2> QED
      BY <2>3 DEF k
  <1>8. ASSUME d.why \cap Skips = {}, NEW m \in b .. fr.n
        PROVE  m \in S \/ \E i \in DOMAIN d.out : d.out[i].n = m
    <2>1. fr.n = b
      BY <1>2, <1>8 DEF Skips
    <2>2. m = fr.n
      BY <1>1, <2>1
    <2> QED
      BY <1>2, <1>3, <2>2
  <1>9. Good(fr.flow, S, b, x, d, fr.n, 2)
    BY <1>2, <1>5, <1>7, <1>8 DEF Good
  <1> QED
    BY <1>9 DEF d

LEMMA FollowsShift ==
  ASSUME NEW l \in Seq(FrameType), NEW f, NEW T \in Int, NEW T2 \in Int, NEW lo \in Int,
         NEW lo2 \in Int, NEW hi \in Int, Follows(f, l, T, lo, hi), T <= T2, T2 + lo2 <= T + lo
  PROVE  Follows(f, l, T2, lo2, hi)
  <1>1. ASSUME NEW i \in DOMAIN l PROVE l[i].flow = f /\ l[i].n \in T2 + lo2 .. T2 + hi
    <2> DEFINE y == l[i].n
    <2>1. y \in Int
      BY NumberOf
    <2>2. y \in T + lo .. T + hi /\ l[i].flow = f
      BY DEF Follows
    <2> HIDE DEF y
    <2>3. y \in T2 + lo2 .. T2 + hi
      BY <2>1, <2>2
    <2> QED
      BY <2>2, <2>3 DEF y
  <1> QED
    BY <1>1 DEF Follows

\* A frame passed up after the others.
LEMMA AppendLast ==
  ASSUME NEW s \in Seq(FrameType), NEW x \in FrameType
  PROVE  /\ Append(s, x) \in Seq(FrameType)
         /\ DOMAIN Append(s, x) = 1 .. Len(s) + 1 /\ Len(s) \in Nat
         /\ Len(s) + 1 \in DOMAIN Append(s, x) /\ Append(s, x)[Len(s) + 1] = x
         /\ \A i \in DOMAIN s : i \in DOMAIN Append(s, x) /\ Append(s, x)[i] = s[i]
  <1>1. Append(s, x) \in Seq(FrameType) /\ Len(Append(s, x)) = Len(s) + 1 /\ Len(s) \in Nat
        /\ DOMAIN s = 1 .. Len(s)
    OBVIOUS
  <1>2. Append(s, x)[Len(s) + 1] = x /\ \A i \in 1 .. Len(s) : Append(s, x)[i] = s[i]
    OBVIOUS
  <1>3. DOMAIN Append(s, x) = 1 .. Len(s) + 1
    BY <1>1
  <1> QED
    BY <1>1, <1>2, <1>3

\* What the types of a handler's record and of a frame say.
LEMMA CtxFacts ==
  ASSUME NEW c \in CtxType
  PROVE  /\ c.out \in Seq(FrameType) /\ c.list \in Seq(FrameType) /\ c.why \subseteq Causes
         /\ c.BAWinSize \in Nat /\ 2 * (c.BAWinSize + 1) <= M /\ M \in Nat
         /\ Slack(c.why) \in Nat /\ Slack(c.why) <= 1
  <1>1. /\ c.out \in Seq(FrameType) /\ c.list \in Seq(FrameType) /\ c.why \subseteq Causes
        /\ c.BAWinSize \in Windows
    BY DEF CtxType
  <1>2. c.BAWinSize \in Nat /\ 2 * (c.BAWinSize + 1) <= M /\ M \in Nat
    BY <1>1, WindowHalf
  <1>3. Slack(c.why) \in Nat /\ Slack(c.why) <= 1
    BY DEF Slack
  <1> QED
    BY <1>1, <1>2, <1>3

LEMMA FrameFacts ==
  ASSUME NEW fr \in FrameType
  PROVE  fr.n \in Int /\ Seq12(fr) = fr.n % M /\ Seq12(fr) \in 0 .. MAXSEQ
  BY ConstantsAssumption, FrameSeq DEF FrameType, Frames, Seq12, ConstantsAssumption

\* The frame after the position is passed up (case II).
LEMMA NextGood ==
  ASSUME NEW c \in CtxType, NEW fr \in FrameType, NEW S \in SUBSET Int, NEW b \in Int,
         NEW x \in Int, NEW y \in Int, NEW T \in Int, Good(fr.flow, S, b, x, c, T, 2),
         fr.n = T + 1, fr.n < y, x <= y
  PROVE  \E T2 \in Int : /\ T + 1 <= T2
                         /\ Good(fr.flow, S, b, y,
                                 InOrder(Indicate([c EXCEPT !.LastIndSeq = Seq12(fr)], fr),
                                         Seq12(fr)), T2, 2)
  <1> DEFINE f == fr.flow
             e == [c EXCEPT !.LastIndSeq = Seq12(fr)]
             d == Indicate(e, fr)
             o == Append(c.out, fr)
             k == Slack(c.why)
  <1>1. /\ fr.n \in Int /\ Seq12(fr) = fr.n % M /\ c.out \in Seq(FrameType) /\ k \in Nat
        /\ c.list \in Seq(FrameType) /\ c.BAWinSize \in Nat /\ T + 1 \in Int
        /\ Seq12(fr) \in 0 .. MAXSEQ
    BY CtxFacts, FrameFacts
  <1>2. e \in CtxType
    BY <1>1, RecordSeq DEF Keeps
  <1>3. d \in CtxType
    <2> HIDE DEF e
    <2> QED
      BY <1>2, IndicateKeeps DEF Keeps
  <1>4. /\ d.LastIndSeq = fr.n % M /\ d.list = c.list /\ d.out = o /\ d.why = c.why
        /\ d.BAWinSize = c.BAWinSize
    BY <1>1 DEF Indicate, CtxType
  <1> HIDE DEF d, e, o
  <1>5. Follows(f, c.list, T, 2, c.BAWinSize) /\ \A i \in DOMAIN c.list : c.list[i].n < x
    BY DEF Good
  <1>6. Follows(f, c.list, T + 1, 1, c.BAWinSize)
    <2>1. T <= T + 1 /\ T + 1 + 1 <= T + 2
      OBVIOUS
    <2> HIDE DEF f
    <2> QED
      BY <1>1, <1>5, <2>1, FollowsShift
  <1>7. \A i \in DOMAIN c.list : c.list[i].n < y
    <2> SUFFICES ASSUME NEW i \in DOMAIN c.list PROVE c.list[i].n < y
      OBVIOUS
    <2>1. c.list[i].n \in Int /\ c.list[i].n < x
      BY <1>1, <1>5, NumberOf
    <2> QED
      BY <2>1
  <1>8. ASSUME "refresh" \notin c.why PROVE Rises(S, o, c.list, T + 1, k)
    <2>1. Rises(S, c.out, c.list, T, k)
      BY <1>8 DEF Good
    <2>2. T <= T + 1 /\ k <= k /\ fr.n <= T + 1 + k
      BY <1>1
    <2>3. \A m \in S : m < fr.n + k
      <3> SUFFICES ASSUME NEW m \in S PROVE m < fr.n + k
        OBVIOUS
      <3>1. m \in Int /\ m <= T + k
        BY <2>1 DEF Rises
      <3> QED
        BY <1>1, <3>1
    <2>4. \A i \in DOMAIN c.out : c.out[i].n < fr.n + k
      <3> SUFFICES ASSUME NEW i \in DOMAIN c.out PROVE c.out[i].n < fr.n + k
        OBVIOUS
      <3>1. c.out[i].n \in Int /\ c.out[i].n <= T + k
        BY <1>1, <2>1, NumberOf DEF Rises
      <3> QED
        BY <1>1, <3>1, SMTT(30)
    <2>5. \A i \in DOMAIN c.list : fr.n < c.list[i].n
      <3> SUFFICES ASSUME NEW i \in DOMAIN c.list PROVE fr.n < c.list[i].n
        OBVIOUS
      <3>1. c.list[i].n \in Int /\ c.list[i].n >= T + 2
        BY <1>1, <1>5, NumberOf DEF Follows
      <3> QED
        BY <1>1, <3>1
    <2> HIDE DEF k
    <2> QED
      BY <1>1, <2>1, <2>2, <2>3, <2>4, <2>5, RisesAppend DEF o
  <1>9. ASSUME c.why \cap Skips = {}, NEW m \in b .. T + 1
        PROVE  m \in S \/ \E i \in DOMAIN o : o[i].n = m
    <2>1. CASE m <= T
      <3>1. m \in b .. T
        BY <2>1
      <3>2. m \in S \/ \E i \in DOMAIN c.out : c.out[i].n = m
        BY <1>9, <3>1 DEF Good
      <3> QED
        BY <1>1, <3>2, AppendLast DEF o
    <2>2. CASE m = T + 1
      <3>1. Len(c.out) + 1 \in DOMAIN o /\ o[Len(c.out) + 1] = fr
        BY <1>1, AppendLast DEF o
      <3>2. fr.n = m
        BY <2>2
      <3> QED
        BY <3>1, <3>2
    <2> QED
      BY <2>1, <2>2
  <1>10. Good(f, S, b, y, d, T + 1, 1)
    BY <1>4, <1>6, <1>7, <1>8, <1>9 DEF Good
  <1>11. InOrder(d, Seq12(fr)) = InOrder(d, (T + 1) % M)
    BY <1>1
  <1> HIDE DEF f
  <1>12. \E T2 \in Int : T + 1 <= T2 /\ Good(f, S, b, y, InOrder(d, (T + 1) % M), T2, 2)
    BY <1>1, <1>3, <1>10, InOrderGood
  <1> QED
    BY <1>11, <1>12 DEF f, d, e

\* What was passed up before and so far comes before frame n.
Precede(S, c, n) == (\A m \in S : m < n) /\ (\A i \in DOMAIN c.out : c.out[i].n < n)

LEMMA InsertGood ==
  ASSUME NEW c \in CtxType, NEW fr \in FrameType, NEW S \in SUBSET Int, NEW b \in Int,
         NEW x \in Int, NEW y \in Int, NEW T \in Int, Good(fr.flow, S, b, x, c, T, 1),
         fr.n \in T + 1 .. T + c.BAWinSize, fr.n < y, x <= y,
         "refresh" \notin c.why => Precede(S, c, fr.n)
  PROVE  /\ Good(fr.flow, S, b, y, InsertSorted(c, fr), T, 1)
         /\ Holds(InsertSorted(c, fr), fr)
  <1> DEFINE d == InsertSorted(c, fr)
             f == fr.flow
             n == fr.n
             k == Slack(c.why)
  <1>0. n \in Int /\ c.list \in Seq(FrameType) /\ c.out \in Seq(FrameType) /\ k \in Nat
    BY CtxFacts, FrameFacts
  <1>1. Follows(fr.flow, c.list, T, 1, c.BAWinSize)
    BY DEF Good
  <1>2. /\ Follows(f, d.list, T, 1, c.BAWinSize)
        /\ \E i \in DOMAIN d.list : d.list[i] = fr
        /\ d.LastIndSeq = c.LastIndSeq /\ d.why = c.why /\ d.out = c.out
        /\ d.BAWinSize = c.BAWinSize
    BY <1>1, InsertFollows
  <1>3. ASSUME NEW i \in DOMAIN d.list
        PROVE  d.list[i] = fr \/ \E j \in DOMAIN c.list : d.list[i] = c.list[j]
    BY <1>1, <1>3, InsertFollows
  <1> HIDE DEF d
  <1>4. c.LastIndSeq = T % M /\ T < y /\ \A i \in DOMAIN c.list : c.list[i].n < y
    <2>1. c.LastIndSeq = T % M /\ T < x /\ \A i \in DOMAIN c.list : c.list[i].n < x
      BY DEF Good
    <2>2. \A i \in DOMAIN c.list : c.list[i].n \in Int
      BY <1>0, NumberOf
    <2> QED
      BY <2>1, <2>2
  <1>5. \A i \in DOMAIN d.list : d.list[i].n < y
    BY <1>3, <1>4
  <1>6. ASSUME "refresh" \notin c.why PROVE Rises(S, d.out, d.list, T, k)
    <2>1. Rises(S, c.out, c.list, T, k)
      BY <1>6 DEF Good
    <2>2. Precede(S, c, n)
      BY <1>6
    <2>3. \A m \in S, i \in DOMAIN d.list : m < d.list[i].n
      <3> SUFFICES ASSUME NEW m \in S, NEW i \in DOMAIN d.list PROVE m < d.list[i].n
        OBVIOUS
      <3>1. m < n /\ \A j \in DOMAIN c.list : m < c.list[j].n
        BY <2>1, <2>2 DEF Precede, Rises
      <3> QED
        BY <1>3, <3>1
    <2>4. \A m \in DOMAIN d.out, i \in DOMAIN d.list : d.out[m].n < d.list[i].n
      <3> SUFFICES ASSUME NEW m \in DOMAIN c.out, NEW i \in DOMAIN d.list
                   PROVE  c.out[m].n < d.list[i].n
        BY <1>2
      <3>1. c.out[m].n < n /\ \A j \in DOMAIN c.list : c.out[m].n < c.list[j].n
        BY <2>1, <2>2 DEF Precede, Rises
      <3> QED
        BY <1>3, <3>1
    <2> QED
      BY <1>2, <2>1, <2>3, <2>4 DEF Rises
  <1>7. ASSUME c.why \cap Skips = {}
        PROVE  \A m \in b .. T : m \in S \/ \E i \in DOMAIN d.out : d.out[i].n = m
    BY <1>2, <1>7 DEF Good
  <1>8. Good(f, S, b, y, d, T, 1)
    BY <1>2, <1>4, <1>5, <1>6, <1>7 DEF Good
  <1>9. Holds(d, fr)
    BY <1>2 DEF Holds, In
  <1> QED
    BY <1>8, <1>9 DEF d

\* A frame that is passed up at once takes the list before it along.
LEMMA DirectGood ==
  ASSUME NEW c \in CtxType, NEW fr \in FrameType, NEW S \in SUBSET Int, NEW b \in Int,
         NEW x \in Int, NEW y \in Int, NEW T \in Int, Good(fr.flow, S, b, x, c, T, 1),
         fr.n \in T + 1 .. T + c.BAWinSize, fr.n < y, x <= y,
         "refresh" \notin c.why => Precede(S, c, fr.n),
         NEW d \in CtxType, d.BAWinSize = c.BAWinSize,
         d.list = LeSeq(c, Seq12(fr)).list, d.out = Append(LeSeq(c, Seq12(fr)).out, fr),
         d.LastIndSeq = Seq12(fr), d.why = c.why \cup {"direct"} \cup Again(c, Seq12(fr))
  PROVE  Good(fr.flow, S, b, y, d, fr.n, 1) /\ Holds(d, fr)
  <1> DEFINE f == fr.flow
             n == fr.n
             a == LeSeq(c, n % M)
             k == Slack(c.why)
             k2 == Slack(d.why)
  <1>0. /\ n \in Int /\ c.list \in Seq(FrameType) /\ c.out \in Seq(FrameType)
        /\ k \in Nat /\ k2 \in Nat /\ Seq12(fr) = n % M /\ c.BAWinSize \in Nat
        /\ 2 * (c.BAWinSize + 1) <= M /\ M \in Nat
    BY CtxFacts, FrameFacts
  <1>1. Follows(f, c.list, T, 1, c.BAWinSize)
    BY DEF Good
  <1>2. T < n /\ 2 * (n - T) <= M /\ T <= n /\ n <= n /\ (n + 1) - n = 1 /\ n - T <= c.BAWinSize
    <2> DEFINE W == c.BAWinSize
    <2>1. n \in T + 1 .. T + W /\ n \in Int /\ W \in Nat /\ 2 * (W + 1) <= M /\ M \in Nat
      BY <1>0
    <2> HIDE DEF n, W
    <2>2. T < n /\ n - T <= W
      BY <2>1
    <2>3. T < n /\ 2 * (n - T) <= M /\ T <= n /\ n <= n /\ (n + 1) - n = 1 /\ n - T <= W
      BY <2>1, <2>2
    <2> QED
      BY <2>3 DEF W
  <1>3. k <= k2
    BY DEF Slack
  <1> HIDE DEF n, f
  <1>4. /\ a \in CtxType /\ a.why = c.why /\ a.BAWinSize = c.BAWinSize
        /\ Follows(f, a.list, n, (n + 1) - n, c.BAWinSize)
    <2>1. n \in Int /\ T < n /\ 2 * (n - T) <= M /\ T <= n
      BY <1>0, <1>2
    <2>2. a \in CtxType /\ a.why = c.why /\ a.BAWinSize = c.BAWinSize
      <3>1. n % M \in Int
        BY <2>1, SpaceIs
      <3> QED
        BY <3>1, LeSeqKeeps, LeSeqMoves DEF Keeps
    <2>3. Follows(f, a.list, n, (n + 1) - n, c.BAWinSize)
      BY <1>1, <2>1, LeSeqAfter
    <2> QED
      BY <2>2, <2>3
  <1>5. \A i \in DOMAIN a.list : \E j \in DOMAIN c.list : a.list[i] = c.list[j]
    BY <1>0, <1>1, <1>2, LeSeqAfter, ZenonT(30)
  <1>6. \A i \in DOMAIN a.out : \/ \E j \in DOMAIN c.out : a.out[i] = c.out[j]
                                \/ \E j \in DOMAIN c.list :
                                      a.out[i] = c.list[j] /\ c.list[j].n <= n
    BY <1>0, <1>1, <1>2, LeSeqAfter
  <1>7. d.list = a.list /\ d.out = Append(a.out, fr) /\ d.LastIndSeq = n % M
    BY <1>0
  <1>8. \A i \in DOMAIN c.list : c.list[i].n < y
    <2>1. \A i \in DOMAIN c.list : c.list[i].n < x
      BY DEF Good
    <2>2. \A i \in DOMAIN c.list : c.list[i].n \in Int
      BY <1>0, NumberOf
    <2> QED
      BY <2>1, <2>2
  <1>9. ASSUME "refresh" \notin c.why PROVE Rises(S, a.out, a.list, n, k2)
    <2>1. Rises(S, c.out, c.list, T, k)
      BY <1>9 DEF Good, f
    <2>2. \A i \in DOMAIN c.list : c.list[i].n <= n => c.list[i].n <= n + k2
      <3> SUFFICES ASSUME NEW i \in DOMAIN c.list PROVE c.list[i].n <= n => c.list[i].n <= n + k2
        OBVIOUS
      <3> DEFINE z == c.list[i].n
      <3>1. z \in Int
        BY <1>0, NumberOf
      <3> HIDE DEF z, k2
      <3>2. z <= n => z <= n + k2
        BY <1>0, <3>1
      <3> QED
        BY <3>2 DEF z
    <2> HIDE DEF k, k2
    <2> QED
      BY <1>0, <1>1, <1>2, <1>3, <2>1, <2>2, LeSeqRises
  <1>10. ASSUME "refresh" \notin c.why PROVE Rises(S, Append(a.out, fr), a.list, n, k2)
    <2>0. a.out \in Seq(FrameType) /\ a.list \in Seq(FrameType)
      BY <1>4, CtxFacts
    <2>1. Precede(S, c, n)
      BY <1>10 DEF n
    <2>2. \A m \in S : m < n + k2
      <3> SUFFICES ASSUME NEW m \in S PROVE m < n + k2
        OBVIOUS
      <3>1. m < n /\ m \in Int
        BY <2>1 DEF Precede
      <3> HIDE DEF k2
      <3> QED
        BY <1>0, <3>1
    <2>3. \A i \in DOMAIN a.out : a.out[i].n < n + k2
      <3> SUFFICES ASSUME NEW i \in DOMAIN a.out PROVE a.out[i].n < n + k2
        OBVIOUS
      <3> DEFINE z == a.out[i].n
      <3>1. z \in Int
        BY <2>0, NumberOf
      <3>2. CASE \E j \in DOMAIN c.out : a.out[i] = c.out[j]
        <4>1. z < n
          BY <2>1, <3>2 DEF Precede
        <4> HIDE DEF z, k2
        <4>2. z < n + k2
          BY <1>0, <3>1, <4>1
        <4> QED
          BY <4>2 DEF z
      <3>3. CASE \E j \in DOMAIN c.list : a.out[i] = c.list[j] /\ c.list[j].n <= n
        <4>1. PICK j \in DOMAIN c.list : a.out[i] = c.list[j] /\ c.list[j].n <= n
          BY <3>3
        <4>2. z <= n /\ (z = n => k2 = 1)
          <5>1. z = n => Seq12(c.list[j]) = n % M
            BY <4>1 DEF Seq12
          <5>2. z = n => "again" \in Again(c, n % M)
            BY <5>1 DEF Again
          <5>3. z = n => k2 = 1
            BY <1>0, <5>2 DEF Slack
          <5> QED
            BY <4>1, <5>3
        <4> HIDE DEF z, k2
        <4>3. z < n + k2
          BY <1>0, <3>1, <4>2
        <4> QED
          BY <4>3 DEF z
      <3> QED
        BY <1>6, <3>2, <3>3
    <2>4. \A i \in DOMAIN a.list : n < a.list[i].n
      <3> SUFFICES ASSUME NEW i \in DOMAIN a.list PROVE n < a.list[i].n
        OBVIOUS
      <3> DEFINE z == a.list[i].n
      <3>1. z \in Int /\ z \in n + ((n + 1) - n) .. n + c.BAWinSize
        BY <1>4, <2>0, NumberOf DEF Follows
      <3> HIDE DEF z
      <3>2. n < z
        BY <1>0, <3>1
      <3> QED
        BY <3>2 DEF z
    <2>5. n <= n + k2 /\ k2 <= k2
      <3> HIDE DEF k2
      <3> QED
        BY <1>0
    <2>6. Rises(S, a.out, a.list, n, k2)
      BY <1>9, <1>10
    <2> HIDE DEF a, k2
    <2> QED
      BY <1>0, <1>2, <2>0, <2>2, <2>3, <2>4, <2>5, <2>6, RisesAppend DEF n
  <1>11. Follows(f, d.list, n, 1, d.BAWinSize)
    BY <1>2, <1>4, <1>7
  <1>12. \A i \in DOMAIN d.list : d.list[i].n < y
    BY <1>5, <1>7, <1>8
  <1>13. "refresh" \notin d.why => "refresh" \notin c.why
    OBVIOUS
  <1>14. d.why \cap Skips # {}
    BY DEF Skips
  <1>15. Good(f, S, b, y, d, n, 1)
    <2>1. n < y
      BY DEF n
    <2> HIDE DEF a
    <2> QED
      BY <1>7, <1>10, <1>11, <1>12, <1>13, <1>14, <2>1 DEF Good
  <1>16. Holds(d, fr)
    <2>1. a.out \in Seq(FrameType)
      BY <1>4, CtxFacts
    <2> HIDE DEF a
    <2>2. Len(a.out) + 1 \in DOMAIN d.out /\ d.out[Len(a.out) + 1] = fr
      BY <1>7, <2>1, AppendLast
    <2> QED
      BY <2>2 DEF Holds, In
  <1> QED
    BY <1>15, <1>16 DEF f, n

LEMMA EnqueueGood ==
  ASSUME NEW c \in CtxType, NEW fr \in FrameType, NEW S \in SUBSET Int, NEW b \in Int,
         NEW x \in Int, NEW y \in Int, NEW T \in Int, Good(fr.flow, S, b, x, c, T, 1),
         fr.n \in T + 1 .. T + c.BAWinSize, fr.n < y, x <= y,
         "refresh" \notin c.why => Precede(S, c, fr.n)
  PROVE  /\ \E T2 \in Int : T <= T2 /\ Good(fr.flow, S, b, y, Enqueue(c, fr), T2, 1)
         /\ Holds(Enqueue(c, fr), fr)
  <1> DEFINE d == Enqueue(c, fr)
  <1>0. fr.n \in Int /\ T <= T /\ T <= fr.n
    BY CtxFacts, FrameFacts
  <1>1. CASE d = InsertSorted(c, fr)
    <2>1. Good(fr.flow, S, b, y, d, T, 1) /\ Holds(d, fr)
      BY <1>1, InsertGood
    <2> QED
      BY <1>0, <2>1
  <1>2. ASSUME NEW a \in CtxType,
               a.list = c.list, a.out = c.out, a.why = c.why,
               a.LastIndSeq = c.LastIndSeq, a.BAWinSize = c.BAWinSize,
               d.list = LeSeq(a, Seq12(fr)).list,
               d.out = Append(LeSeq(a, Seq12(fr)).out, fr),
               d.LastIndSeq = Seq12(fr),
               d.why = c.why \cup {"direct"} \cup Again(c, Seq12(fr))
        PROVE  Good(fr.flow, S, b, y, d, fr.n, 1) /\ Holds(d, fr)
    <2>1. d \in CtxType /\ d.BAWinSize = a.BAWinSize
      BY <1>2, EnqueueKeeps DEF Keeps
    <2>2. Good(fr.flow, S, b, x, a, T, 1)
      BY <1>2, GoodSame
    <2>3. Again(c, Seq12(fr)) = Again(a, Seq12(fr))
      BY <1>2 DEF Again
    <2>4. "refresh" \notin a.why => Precede(S, a, fr.n)
      BY <1>2 DEF Precede
    <2>5. d.why = a.why \cup {"direct"} \cup Again(a, Seq12(fr)) /\ fr.n \in T + 1 .. T + a.BAWinSize
      BY <1>2, <2>3
    <2> HIDE DEF d
    <2> QED
      BY <1>2, <2>1, <2>2, <2>4, <2>5, DirectGood
  <1>3. \/ d = InsertSorted(c, fr)
        \/ \E a \in CtxType :
              /\ a.list = c.list /\ a.out = c.out /\ a.why = c.why
              /\ a.LastIndSeq = c.LastIndSeq /\ a.BAWinSize = c.BAWinSize
              /\ d.list = LeSeq(a, Seq12(fr)).list
              /\ d.out = Append(LeSeq(a, Seq12(fr)).out, fr)
              /\ d.LastIndSeq = Seq12(fr)
              /\ d.why = c.why \cup {"direct"} \cup Again(c, Seq12(fr))
    BY EnqueueWays
  <1> HIDE DEF d
  <1>4. CASE d # InsertSorted(c, fr)
    <2>1. PICK a \in CtxType :
              /\ a.list = c.list /\ a.out = c.out /\ a.why = c.why
              /\ a.LastIndSeq = c.LastIndSeq /\ a.BAWinSize = c.BAWinSize
              /\ d.list = LeSeq(a, Seq12(fr)).list
              /\ d.out = Append(LeSeq(a, Seq12(fr)).out, fr)
              /\ d.LastIndSeq = Seq12(fr)
              /\ d.why = c.why \cup {"direct"} \cup Again(c, Seq12(fr))
      BY <1>3, <1>4
    <2>2. Good(fr.flow, S, b, y, d, fr.n, 1) /\ Holds(d, fr)
      BY <1>2, <2>1
    <2> QED
      BY <1>0, <2>2 DEF d
  <1> QED
    BY <1>1, <1>4

\* The list does not hold the frame after the position.
LEMMA HeadGood ==
  ASSUME NEW c \in CtxType, NEW f, NEW S \in SUBSET Int, NEW b \in Int, NEW x \in Int,
         NEW T \in Int, Good(f, S, b, x, c, T, 1),
         ~(c.list # <<>> /\ SEQ_STEPONE(Seq12(Head(c.list)), c.LastIndSeq))
  PROVE  Good(f, S, b, x, c, T, 2)
  <1> DEFINE l == c.list
             W == c.BAWinSize
  <1>0. /\ l \in Seq(FrameType) /\ W \in Nat /\ 2 * (W + 1) <= M /\ M \in Nat
        /\ Follows(f, l, T, 1, W) /\ c.LastIndSeq = T % M
    BY CtxFacts DEF Good
  <1>1. Len(l) \in Nat /\ DOMAIN l = 1 .. Len(l)
    BY <1>0
  <1>2. ASSUME NEW i \in DOMAIN l PROVE l[i].n \in T + 2 .. T + W
    <2> DEFINE z == l[1].n
               a == l[i].n
    <2>1. l # <<>> /\ 1 \in DOMAIN l /\ Head(l) = l[1] /\ i \in Int /\ (i = 1 \/ 1 < i)
      <3>1. 1 \in DOMAIN l /\ i \in Int /\ (i = 1 \/ 1 < i) /\ Len(l) > 0
        BY <1>1
      <3> HIDE DEF l
      <3>2. l # <<>> /\ Head(l) = l[1]
        BY <1>0, <3>1
      <3> QED
        BY <3>1, <3>2
    <2>2. /\ z \in T + 1 .. T + W /\ a \in T + 1 .. T + W /\ (1 < i => z < a)
          /\ (i = 1 => z = a)
      BY <1>0, <2>1 DEF Follows
    <2>3. z \in Int /\ a \in Int /\ Seq12(l[1]) = z % M
      BY <1>0, <2>1, NumberOf
    <2>4. ~SEQ_STEPONE(z % M, T % M)
      BY <1>0, <2>1, <2>3
    <2> HIDE DEF z, a, W, l
    <2>5. -M < z - (T + 1) /\ z - (T + 1) < M
      BY <1>0, <2>2, <2>3
    <2>6. z # T + 1
      BY <2>3, <2>4, <2>5, StepNumber
    <2>7. a \in T + 2 .. T + W
      BY <1>0, <2>1, <2>2, <2>3, <2>6
    <2> QED
      BY <2>7 DEF a
  <1>3. Follows(f, l, T, 2, W)
    BY <1>0, <1>2 DEF Follows
  <1> QED
    BY <1>3 DEF Good

LEMMA PrecedeGood ==
  ASSUME NEW c \in CtxType, NEW f, NEW S \in SUBSET Int, NEW b \in Int, NEW x \in Int,
         NEW T \in Int, NEW lo, Good(f, S, b, x, c, T, lo), "refresh" \notin c.why,
         NEW n \in Int, n >= T + 2
  PROVE  Precede(S, c, n)
  <1> DEFINE k == Slack(c.why)
  <1>0. c.out \in Seq(FrameType) /\ k \in Nat /\ k <= 1
    BY CtxFacts
  <1>1. Rises(S, c.out, c.list, T, k)
    BY DEF Good
  <1> HIDE DEF k
  <1>2. ASSUME NEW m \in S PROVE m < n
    <2>1. m \in Int /\ m <= T + k
      BY <1>1 DEF Rises
    <2> QED
      BY <1>0, <2>1
  <1>3. ASSUME NEW i \in DOMAIN c.out PROVE c.out[i].n < n
    <2>1. c.out[i].n \in Int /\ c.out[i].n <= T + k
      BY <1>0, <1>1, NumberOf DEF Rises
    <2> QED
      BY <1>0, <2>1
  <1> QED
    BY <1>2, <1>3 DEF Precede

\* A frame inside the window (case IV), unless it leaves its successor stuck.
LEMMA WithinGood ==
  ASSUME NEW c \in CtxType, NEW fr \in FrameType, NEW S \in SUBSET Int, NEW b \in Int,
         NEW x \in Int, NEW y \in Int, NEW T \in Int, Good(fr.flow, S, b, x, c, T, 2),
         fr.n \in T + 2 .. T + c.BAWinSize, fr.n < y, x <= y,
         "stuck" \notin WithinWindow(c, fr).why
  PROVE  /\ \E T2 \in Int : T <= T2 /\ Good(fr.flow, S, b, y, WithinWindow(c, fr), T2, 2)
         /\ Holds(WithinWindow(c, fr), fr)
  <1> DEFINE d == Enqueue(c, fr)
             stuck == d.list # <<>> /\ SEQ_STEPONE(Seq12(Head(d.list)), d.LastIndSeq)
             f == fr.flow
  <1>1. d \in CtxType
    BY EnqueueKeeps
  <1>2. WithinWindow(c, fr) = IF stuck THEN [d EXCEPT !.why = d.why \cup {"stuck"}] ELSE d
    BY DEF WithinWindow
  <1>3. Good(f, S, b, x, c, T, 1)
    BY GoodWeaker
  <1>4. "refresh" \notin c.why => Precede(S, c, fr.n)
    <2>1. fr.n \in Int /\ fr.n >= T + 2
      BY FrameFacts
    <2> QED
      BY <2>1, PrecedeGood
  <1>5. fr.n \in T + 1 .. T + c.BAWinSize
    BY CtxFacts, FrameFacts
  <1>6. (\E T2 \in Int : T <= T2 /\ Good(f, S, b, y, d, T2, 1)) /\ Holds(d, fr)
    BY <1>3, <1>4, <1>5, EnqueueGood
  <1> HIDE DEF d
  <1>7. ~stuck /\ WithinWindow(c, fr) = d
    BY <1>1, <1>2 DEF CtxType
  <1>8. PICK T2 \in Int : T <= T2 /\ Good(f, S, b, y, d, T2, 1)
    BY <1>6
  <1> HIDE DEF f
  <1>9. Good(f, S, b, y, d, T2, 2)
    BY <1>1, <1>7, <1>8, HeadGood
  <1> QED
    BY <1>6, <1>7, <1>8, <1>9 DEF f

\* A frame beyond the window, which moves so far that the frame is its last
\* (case V).  What it moves over is older than what the originator repeats.
LEMMA BeyondGood ==
  ASSUME NEW c \in CtxType, NEW fr \in FrameType, NEW S \in SUBSET Int, NEW b \in Int,
         NEW x \in Int, NEW y \in Int, NEW T \in Int, Good(fr.flow, S, b, x, c, T, 2),
         fr.n > T + c.BAWinSize, fr.n < y, x <= y, c.BAWinSize >= 1,
         fr.n < b + c.BAWinSize, 2 * ((fr.n - c.BAWinSize) - T) <= M
  PROVE  /\ \E T2 \in Int : T <= T2 /\ Good(fr.flow, S, b, y, BeyondWindow(c, fr), T2, 2)
         /\ Holds(BeyondWindow(c, fr), fr)
  <1> DEFINE W == c.BAWinSize
             f == fr.flow
             n == fr.n
             s == n - W
             a == LeSeq(c, s % M)
             e == [a EXCEPT !.LastIndSeq = s % M]
             g == Enqueue(e, fr)
             k == Slack(c.why)
  <1>0. /\ n \in Int /\ W \in Nat /\ 2 * (W + 1) <= M /\ M \in Nat /\ Seq12(fr) = n % M
        /\ c.list \in Seq(FrameType) /\ c.out \in Seq(FrameType) /\ k \in Nat /\ k <= 1
    BY CtxFacts, FrameFacts
  <1>1. /\ s \in Int /\ T + 1 <= s /\ s < n /\ s < y /\ s < b /\ 2 * (s - T) <= M /\ T < s
        /\ T <= s /\ (s + 1) - s = 1 /\ n \in s + 1 .. s + W
    <2>1. n > T + W /\ n < y /\ W >= 1 /\ n < b + W /\ 2 * ((n - W) - T) <= M
      OBVIOUS
    <2> HIDE DEF n, W
    <2> QED
      BY <1>0, <2>1
  <1>2. WinStartSeq(c, fr) = s % M /\ s % M \in 0 .. MAXSEQ /\ s % M \in Int
    <2>1. WinStartSeq(c, fr) = ((n % M) - W) % M
      BY <1>0 DEF WinStartSeq
    <2> HIDE DEF n, W
    <2>2. -W \in Int /\ n % M \in Int
      BY <1>0, SpaceIs
    <2>3. ((n % M) + (-W)) % M = (n + (-W)) % M
      BY <1>0, <2>2, ModSum
    <2>4. (n % M) + (-W) = (n % M) - W /\ n + (-W) = n - W
      BY <1>0, <2>2
    <2>5. s % M \in 0 .. MAXSEQ /\ s % M \in Int
      <3> HIDE DEF s
      <3> QED
        BY <1>1, SpaceIs DEF Positions
    <2> QED
      BY <2>1, <2>3, <2>4, <2>5
  <1>3. BeyondWindow(c, fr) = InOrder(g, g.LastIndSeq)
    BY <1>2 DEF BeyondWindow
  <1>4. Follows(f, c.list, T, 1, W)
    <2>1. Follows(f, c.list, T, 2, W) /\ T <= T /\ T + 1 <= T + 2
      BY DEF Good
    <2> HIDE DEF f, W
    <2> QED
      BY <1>0, <2>1, FollowsShift
  <1>5. a \in CtxType /\ a.why = c.why /\ a.BAWinSize = W
    BY <1>2, LeSeqKeeps, LeSeqMoves DEF Keeps
  <1>6. Follows(f, a.list, s, (s + 1) - s, W)
    <2> HIDE DEF s, f
    <2> QED
      BY <1>1, <1>4, LeSeqAfter
  <1>7. \A i \in DOMAIN a.list : \E j \in DOMAIN c.list : a.list[i] = c.list[j]
    <2> HIDE DEF s, f
    <2> QED
      BY <1>1, <1>4, LeSeqAfter, ZenonT(30)
  <1>8. \A i \in DOMAIN a.out : \/ \E j \in DOMAIN c.out : a.out[i] = c.out[j]
                                \/ \E j \in DOMAIN c.list :
                                      a.out[i] = c.list[j] /\ c.list[j].n <= s
    <2> HIDE DEF s, f
    <2> QED
      BY <1>1, <1>4, LeSeqAfter
  <1>9. ASSUME "refresh" \notin c.why PROVE Rises(S, a.out, a.list, s, k)
    <2>1. Rises(S, c.out, c.list, T, k) /\ k <= k
      BY <1>0, <1>9 DEF Good
    <2>2. \A i \in DOMAIN c.list : c.list[i].n <= s => c.list[i].n <= s + k
      <3> SUFFICES ASSUME NEW i \in DOMAIN c.list PROVE c.list[i].n <= s => c.list[i].n <= s + k
        OBVIOUS
      <3> DEFINE z == c.list[i].n
      <3>1. z \in Int
        BY <1>0, NumberOf
      <3> HIDE DEF z, k, s
      <3>2. z <= s => z <= s + k
        BY <1>0, <1>1, <3>1
      <3> QED
        BY <3>2 DEF z
    <2> HIDE DEF k, s, f
    <2> QED
      BY <1>0, <1>1, <1>4, <2>1, <2>2, LeSeqRises
  <1> HIDE DEF a
  <1>10. /\ e \in CtxType /\ e.LastIndSeq = s % M /\ e.list = a.list /\ e.out = a.out
         /\ e.why = c.why /\ e.BAWinSize = W
    BY <1>2, <1>5 DEF CtxType
  <1> HIDE DEF e
  <1>11. ASSUME "refresh" \notin e.why PROVE Precede(S, e, n)
    <2>1. Precede(S, c, n)
      <3>1. n >= T + 2
        <4> HIDE DEF n, W
        <4> QED
          BY <1>0, <1>1
      <3> QED
        BY <1>0, <1>10, <1>11, <3>1, PrecedeGood
    <2>2. ASSUME NEW i \in DOMAIN a.out PROVE a.out[i].n < n
      <3>1. CASE \E j \in DOMAIN c.out : a.out[i] = c.out[j]
        BY <2>1, <3>1 DEF Precede
      <3>2. CASE \E j \in DOMAIN c.list : a.out[i] = c.list[j] /\ c.list[j].n <= s
        <4> DEFINE z == a.out[i].n
        <4>1. z \in Int
          BY <1>5, CtxFacts, NumberOf
        <4>2. z <= s
          BY <3>2
        <4> HIDE DEF z, s, n
        <4>3. z < n
          BY <1>0, <1>1, <4>1, <4>2
        <4> QED
          BY <4>3 DEF z
      <3> QED
        BY <1>8, <3>1, <3>2
    <2> QED
      BY <1>10, <2>1, <2>2 DEF Precede
  <1>12. \A i \in DOMAIN c.list : c.list[i].n < y
    <2>1. \A i \in DOMAIN c.list : c.list[i].n < x
      BY DEF Good
    <2>2. \A i \in DOMAIN c.list : c.list[i].n \in Int
      BY <1>0, NumberOf
    <2> QED
      BY <2>1, <2>2
  <1>13. Good(f, S, b, y, e, s, 1)
    <2>1. \A i \in DOMAIN e.list : e.list[i].n < y
      BY <1>7, <1>10, <1>12
    <2>2. \A m \in b .. s : FALSE
      <3> HIDE DEF s
      <3> QED
        BY <1>1
    <2> HIDE DEF s, f
    <2> QED
      BY <1>1, <1>6, <1>9, <1>10, <2>1, <2>2 DEF Good
  <1>14. /\ \E T2 \in Int : s <= T2 /\ Good(fr.flow, S, b, y, Enqueue(e, fr), T2, 1)
         /\ Holds(Enqueue(e, fr), fr)
    <2>1. fr.n \in s + 1 .. s + e.BAWinSize /\ y <= y
      BY <1>1, <1>10
    <2>2. Good(fr.flow, S, b, y, e, s, 1)
      BY <1>13
    <2>3. "refresh" \notin e.why => Precede(S, e, fr.n)
      BY <1>11
    <2> HIDE DEF s
    <2> QED
      BY <1>1, <1>10, <2>1, <2>2, <2>3, EnqueueGood
  <1>15. g \in CtxType
    BY <1>10, EnqueueKeeps
  <1>16. PICK T1 \in Int : s <= T1 /\ Good(f, S, b, y, g, T1, 1)
    BY <1>14
  <1>17. Holds(g, fr)
    BY <1>14
  <1> HIDE DEF g, f, s
  <1>18. g.LastIndSeq = T1 % M /\ T1 % M \in Int
    BY <1>16, SpaceIs DEF Good
  <1>19. \E T2 \in Int : T1 <= T2 /\ Good(f, S, b, y, InOrder(g, T1 % M), T2, 2)
    BY <1>15, <1>16, InOrderGood
  <1>20. Holds(InOrder(g, T1 % M), fr)
    BY <1>15, <1>17, <1>18, InOrderGains DEF Gains
  <1> QED
    BY <1>1, <1>3, <1>16, <1>18, <1>19, <1>20 DEF f

\* The comparisons of Indicate_AMPDU_Packet are those of the unbounded numbers.
LEMMA Compared ==
  ASSUME NEW n \in Int, NEW T \in Int, NEW W \in Nat, 2 * (W + 1) <= M,
         2 * (n - T) < M, T < n + W
  PROVE  /\ SEQ_STEPONE(n % M, T % M) <=> n = T + 1
         /\ n % M = T % M \/ SEQ_SMALLER(n % M, T % M) <=> n <= T
         /\ n >= T + 2 => (SEQ_SMALLER(n % M, ((T % M) + W + 1) % M) <=> n <= T + W)
  <1>0. M \in Nat
    BY SpaceIs
  <1>1. SEQ_STEPONE(n % M, T % M) <=> n = T + 1
    <2>1. -M < n - (T + 1) /\ n - (T + 1) < M
      BY <1>0
    <2> QED
      BY <2>1, StepNumber
  <1>2. n % M = T % M \/ SEQ_SMALLER(n % M, T % M) <=> n <= T
    <2>1. -M < n - T /\ n - T < M /\ 2 * (T - n) <= M
      BY <1>0
    <2>2. (n % M = T % M <=> n = T) /\ (SEQ_SMALLER(n % M, T % M) <=> n < T)
      BY <2>1, SameNumber, SmallerNumber
    <2> QED
      BY <2>2
  <1>3. ASSUME n >= T + 2
        PROVE  SEQ_SMALLER(n % M, ((T % M) + W + 1) % M) <=> n <= T + W
    <2> DEFINE e == T + (W + 1)
    <2>1. e \in Int /\ 2 * (n - e) < M /\ 2 * (e - n) <= M /\ (n < e <=> n <= T + W)
      BY <1>0, <1>3
    <2>2. ((T % M) + W + 1) % M = e % M
      <3>1. W + 1 \in Int /\ T % M \in Int
        BY SpaceIs
      <3>2. ((T % M) + (W + 1)) % M = e % M
        BY <3>1, ModSum
      <3>3. (T % M) + (W + 1) = (T % M) + W + 1
        BY <3>1
      <3> QED
        BY <3>2, <3>3
    <2> HIDE DEF e
    <2>3. SEQ_SMALLER(n % M, e % M) <=> n < e
      BY <2>1, SmallerNumber
    <2> QED
      BY <2>1, <2>2, <2>3
  <1> QED
    BY <1>1, <1>2, <1>3

\* Frame fr was passed up or is in the list.
Got(S, d, fr) == fr.n \in S \/ Holds(d, fr) \/ \E i \in DOMAIN d.out : d.out[i].n = fr.n

\* Indicate_AMPDU_Packet after the timeouts, for a session with a position.
Arrive(c, fr) ==
  CASE SEQ_STEPONE(Seq12(fr), c.LastIndSeq) ->
         InOrder(Indicate([c EXCEPT !.LastIndSeq = Seq12(fr)], fr), Seq12(fr))
    [] Seq12(fr) = c.LastIndSeq \/ SEQ_SMALLER(Seq12(fr), c.LastIndSeq) -> c
    [] OTHER ->
         IF SEQ_SMALLER(Seq12(fr), (c.LastIndSeq + c.BAWinSize + 1) % M)
         THEN WithinWindow(c, fr) ELSE BeyondWindow(c, fr)

LEMMA ArriveGood ==
  ASSUME NEW c \in CtxType, NEW fr \in FrameType, NEW S \in SUBSET Int, NEW b \in Int,
         NEW x \in Int, NEW y \in Int, NEW T \in Int, Good(fr.flow, S, b, x, c, T, 2),
         b <= fr.n, fr.n < y, x <= y, y <= b + c.BAWinSize, 2 * (fr.n - T) < M,
         "stuck" \notin Arrive(c, fr).why
  PROVE  LET d == Arrive(c, fr) IN
         /\ \E T2 \in Int : T <= T2 /\ Good(fr.flow, S, b, y, d, T2, 2)
         /\ d.why \cap Skips = {} => Got(S, d, fr)
  <1> DEFINE d == Arrive(c, fr)
             f == fr.flow
             n == fr.n
             W == c.BAWinSize
             L == c.LastIndSeq
             s == Seq12(fr)
             e == [c EXCEPT !.LastIndSeq = s]
             h == Indicate(e, fr)
  <1>0. /\ n \in Int /\ s = n % M /\ W \in Nat /\ 2 * (W + 1) <= M /\ L = T % M /\ M \in Nat
        /\ T < x /\ s \in 0 .. MAXSEQ /\ s \in Int
    BY CtxFacts, FrameFacts DEF Good
  <1>1. T < n + W /\ W >= 1 /\ n < b + W /\ 2 * ((n - W) - T) <= M /\ T <= T + 1
    <2>1. b <= n /\ n < y /\ x <= y /\ y <= b + W /\ 2 * (n - T) < M
      OBVIOUS
    <2> HIDE DEF n, W
    <2> QED
      BY <1>0, <2>1
  <1>2. /\ SEQ_STEPONE(s, L) <=> n = T + 1
        /\ s = L \/ SEQ_SMALLER(s, L) <=> n <= T
        /\ n >= T + 2 => (SEQ_SMALLER(s, (L + W + 1) % M) <=> n <= T + W)
    <2>1. 2 * (n - T) < M
      OBVIOUS
    <2> HIDE DEF n, W, s, L
    <2> QED
      BY <1>0, <1>1, <2>1, Compared
  <1>3. CASE n = T + 1
    <2>0. ~(n <= T)
      BY <1>0, <1>3
    <2>1. d = InOrder(h, s)
      BY <1>2, <1>3, <2>0 DEF Arrive
    <2>2. \E T2 \in Int : T + 1 <= T2 /\ Good(f, S, b, y, InOrder(h, s), T2, 2)
      BY <1>3, NextGood
    <2>3. e \in CtxType
      BY <1>0, RecordSeq DEF Keeps
    <2> HIDE DEF e
    <2>4. h \in CtxType /\ Holds(h, fr)
      BY <2>3, IndicateKeeps, IndicateGains DEF Keeps
    <2> HIDE DEF h
    <2>5. Holds(d, fr)
      BY <1>0, <2>1, <2>4, InOrderGains DEF Gains
    <2>6. PICK T2 \in Int : T + 1 <= T2 /\ Good(f, S, b, y, d, T2, 2)
      BY <2>1, <2>2
    <2>7. T <= T2
      BY <2>6
    <2> QED
      BY <2>5, <2>6, <2>7 DEF Got
  <1>4. CASE n <= T
    <2>1. n # T + 1 /\ T <= T /\ n \in b .. T
      BY <1>0, <1>4
    <2>2. d = c
      BY <1>2, <1>4, <2>1 DEF Arrive
    <2>3. Good(f, S, b, y, d, T, 2)
      BY <2>2, GoodWeaker
    <2>4. d.why \cap Skips = {} => Got(S, d, fr)
      BY <2>1, <2>2 DEF Good, Got
    <2> QED
      BY <2>1, <2>3, <2>4
  <1>5. CASE n >= T + 2 /\ n <= T + W
    <2>0. n # T + 1 /\ ~(n <= T) /\ n \in T + 2 .. T + W
      <3> HIDE DEF n, W
      <3> QED
        BY <1>0, <1>5
    <2>1. d = WithinWindow(c, fr)
      BY <1>2, <1>5, <2>0 DEF Arrive
    <2>2. /\ \E T2 \in Int : T <= T2 /\ Good(f, S, b, y, WithinWindow(c, fr), T2, 2)
          /\ Holds(WithinWindow(c, fr), fr)
      BY <2>0, <2>1, WithinGood
    <2> QED
      BY <2>1, <2>2 DEF Got
  <1>6. CASE n >= T + 2 /\ ~(n <= T + W)
    <2>0. n # T + 1 /\ ~(n <= T) /\ n > T + W
      <3> HIDE DEF n, W
      <3> QED
        BY <1>0, <1>6
    <2>1. d = BeyondWindow(c, fr)
      BY <1>2, <1>6, <2>0 DEF Arrive
    <2>2. /\ \E T2 \in Int : T <= T2 /\ Good(f, S, b, y, BeyondWindow(c, fr), T2, 2)
          /\ Holds(BeyondWindow(c, fr), fr)
      BY <1>1, <2>0, BeyondGood
    <2> QED
      BY <2>1, <2>2 DEF Got
  <1>7. n = T + 1 \/ n <= T \/ (n >= T + 2 /\ n <= T + W) \/ (n >= T + 2 /\ ~(n <= T + W))
    <2>1. n \in Int
      BY <1>0
    <2> HIDE DEF n, W
    <2>2. n = T + 1 \/ n <= T \/ n >= T + 2
      BY <2>1
    <2> QED
      BY <2>2
  <1> QED
    BY <1>3, <1>4, <1>5, <1>6, <1>7

\* A frame arrives: the position stands for a frame, and the frame is not lost.
LEMMA AmpduGood ==
  ASSUME NEW c0 \in CtxType, NEW fr \in FrameType, NEW S \in SUBSET Int, NEW b \in Int,
         NEW x \in Int, NEW y \in Int, c0.out = <<>>,
         b <= fr.n, fr.n < y, x <= y, y <= b + c0.BAWinSize,
         \/ c0.LastIndSeq = RESET /\ c0.list = <<>> /\ ("refresh" \notin c0.why => S = {})
         \/ \E T \in Int : /\ Good(fr.flow, S, b, x, c0, T, 2)
                           /\ 2 * (fr.n - T) < M /\ 2 * (y - T) <= M,
         "stuck" \notin Indicate_AMPDU(c0, fr, b).why
  PROVE  LET d == Indicate_AMPDU(c0, fr, b) IN
         /\ \E T2 \in Int : Good(fr.flow, S, b, y, d, T2, 2) /\ 2 * (y - T2) <= M
         /\ d.why \cap Skips = {} => Got(S, d, fr)
  <1> DEFINE d == Indicate_AMPDU(c0, fr, b)
             a == FlushTimeout(c0)
             c == [a EXCEPT !.age = 0]
             n == fr.n
             s == Seq12(fr)
             W == c0.BAWinSize
             w == IF fr.n = b THEN c.why ELSE c.why \cup {"first"}
             e == [c EXCEPT !.LastIndSeq = s, !.why = w]
  <1>0. /\ n \in Int /\ W \in Nat /\ 2 * (W + 1) <= M /\ M \in Nat
        /\ s \in 0 .. MAXSEQ
    BY CtxFacts, FrameFacts
  <1>1. a \in CtxType /\ a.BAWinSize = W
    BY FlushTimeoutKeeps DEF Keeps
  <1>2. /\ c.LastIndSeq = RESET => d = Indicate(e, fr)
        /\ c.LastIndSeq # RESET => d = Arrive(c, fr)
    BY DEF Indicate_AMPDU, Arrive
  <1>a. c0.LastIndSeq = RESET /\ c0.list = <<>> => a = c0
    <2>1. c0.list = <<>> => Len(c0.list) = 0
      OBVIOUS
    <2> QED
      BY <2>1 DEF FlushTimeout
  <1>3. \/ a.LastIndSeq = RESET /\ a.list = <<>> /\ ("refresh" \notin a.why => S = {} /\ a.out = <<>>)
        \/ \E T \in Int : /\ Good(fr.flow, S, b, x, a, T, 2)
                          /\ 2 * (fr.n - T) < M /\ 2 * (y - T) <= M
    <2>1. CASE c0.LastIndSeq = RESET /\ c0.list = <<>> /\ ("refresh" \notin c0.why => S = {})
      BY <1>a, <2>1
    <2>2. ASSUME NEW T \in Int, Good(fr.flow, S, b, x, c0, T, 2),
                 2 * (fr.n - T) < M, 2 * (y - T) <= M
          PROVE  \/ a.LastIndSeq = RESET /\ a.list = <<>> /\ "refresh" \in a.why
                 \/ \E T2 \in Int : /\ Good(fr.flow, S, b, x, a, T2, 2)
                                    /\ 2 * (fr.n - T2) < M /\ 2 * (y - T2) <= M
      <3> HIDE DEF a
      <3>1. \/ a.LastIndSeq = RESET /\ a.list = <<>> /\ "refresh" \in a.why
            \/ \E T2 \in Int : T <= T2 /\ Good(fr.flow, S, b, x, a, T2, 2)
        BY <2>2, FlushGood DEF a
      <3>2. ASSUME NEW T2 \in Int, T <= T2
            PROVE  2 * (fr.n - T2) < M /\ 2 * (y - T2) <= M
        <4> HIDE DEF n
        <4>1. 2 * (n - T) < M /\ 2 * (y - T) <= M
          BY <2>2 DEF n
        <4>2. 2 * (n - T2) < M /\ 2 * (y - T2) <= M
          BY <1>0, <3>2, <4>1
        <4> QED
          BY <4>2 DEF n
      <3> QED
        BY <3>1, <3>2
    <2> HIDE DEF a
    <2> QED
      BY <2>1, <2>2
  <1> HIDE DEF a
  <1>4. /\ c \in CtxType /\ c.out = a.out /\ c.list = a.list /\ c.why = a.why
        /\ c.LastIndSeq = a.LastIndSeq /\ c.BAWinSize = W
    <2>1. c \in CtxType
      BY <1>1, RecordAge DEF Keeps
    <2>2. /\ c.out = a.out /\ c.list = a.list /\ c.why = a.why
          /\ c.LastIndSeq = a.LastIndSeq /\ c.BAWinSize = W
      BY <1>1 DEF CtxType
    <2> QED
      BY <2>1, <2>2
  <1> HIDE DEF c
  <1>5. ASSUME a.LastIndSeq = RESET /\ a.list = <<>> /\ ("refresh" \notin a.why => S = {} /\ a.out = <<>>)
        PROVE  /\ \E T2 \in Int : Good(fr.flow, S, b, y, d, T2, 2) /\ 2 * (y - T2) <= M
               /\ d.why \cap Skips = {} => Got(S, d, fr)
    <2>1. d = Indicate(e, fr)
      BY <1>2, <1>4, <1>5
    <2>2. Good(fr.flow, S, b, y, Indicate(e, fr), fr.n, 2)
      BY <1>4, <1>5, ResetGood
    <2>3. 2 * (y - n) <= M
      <3>1. b <= n /\ y <= b + W
        OBVIOUS
      <3> HIDE DEF n, W
      <3> QED
        BY <1>0, <3>1
    <2>4. e \in CtxType
      <3>1. w \in SUBSET Causes
        BY <1>4 DEF CtxType, Causes
      <3> HIDE DEF w, s
      <3> QED
        BY <1>0, <1>4, <3>1, RecordBoth DEF Keeps
    <2> HIDE DEF e
    <2>5. Holds(d, fr)
      BY <2>1, <2>4, IndicateGains
    <2> HIDE DEF d
    <2> QED
      BY <1>0, <2>1, <2>2, <2>3, <2>5 DEF Got
  <1>6. ASSUME NEW T \in Int, Good(fr.flow, S, b, x, a, T, 2),
               2 * (fr.n - T) < M, 2 * (y - T) <= M
        PROVE  /\ \E T2 \in Int : Good(fr.flow, S, b, y, d, T2, 2) /\ 2 * (y - T2) <= M
               /\ d.why \cap Skips = {} => Got(S, d, fr)
    <2>1. Good(fr.flow, S, b, x, c, T, 2)
      BY <1>1, <1>4, <1>6, GoodSame
    <2>2. c.LastIndSeq # RESET
      BY <2>1, SpaceIs DEF Good
    <2>3. d = Arrive(c, fr)
      BY <1>2, <2>2
    <2>4. "stuck" \notin d.why /\ y <= b + c.BAWinSize
      BY <1>4
    <2> HIDE DEF d
    <2>5. /\ \E T2 \in Int : T <= T2 /\ Good(fr.flow, S, b, y, d, T2, 2)
          /\ d.why \cap Skips = {} => Got(S, d, fr)
      BY <1>4, <1>6, <2>1, <2>3, <2>4, ArriveGood
    <2>6. PICK T2 \in Int : T <= T2 /\ Good(fr.flow, S, b, y, d, T2, 2)
      BY <2>5
    <2>7. 2 * (y - T2) <= M
      BY <1>0, <1>6, <2>6
    <2> QED
      BY <2>5, <2>6, <2>7
  <1> HIDE DEF d
  <1>7. /\ \E T2 \in Int : Good(fr.flow, S, b, y, d, T2, 2) /\ 2 * (y - T2) <= M
        /\ d.why \cap Skips = {} => Got(S, d, fr)
    BY <1>3, <1>5, <1>6
  <1> QED
    BY <1>7 DEF d

\* The position that a BlockAckReq sets is the number before its start.
LEMMA BeforeStart ==
  ASSUME NEW b \in Int
  PROVE  (IF b % M = 0 THEN MAXSEQ ELSE (b % M) - 1) = (b - 1) % M
  <1> DEFINE s == b % M
  <1>1. s \in 0 .. MAXSEQ /\ s \in Int /\ M = MAXSEQ + 1 /\ M \in Nat /\ MAXSEQ \in Nat
    BY SpaceIs, ConstantsAssumption DEF Positions, ConstantsAssumption
  <1>2. (s + (-1)) % M = (b + (-1)) % M
    BY ModSum
  <1> HIDE DEF s
  <1>3. s + (-1) = s - 1 /\ b + (-1) = b - 1
    BY <1>1
  <1>4. (s - 1) % M = IF s = 0 THEN MAXSEQ ELSE s - 1
    <2>1. s - 1 \in Int /\ (s = 0 => -M <= s - 1 /\ s - 1 < 0 /\ (s - 1) + M = MAXSEQ)
          /\ (s # 0 => 0 <= s - 1 /\ s - 1 < M)
      BY <1>1
    <2> QED
      BY <2>1, Reduce
  <1> QED
    BY <1>2, <1>3, <1>4 DEF s

\* A BlockAckReq that moves the window to the originator's oldest frame b.
LEMMA MoveGood ==
  ASSUME NEW c \in CtxType, NEW f, NEW S \in SUBSET Int, NEW b \in Int, NEW x \in Int,
         NEW T \in Int, Good(f, S, b, x, c, T, 2), b <= x, x <= b + c.BAWinSize,
         2 * (x - T) <= M, T < b, NEW d \in CtxType, d.BAWinSize = c.BAWinSize,
         d.list = LeSeq(c, b % M).list, d.out = LeSeq(c, b % M).out,
         d.LastIndSeq = (b - 1) % M, d.why = c.why \cup Again(c, b % M)
  PROVE  Good(f, S, b, x, d, b - 1, 2) /\ 2 * (x - (b - 1)) <= M
  <1> DEFINE W == c.BAWinSize
             a == LeSeq(c, b % M)
             q == b - 1
             k == Slack(c.why)
             k2 == Slack(d.why)
  <1>0. /\ W \in Nat /\ 2 * (W + 1) <= M /\ M \in Nat /\ x <= b + W
        /\ c.list \in Seq(FrameType) /\ c.out \in Seq(FrameType) /\ k \in Nat /\ k2 \in Nat
    BY CtxFacts
  <1>1. /\ q \in Int /\ T <= q /\ 2 * (b - T) <= M /\ (b + 1) - q = 2 /\ q < x
        /\ 2 * (x - q) <= M /\ \A m \in b .. q : FALSE
    <2> HIDE DEF W
    <2> QED
      BY <1>0
  <1>2. Follows(f, c.list, T, 1, W) /\ \A i \in DOMAIN c.list : c.list[i].n < x
    <2>1. Follows(f, c.list, T, 2, W) /\ T <= T /\ T + 1 <= T + 2
      BY DEF Good
    <2>2. Follows(f, c.list, T, 1, W)
      <3>1. c.list \in Seq(FrameType) /\ W \in Int
        BY <1>0
      <3> HIDE DEF W
      <3> QED
        BY <2>1, <3>1, FollowsShift
    <2> QED
      BY <2>2 DEF Good
  <1> HIDE DEF q
  <1>3. Follows(f, a.list, q, (b + 1) - q, W)
    BY <1>1, <1>2, LeSeqAfter
  <1>4. \A i \in DOMAIN a.list : \E j \in DOMAIN c.list : a.list[i] = c.list[j]
    BY <1>1, <1>2, LeSeqAfter, ZenonT(30)
  <1>5. k <= k2
    BY DEF Slack
  <1>6. ASSUME "refresh" \notin c.why PROVE Rises(S, a.out, a.list, q, k2)
    <2>1. Rises(S, c.out, c.list, T, k)
      BY <1>6 DEF Good
    <2>2. \A i \in DOMAIN c.list : c.list[i].n <= b => c.list[i].n <= q + k2
      <3> SUFFICES ASSUME NEW i \in DOMAIN c.list PROVE c.list[i].n <= b => c.list[i].n <= q + k2
        OBVIOUS
      <3> DEFINE z == c.list[i].n
      <3>1. z \in Int
        BY <1>0, NumberOf
      <3>2. z = b => k2 = 1
        <4>1. z = b => Seq12(c.list[i]) = b % M
          BY DEF Seq12
        <4>2. z = b => "again" \in Again(c, b % M)
          BY <4>1 DEF Again
        <4> QED
          BY <4>2 DEF Slack
      <3> HIDE DEF z, k2
      <3>3. z <= b => z <= q + k2
        BY <1>0, <3>1, <3>2 DEF q
      <3> QED
        BY <3>3 DEF z
    <2> HIDE DEF k, k2
    <2> QED
      BY <1>0, <1>1, <1>2, <1>5, <2>1, <2>2, LeSeqRises
  <1>7. d.LastIndSeq = q % M
    BY DEF q
  <1>8. \A i \in DOMAIN d.list : d.list[i].n < x
    BY <1>2, <1>4
  <1>9. Good(f, S, b, x, d, q, 2)
    <2>1. Follows(f, d.list, q, 2, d.BAWinSize)
      BY <1>1, <1>3
    <2>2. "refresh" \notin d.why => Rises(S, d.out, d.list, q, k2)
      BY <1>6
    <2> HIDE DEF a
    <2> QED
      BY <1>1, <1>7, <1>8, <2>1, <2>2 DEF Good
  <1> QED
    BY <1>1, <1>9 DEF q

LEMMA BarGood ==
  ASSUME NEW c \in CtxType, NEW f, NEW S \in SUBSET Int, NEW b \in Int, NEW x \in Int,
         c.out = <<>>, b <= x, x <= b + c.BAWinSize,
         \/ c.LastIndSeq = RESET /\ c.list = <<>> /\ ("refresh" \notin c.why => S = {})
         \/ \E T \in Int : Good(f, S, b, x, c, T, 2) /\ 2 * (x - T) <= M
  PROVE  LET d == BlockAckReq(c, b % M) IN
         \/ d = c /\ c.LastIndSeq = RESET
         \/ \E T2 \in Int : Good(f, S, b, x, d, T2, 2) /\ 2 * (x - T2) <= M
  <1> DEFINE W == c.BAWinSize
             start == b % M
             a == LeSeq(c, start)
             q == b - 1
             w == c.why \cup Again(c, start)
             e == [a EXCEPT !.LastIndSeq = q % M, !.why = w]
             d == BlockAckReq(c, start)
  <1>0. /\ W \in Nat /\ 2 * (W + 1) <= M /\ M \in Nat /\ x <= b + W /\ start \in Int /\ q \in Int
        /\ c.list \in Seq(FrameType) /\ start \in 0 .. MAXSEQ
    BY CtxFacts, SpaceIs DEF Positions
  <1>1. d = IF SEQ_SMALLER(c.LastIndSeq, start) THEN e ELSE c
    BY BeforeStart DEF BlockAckReq
  <1>2. /\ a \in CtxType /\ a.why = c.why /\ a.BAWinSize = W
        /\ c.list = <<>> => a.list = <<>>
    BY <1>0, LeSeqKeeps, LeSeqMoves DEF Keeps
  <1>3. /\ e \in CtxType /\ e.list = a.list /\ e.out = a.out /\ e.why = w /\ e.BAWinSize = W
        /\ e.LastIndSeq = q % M
    <2>1. w \in SUBSET Causes /\ q % M \in 0 .. MAXSEQ
      BY <1>0, CtxFacts, SpaceIs DEF Positions, Causes, Again
    <2> HIDE DEF w, a, q
    <2> QED
      BY <1>2, <2>1 DEF CtxType
  <1>4. CASE c.LastIndSeq = RESET /\ c.list = <<>> /\ ("refresh" \notin c.why => S = {})
    <2>1. a.list = <<>> /\ a.out = <<>>
      <3> DEFINE fr(i) == a.out[i]
      <3>1. a.list = <<>>
        BY <1>2, <1>4
      <3>2. Gains(c, a, {})
        BY <1>0, LeSeqGains
      <3>3. DOMAIN c.out = {} /\ DOMAIN c.list = {}
        BY <1>4
      <3>4. \A i \in DOMAIN a.out : FALSE
        BY <3>2, <3>3 DEF Gains, Holds, In
      <3>5. a.out \in Seq(FrameType)
        BY <1>2, CtxFacts
      <3> HIDE DEF a
      <3>6. Len(a.out) = 0
        <4>1. DOMAIN a.out = 1 .. Len(a.out) /\ Len(a.out) \in Nat
          BY <3>5
        <4>2. 1 \notin DOMAIN a.out
          BY <3>4
        <4> QED
          BY <4>1, <4>2
      <3> QED
        BY <3>1, <3>5, <3>6
    <2> HIDE DEF a, e
    <2>2. /\ DOMAIN e.list = {} /\ DOMAIN e.out = {}
      BY <1>3, <2>1
    <2>3. w = c.why
      BY <1>4 DEF Again
    <2>4. Slack(e.why) \in Nat /\ q < x /\ 2 * (x - q) <= M /\ \A m \in b .. q : FALSE
      <3>1. Slack(e.why) \in Nat
        BY DEF Slack
      <3> HIDE DEF W
      <3> QED
        BY <1>0, <3>1
    <2>5. Good(f, S, b, x, e, q, 2)
      <3>1. Follows(f, e.list, q, 2, e.BAWinSize)
        BY <2>2 DEF Follows
      <3>2. "refresh" \notin e.why => Rises(S, e.out, e.list, q, Slack(e.why))
        BY <1>3, <1>4, <2>2, <2>3 DEF Rises
      <3> HIDE DEF q
      <3> QED
        BY <1>3, <2>2, <2>4, <3>1, <3>2 DEF Good
    <2> QED
      BY <1>0, <1>1, <1>4, <2>4, <2>5
  <1>5. ASSUME NEW T \in Int, Good(f, S, b, x, c, T, 2), 2 * (x - T) <= M
        PROVE  \E T2 \in Int : Good(f, S, b, x, d, T2, 2) /\ 2 * (x - T2) <= M
    <2>1. c.LastIndSeq = T % M /\ T < x
      BY <1>5 DEF Good
    <2>2. 2 * (T - b) < M /\ 2 * (b - T) <= M
      <3> HIDE DEF W
      <3> QED
        BY <1>0, <1>5, <2>1
    <2>3. SEQ_SMALLER(T % M, b % M) <=> T < b
      BY <2>2, SmallerNumber
    <2>4. CASE T < b
      <3>1. d = e
        BY <1>1, <2>1, <2>3, <2>4
      <3>2. Good(f, S, b, x, e, b - 1, 2) /\ 2 * (x - (b - 1)) <= M
        <4> HIDE DEF e
        <4> QED
          BY <1>3, <1>5, <2>4, MoveGood
      <3> QED
        BY <1>0, <3>1, <3>2
    <2>5. CASE ~(T < b)
      BY <1>1, <1>5, <2>1, <2>3, <2>5
    <2> QED
      BY <2>4, <2>5
  <1> QED
    BY <1>4, <1>5

-----------------------------------------------------------------------------
(* The history of a flow                                                   *)

Ns(out, f) == [i \in DOMAIN out |-> IF out[i].flow = f THEN {out[i].n} ELSE {}]
Earlier(S, ns, i) == S \cup UNION {ns[j] : j \in 1 .. i - 1}

\* Whether a frame is passed up twice, or after a later one.
Twice(f, S, ns) == Ordered(f) /\ \E i \in DOMAIN ns : ns[i] \cap Earlier(S, ns, i) # {}
Back(f, S, ns) ==
  Ordered(f) /\ \E i \in DOMAIN ns : \E n \in ns[i], m \in Earlier(S, ns, i) : n < m

LEMMA PassedIs ==
  ASSUME ~ghost.raced, NEW out, NEW f \in Flows
  PROVE  /\ Passed(out)[f].seen = up[f].seen \cup UNION Range(Ns(out, f))
         /\ Passed(out)[f].twice <=> up[f].twice \/ Twice(f, up[f].seen, Ns(out, f))
         /\ Passed(out)[f].back <=> up[f].back \/ Back(f, up[f].seen, Ns(out, f))
  <1> DEFINE ns == Ns(out, f)
             u == up[f]
             p == Passed(out)[f]
             t == Ordered(f) /\ \E i \in DOMAIN ns : ns[i] \cap Earlier(u.seen, ns, i) # {}
             b == /\ Ordered(f)
                  /\ \E i \in DOMAIN ns : \E n \in ns[i], m \in Earlier(u.seen, ns, i) : n < m
  <1>1. p = [seen |-> u.seen \cup UNION Range(ns), twice |-> u.twice \/ t, back |-> u.back \/ b]
    BY DEF Passed, Ns, Earlier
  <1>2. (t <=> Twice(f, u.seen, ns)) /\ (b <=> Back(f, u.seen, ns))
    BY DEF Twice, Back
  <1> HIDE DEF t, b, p, ns, u
  <1>3. p.seen = u.seen \cup UNION Range(ns) /\ (p.twice <=> u.twice \/ t) /\ (p.back <=> u.back \/ b)
    BY <1>1
  <1>4. p.twice <=> u.twice \/ Twice(f, u.seen, ns)
    BY <1>2, <1>3
  <1>5. p.back <=> u.back \/ Back(f, u.seen, ns)
    BY <1>2, <1>3
  <1> QED
    BY <1>3, <1>4, <1>5 DEF p, ns, u

LEMMA SameTruth ==
  ASSUME NEW A \in BOOLEAN, NEW B \in BOOLEAN, NEW X, A <=> B \/ X, ~X
  PROVE  A = B
  <1>1. A => B
    OBVIOUS
  <1>2. B => A
    OBVIOUS
  <1> QED
    BY <1>1, <1>2

\* The numbers of the frames passed up.
OfFlow(f, l) == \A i \in DOMAIN l : l[i].flow = f
Passing(out) == {out[i].n : i \in DOMAIN out}

\* A flow none of whose frames is passed up.
LEMMA PassedNone ==
  ASSUME up \in [Flows -> UpType], ~ghost.raced, NEW out \in Seq(FrameType), NEW g \in Flows,
         \A i \in DOMAIN out : out[i].flow # g
  PROVE  Passed(out)[g] = up[g]
  <1> DEFINE ns == Ns(out, g)
             u == up[g]
             p == Passed(out)[g]
  <1>0. u \in UpType
    OBVIOUS
  <1>1. DOMAIN ns = DOMAIN out /\ \A i \in DOMAIN ns : ns[i] = {}
    BY DEF Ns
  <1> HIDE DEF ns, u
  <1>2. UNION Range(ns) = {}
    BY <1>1 DEF Range
  <1>3. ~Twice(g, u.seen, ns) /\ ~Back(g, u.seen, ns)
    BY <1>1 DEF Twice, Back
  <1>4. /\ p.seen = u.seen \cup UNION Range(ns)
        /\ p.twice <=> u.twice \/ Twice(g, u.seen, ns)
        /\ p.back <=> u.back \/ Back(g, u.seen, ns)
    BY PassedIs DEF ns, u
  <1>5. p \in UpType
    BY PassedOK
  <1> HIDE DEF p
  <1>6. /\ p.twice \in BOOLEAN /\ u.twice \in BOOLEAN
        /\ p.back \in BOOLEAN /\ u.back \in BOOLEAN
    BY <1>0, <1>5 DEF UpType
  <1>7. p.twice = u.twice /\ p.back = u.back
    BY <1>3, <1>4, <1>6, SameTruth
  <1>8. p.seen = u.seen
    BY <1>2, <1>4
  <1>9. p = u
    BY <1>0, <1>5, <1>7, <1>8 DEF UpType
  <1> QED
    BY <1>9 DEF u, p

\* A flow all of whose frames are passed up: what was seen before, the frames
\* in their order, with repetitions only if k is 1.
LEMMA PassedOwn ==
  ASSUME up \in [Flows -> UpType], ~ghost.raced, NEW out \in Seq(FrameType), NEW f \in Flows,
         \A i \in DOMAIN out : out[i].flow = f
  PROVE  Passed(out)[f].seen = up[f].seen \cup Passing(out)
  <1> DEFINE ns == Ns(out, f)
  <1>1. DOMAIN ns = DOMAIN out /\ \A i \in DOMAIN ns : ns[i] = {out[i].n}
    BY DEF Ns
  <1>2. Passed(out)[f].seen = up[f].seen \cup UNION Range(ns)
    BY PassedIs
  <1> HIDE DEF ns
  <1>3. UNION Range(ns) = Passing(out)
    BY <1>1 DEF Range, Passing
  <1> QED
    BY <1>2, <1>3

LEMMA PassedRises ==
  ASSUME up \in [Flows -> UpType], ~ghost.raced, NEW out \in Seq(FrameType), NEW f \in Flows,
         OfFlow(f, out),
         NEW l, NEW T, NEW k \in {0, 1}, Rises(up[f].seen, out, l, T, k)
  PROVE  /\ ~up[f].back => ~Passed(out)[f].back
         /\ k = 0 /\ ~up[f].twice => ~Passed(out)[f].twice
  <1> DEFINE ns == Ns(out, f)
             u == up[f]
             p == Passed(out)[f]
  <1>0. u \in UpType /\ u.seen \subseteq Int /\ \A i \in DOMAIN out : out[i].n \in Int
    BY NumberOf, ConstantsAssumption DEF UpType, Frames, ConstantsAssumption
  <1>1. DOMAIN ns = DOMAIN out /\ \A i \in DOMAIN ns : ns[i] = {out[i].n}
    BY DEF Ns, OfFlow
  <1>2. DOMAIN out = 1 .. Len(out) /\ Len(out) \in Nat
    OBVIOUS
  <1>3. /\ p.twice <=> u.twice \/ Twice(f, u.seen, ns)
        /\ p.back <=> u.back \/ Back(f, u.seen, ns)
    BY PassedIs
  <1> HIDE DEF ns, u, p
  <1>4. ASSUME NEW i \in DOMAIN out, NEW m \in Earlier(u.seen, ns, i)
        PROVE  m \in Int /\ m < out[i].n + k
    <2>1. CASE m \in u.seen
      <3>1. m < out[i].n + k
        BY <2>1 DEF Rises, u
      <3> QED
        BY <1>0, <2>1, <3>1
    <2>2. CASE m \notin u.seen
      <3>1. PICK j \in 1 .. i - 1 : m \in ns[j]
        BY <2>2 DEF Earlier
      <3>2. j \in DOMAIN out /\ j < i
        BY <1>2
      <3>3. m = out[j].n
        BY <1>1, <3>1, <3>2
      <3>4. out[j].n < out[i].n + k
        BY <3>2 DEF Rises
      <3> QED
        BY <1>0, <3>2, <3>3, <3>4
    <2> QED
      BY <2>1, <2>2
  <1>5. ~Back(f, u.seen, ns)
    <2> SUFFICES ASSUME NEW i \in DOMAIN out, NEW m \in Earlier(u.seen, ns, i), out[i].n < m
                 PROVE  FALSE
      BY <1>1 DEF Back
    <2>1. m \in Int /\ m < out[i].n + k /\ out[i].n \in Int
      BY <1>0, <1>4
    <2> QED
      BY <2>1
  <1>6. k = 0 => ~Twice(f, u.seen, ns)
    <2> SUFFICES ASSUME NEW i \in DOMAIN out, out[i].n \in Earlier(u.seen, ns, i), k = 0
                 PROVE  FALSE
      BY <1>1 DEF Twice
    <2>1. out[i].n < out[i].n + k /\ out[i].n \in Int
      BY <1>0, <1>4
    <2> QED
      BY <2>1
  <1>7. ~u.back => ~p.back
    BY <1>3, <1>5
  <1>8. k = 0 /\ ~u.twice => ~p.twice
    BY <1>3, <1>6
  <1> QED
    BY <1>7, <1>8 DEF u, p

-----------------------------------------------------------------------------
(***************************************************************************)
(* The inductive invariant.  For a flow f: e is its index, r its entry, s  *)
(* whether its station is known, o its originator, u what was passed up    *)
(* and w what was done that may cost frames or their order.                *)
(***************************************************************************)

\* The position of the session stands for frame T: less than half of the
\* space behind the originator, with the list after it and what was passed up
\* before it.
Placed(f, r, o, S, w, T) ==
  /\ r.LastIndSeq = T % M
  /\ Follows(f, r.list, T, 2, r.BAWinSize)
  /\ o.open => /\ T < o.next /\ 2 * (o.next - T) <= M
               /\ \A i \in DOMAIN r.list : r.list[i].n < o.next
  /\ "refresh" \notin w => Rises(S, <<>>, r.list, T, Slack(w))
  /\ o.open /\ w \cap Skips = {} => \A m \in o.base .. T : m \in S

InSession(f, r, o, S, w) ==
  IF r.LastIndSeq = RESET THEN r.list = <<>> /\ ("refresh" \notin w => S = {})
  ELSE \E T \in Int : Placed(f, r, o, S, w, T)

Positioned(f, e, r, o, u, w) ==
  e # 0 /\ w \cap {"stuck", "behind"} = {} => InSession(f, r, o, u.seen, w)

\* The originator keeps to the window that it was granted.
Agreed(e, r, s, o) ==
  /\ o.open /\ e # 0 => o.win = r.BAWinSize
  /\ o.open => o.next <= o.base + o.win
  /\ ~o.open \/ e = 0 => o.acked = {}
  /\ ~s => ~o.open

InOrderSoFar(e, u, w) ==
  e # 0 /\ w \cap {"refresh", "stuck", "behind"} = {} =>
    ~u.back /\ ("again" \notin w => ~u.twice)

Survives(f, r, o, u, w) ==
  w \cap {"first", "timeout", "direct", "behind"} = {} =>
    \A n \in o.acked : \/ n \in u.seen
                       \/ \E i \in DOMAIN r.list : r.list[i] = [flow |-> f, n |-> n]

Flowing(f, e, r, s, o, u, w) ==
  /\ Positioned(f, e, r, o, u, w)
  /\ Agreed(e, r, s, o)
  /\ "stuck" \in w => w \cap {"direct", "behind"} # {}
  /\ InOrderSoFar(e, u, w)
  /\ Survives(f, r, o, u, w)

EntryOf(f) == IF idx[f] = 0 THEN FreeEntry ELSE rec[idx[f]]
FlowOK(f) == Flowing(f, idx[f], EntryOf(f), sta[f], orig[f], up[f], why[f])

\* A list holds frames of the flow of its entry, and none without a session.
Clean(r) ==
  /\ r.status = "NONE" => r.list = <<>>
  /\ \A i \in DOMAIN r.list : r.list[i].flow = r.flow

Order == (\A f \in Flows : FlowOK(f)) /\ (\A e \in Entries : Clean(rec[e]))
OrderInv == ~ghost.raced => Order

LEMMA OrderInit == Init => OrderInv
  <1> SUFFICES ASSUME Init PROVE Order
    BY DEF OrderInv
  <1>1. ASSUME NEW f \in Flows PROVE FlowOK(f)
    <2>1. /\ idx[f] = 0 /\ orig[f] = NoOrig /\ up[f] = NothingUp /\ why[f] = {} /\ sta[f] = TRUE
      BY DEF Init
    <2>2. NoOrig.open = FALSE /\ NoOrig.acked = {}
      BY DEF NoOrig
    <2> QED
      BY <2>1, <2>2 DEF FlowOK, Flowing, Positioned, Agreed, InOrderSoFar, Survives
  <1>2. ASSUME NEW e \in Entries PROVE Clean(rec[e])
    <2>1. rec[e].list = <<>>
      BY DEF Init, FreeEntry
    <2> QED
      BY <2>1 DEF Clean
  <1> QED
    BY <1>1, <1>2 DEF Order

\* What a flow's invariant depends on.
LEMMA FlowSame ==
  ASSUME NEW g \in Flows, FlowOK(g), idx'[g] = idx[g],
         idx[g] # 0 => /\ rec'[idx[g]].LastIndSeq = rec[idx[g]].LastIndSeq
                       /\ rec'[idx[g]].list = rec[idx[g]].list
                       /\ rec'[idx[g]].BAWinSize = rec[idx[g]].BAWinSize,
         sta'[g] = sta[g], orig'[g] = orig[g], up'[g] = up[g], why'[g] = why[g]
  PROVE  FlowOK(g)'
  <1>1. CASE idx[g] = 0
    BY <1>1 DEF FlowOK, EntryOf
  <1>2. CASE idx[g] # 0
    <2> DEFINE r == rec[idx[g]]
               q == rec'[idx[g]]
    <2>1. q.LastIndSeq = r.LastIndSeq /\ q.list = r.list /\ q.BAWinSize = r.BAWinSize
      BY <1>2
    <2>2. Flowing(g, idx[g], r, sta[g], orig[g], up[g], why[g])
      BY <1>2 DEF FlowOK, EntryOf
    <2> HIDE DEF r, q
    <2>3. Flowing(g, idx[g], q, sta[g], orig[g], up[g], why[g])
      BY <2>1, <2>2
      DEF Flowing, Positioned, InSession, Placed, Agreed, InOrderSoFar, Survives
    <2>4. FlowOK(g)' = Flowing(g, idx[g], q, sta[g], orig[g], up[g], why[g])
      BY <1>2 DEF FlowOK, EntryOf, q
    <2> QED
      BY <2>3, <2>4
  <1> QED
    BY <1>1, <1>2

\* A flow without a session, whose history ended with it.
LEMMA FlowEnded ==
  ASSUME NEW f, NEW r, NEW s, NEW o, o.acked = {}, o.open => o.next <= o.base + o.win,
         ~s => ~o.open
  PROVE  Flowing(f, 0, r, s, o, NothingUp, {})
  BY DEF Flowing, Positioned, Agreed, InOrderSoFar, Survives

\* The originator of a session ends it, and the recipient does not know.
LEMMA FlowClosed ==
  ASSUME NEW f, NEW e, NEW r, NEW s, NEW s2, NEW o, NEW u, NEW w, Flowing(f, e, r, s, o, u, w)
  PROVE  Flowing(f, e, r, s2, NoOrig, u, w)
  <1>1. NoOrig.open = FALSE /\ NoOrig.acked = {}
    BY DEF NoOrig
  <1>2. ASSUME NEW S, InSession(f, r, o, S, w) PROVE InSession(f, r, NoOrig, S, w)
    <2>1. CASE r.LastIndSeq = RESET
      BY <1>2, <2>1 DEF InSession
    <2>2. CASE r.LastIndSeq # RESET
      <3>1. PICK T \in Int : Placed(f, r, o, S, w, T)
        BY <1>2, <2>2 DEF InSession
      <3>2. Placed(f, r, NoOrig, S, w, T)
        BY <1>1, <3>1 DEF Placed
      <3> QED
        BY <2>2, <3>2 DEF InSession
    <2> QED
      BY <2>1, <2>2
  <1>3. Positioned(f, e, r, NoOrig, u, w)
    BY <1>2 DEF Flowing, Positioned
  <1> QED
    BY <1>1, <1>3 DEF Flowing, Agreed, InOrderSoFar, Survives

-----------------------------------------------------------------------------
(* Where a copy can get stuck                                              *)

LEMMA WithinStuck ==
  ASSUME NEW c \in CtxType, NEW fr \in FrameType, NEW S \in SUBSET Int, NEW b \in Int,
         NEW x \in Int, NEW T \in Int, Good(fr.flow, S, b, x, c, T, 2),
         fr.n \in T + 2 .. T + c.BAWinSize, "stuck" \notin c.why
  PROVE  "stuck" \in WithinWindow(c, fr).why => "direct" \in WithinWindow(c, fr).why
  <1> DEFINE d == Enqueue(c, fr)
             l == d.list
             W == c.BAWinSize
             stuck == d.list # <<>> /\ SEQ_STEPONE(Seq12(Head(d.list)), d.LastIndSeq)
             e == [d EXCEPT !.why = d.why \cup {"stuck"}]
             r == WithinWindow(c, fr)
  <1>0. W \in Nat /\ 2 * (W + 1) <= M /\ M \in Nat /\ fr.n \in Int
    BY CtxFacts, FrameFacts
  <1>1. d \in CtxType /\ l \in Seq(FrameType)
    BY EnqueueKeeps DEF CtxType
  <1>2. r = IF stuck THEN e ELSE d
    BY DEF WithinWindow
  <1>3. ASSUME d = InsertSorted(c, fr) PROVE "stuck" \notin r.why
    <2>1. /\ \A i \in DOMAIN c.list : c.list[i].n \in T + 2 .. T + W
          /\ c.LastIndSeq = T % M
      BY DEF Good, Follows
    <2>2. Good(fr.flow, S, b, x, c, T, 1)
      BY GoodWeaker
    <2>3. Follows(fr.flow, c.list, T, 1, W)
      BY <2>2 DEF Good
    <2>4. fr.n \in T + 1 .. T + W
      <3>1. fr.n \in T + 2 .. T + W
        OBVIOUS
      <3> HIDE DEF W
      <3> QED
        BY <1>0, <3>1
    <2>5. /\ \A i \in DOMAIN l : l[i] = fr \/ \E j \in DOMAIN c.list : l[i] = c.list[j]
          /\ d.LastIndSeq = c.LastIndSeq /\ d.why = c.why
      BY <1>3, <2>3, <2>4, InsertFollows
    <2> HIDE DEF d
    <2>6. ~stuck
      <3> SUFFICES ASSUME l # <<>> PROVE ~SEQ_STEPONE(Seq12(Head(l)), d.LastIndSeq)
        OBVIOUS
      <3> DEFINE z == l[1].n
      <3>1. 1 \in DOMAIN l /\ Head(l) = l[1]
        BY <1>1
      <3>2. z \in Int /\ Seq12(l[1]) = z % M
        BY <1>1, <3>1, NumberOf
      <3>3. z \in T + 2 .. T + W
        BY <2>1, <2>5, <3>1
      <3> HIDE DEF z, W
      <3>4. -M < z - (T + 1) /\ z - (T + 1) < M /\ z # T + 1
        BY <1>0, <3>2, <3>3
      <3>5. ~SEQ_STEPONE(z % M, T % M)
        BY <3>2, <3>4, StepNumber
      <3> QED
        BY <2>1, <2>5, <3>1, <3>2, <3>5
    <2> QED
      BY <1>2, <2>5, <2>6
  <1>4. ASSUME "direct" \in d.why PROVE "direct" \in r.why
    <2> HIDE DEF d, stuck
    <2>1. e.why = d.why \cup {"stuck"}
      BY <1>1 DEF CtxType
    <2> HIDE DEF e
    <2> QED
      BY <1>2, <1>4, <2>1
  <1>5. d = InsertSorted(c, fr) \/ "direct" \in d.why
    BY EnqueueWays
  <1> QED
    BY <1>3, <1>4, <1>5

LEMMA EnqueueCauses ==
  ASSUME NEW c \in CtxType, NEW fr \in FrameType
  PROVE  Enqueue(c, fr).why \subseteq c.why \cup {"direct", "again"}
  <1>1. Again(c, Seq12(fr)) \subseteq {"again"}
    BY DEF Again
  <1>2. InsertSorted(c, fr).why = c.why
    BY InsertMoves
  <1> QED
    BY <1>1, <1>2, EnqueueWays

LEMMA BeyondStuck ==
  ASSUME NEW c \in CtxType, NEW fr \in FrameType, "stuck" \notin c.why
  PROVE  "stuck" \notin BeyondWindow(c, fr).why
  <1> DEFINE s == WinStartSeq(c, fr)
             a == LeSeq(c, s)
             e == [a EXCEPT !.LastIndSeq = s]
             d == Enqueue(e, fr)
  <1>1. s \in 0 .. MAXSEQ /\ s \in Int
    BY WinStartOK
  <1>2. a \in CtxType /\ a.why = c.why
    BY <1>1, LeSeqKeeps, LeSeqMoves
  <1>3. BeyondWindow(c, fr) = InOrder(d, d.LastIndSeq)
    BY DEF BeyondWindow
  <1> HIDE DEF s, a
  <1>4. e \in CtxType
    BY <1>1, <1>2, RecordSeq DEF Keeps
  <1>5. e.why = c.why /\ e.LastIndSeq \in Positions
    BY <1>1, <1>2 DEF CtxType, Positions
  <1> HIDE DEF e
  <1>6. /\ d \in CtxType /\ d.why \subseteq c.why \cup {"direct", "again"}
        /\ d.LastIndSeq \in Positions
    BY <1>4, <1>5, EnqueueKeeps, EnqueueCauses, EnqueueMoves DEF Keeps
  <1> HIDE DEF d
  <1>7. InOrder(d, d.LastIndSeq).why = d.why
    <2>1. d.LastIndSeq \in Int
      BY <1>6, SequenceNumbers DEF Positions
    <2> QED
      BY <1>6, <2>1, InOrderMoves
  <1> QED
    BY <1>3, <1>6, <1>7

LEMMA FlushCauses ==
  ASSUME NEW c \in CtxType
  PROVE  FlushTimeout(c).why \subseteq c.why \cup {"refresh", "timeout"}
  <1> DEFINE seq == (c.LastIndSeq + 1) % M
             a == LeSeq(c, seq)
             e == [a EXCEPT !.LastIndSeq = seq, !.why = c.why \cup {"timeout"}]
             h == Refresh(c)
             g == [h EXCEPT !.why = c.why \cup {"refresh"}]
  <1>1. FlushTimeout(c) \in {c, g, InOrder(e, seq)}
    BY DEF FlushTimeout
  <1>2. seq \in Positions /\ seq \in Int
    <2>1. c.LastIndSeq + 1 \in Int
      BY SequenceNumbers DEF CtxType, RESET
    <2> QED
      BY <2>1, SpaceIs
  <1>3. a \in CtxType /\ h \in CtxType
    BY <1>2, LeSeqKeeps, RefreshKeeps DEF Keeps
  <1>4. c.why \cup {"timeout"} \in SUBSET Causes
    BY CtxFacts DEF Causes
  <1> HIDE DEF a, h, seq
  <1>5. g.why = c.why \cup {"refresh"}
    BY <1>3 DEF CtxType
  <1>6. e \in CtxType
    BY <1>2, <1>3, <1>4, RecordBoth DEF Keeps, Positions
  <1>7. e.LastIndSeq = seq /\ e.why = c.why \cup {"timeout"}
    BY <1>3 DEF CtxType
  <1> HIDE DEF e, g
  <1>8. InOrder(e, seq).why = e.why
    BY <1>2, <1>6, <1>7, InOrderMoves
  <1> QED
    BY <1>1, <1>5, <1>7, <1>8

\* A copy gets stuck only when its predecessor was passed up directly.
LEMMA AmpduStuck ==
  ASSUME NEW c0 \in CtxType, NEW fr \in FrameType, NEW S \in SUBSET Int, NEW b \in Int,
         NEW x \in Int, NEW y \in Int,
         b <= fr.n, x <= y, y <= b + c0.BAWinSize,
         \/ c0.LastIndSeq = RESET /\ c0.list = <<>>
         \/ \E T \in Int : Good(fr.flow, S, b, x, c0, T, 2) /\ 2 * (fr.n - T) < M,
         "stuck" \notin c0.why
  PROVE  LET d == Indicate_AMPDU(c0, fr, b) IN "stuck" \in d.why => "direct" \in d.why
  <1> DEFINE d == Indicate_AMPDU(c0, fr, b)
             a == FlushTimeout(c0)
             c == [a EXCEPT !.age = 0]
             n == fr.n
             s == Seq12(fr)
             W == c0.BAWinSize
             w == IF fr.n = b THEN c.why ELSE c.why \cup {"first"}
             e == [c EXCEPT !.LastIndSeq = s, !.why = w]
             g == [c EXCEPT !.LastIndSeq = s]
  <1>0. /\ n \in Int /\ W \in Nat /\ 2 * (W + 1) <= M /\ M \in Nat
        /\ s \in 0 .. MAXSEQ /\ s = n % M
    BY CtxFacts, FrameFacts
  <1>1. a \in CtxType /\ a.BAWinSize = W /\ "stuck" \notin a.why
    BY FlushTimeoutKeeps, FlushCauses DEF Keeps
  <1>2. /\ c.LastIndSeq = RESET => d = Indicate(e, fr)
        /\ c.LastIndSeq # RESET => d = Arrive(c, fr)
    BY DEF Indicate_AMPDU, Arrive
  <1>a. c0.list = <<>> => a = c0
    <2>1. c0.list = <<>> => Len(c0.list) = 0
      OBVIOUS
    <2> QED
      BY <2>1 DEF FlushTimeout
  <1>3. \/ a.LastIndSeq = RESET
        \/ \E T \in Int : Good(fr.flow, S, b, x, a, T, 2) /\ 2 * (fr.n - T) < M
    <2>1. CASE c0.LastIndSeq = RESET /\ c0.list = <<>>
      BY <1>a, <2>1
    <2>2. ASSUME NEW T \in Int, Good(fr.flow, S, b, x, c0, T, 2), 2 * (fr.n - T) < M
          PROVE  \/ a.LastIndSeq = RESET
                 \/ \E T2 \in Int : Good(fr.flow, S, b, x, a, T2, 2) /\ 2 * (fr.n - T2) < M
      <3> HIDE DEF a
      <3>1. \/ a.LastIndSeq = RESET
            \/ \E T2 \in Int : T <= T2 /\ Good(fr.flow, S, b, x, a, T2, 2)
        BY <2>2, FlushGood DEF a
      <3>2. ASSUME NEW T2 \in Int, T <= T2
            PROVE  2 * (fr.n - T2) < M
        <4> HIDE DEF n
        <4>1. 2 * (n - T) < M
          BY <2>2 DEF n
        <4>2. 2 * (n - T2) < M
          BY <1>0, <3>2, <4>1
        <4> QED
          BY <4>2 DEF n
      <3> QED
        BY <3>1, <3>2
    <2> HIDE DEF a
    <2> QED
      BY <2>1, <2>2
  <1> HIDE DEF a
  <1>4. /\ c \in CtxType /\ c.out = a.out /\ c.list = a.list /\ c.why = a.why
        /\ c.LastIndSeq = a.LastIndSeq /\ c.BAWinSize = W
    <2>1. c \in CtxType
      BY <1>1, RecordAge DEF Keeps
    <2>2. /\ c.out = a.out /\ c.list = a.list /\ c.why = a.why
          /\ c.LastIndSeq = a.LastIndSeq /\ c.BAWinSize = W
      BY <1>1 DEF CtxType
    <2> QED
      BY <2>1, <2>2
  <1> HIDE DEF c
  <1>5. CASE a.LastIndSeq = RESET
    <2>1. d = Indicate(e, fr)
      BY <1>2, <1>4, <1>5
    <2>2. "stuck" \notin w /\ w \in SUBSET Causes
      BY <1>1, <1>4 DEF CtxType, Causes
    <2> HIDE DEF w, s
    <2>3. e \in CtxType /\ e.why = w
      <3>1. e \in CtxType
        BY <1>0, <1>4, <2>2, RecordBoth DEF Keeps
      <3>2. e.why = w
        BY <1>4 DEF CtxType
      <3> QED
        BY <3>1, <3>2
    <2> HIDE DEF e
    <2>4. Indicate(e, fr).why = e.why
      BY <2>3 DEF CtxType, Indicate
    <2> QED
      BY <2>1, <2>2, <2>3, <2>4
  <1>6. ASSUME NEW T \in Int, Good(fr.flow, S, b, x, a, T, 2), 2 * (fr.n - T) < M
        PROVE  "stuck" \in d.why => "direct" \in d.why
    <2>1. Good(fr.flow, S, b, x, c, T, 2)
      BY <1>1, <1>4, <1>6, GoodSame
    <2>2. c.LastIndSeq # RESET /\ c.LastIndSeq = T % M /\ T < x
      BY <2>1, SpaceIs DEF Good
    <2>3. d = Arrive(c, fr)
      BY <1>2, <2>2
    <2>4. T < n + W /\ 2 * (n - T) < M
      <3>1. b <= n /\ x <= y /\ y <= b + W /\ 2 * (n - T) < M
        BY <1>6
      <3> HIDE DEF n, W
      <3> QED
        BY <1>0, <2>2, <3>1
    <2>5. /\ SEQ_STEPONE(n % M, T % M) <=> n = T + 1
          /\ n % M = T % M \/ SEQ_SMALLER(n % M, T % M) <=> n <= T
          /\ n >= T + 2 => (SEQ_SMALLER(n % M, ((T % M) + W + 1) % M) <=> n <= T + W)
      <3> HIDE DEF n, W
      <3> QED
        BY <1>0, <2>4, Compared
    <2>6. \/ d = InOrder(Indicate(g, fr), s)
          \/ d = c
          \/ d = WithinWindow(c, fr) /\ n \in T + 2 .. T + W
          \/ d = BeyondWindow(c, fr)
      <3>1. n = T + 1 \/ n <= T \/ n >= T + 2
        <4> HIDE DEF n
        <4> QED
          BY <1>0
      <3>2. CASE n = T + 1
        <4>1. SEQ_STEPONE(s, c.LastIndSeq)
          BY <1>0, <2>2, <2>5, <3>2
        <4>2. ~(s = c.LastIndSeq \/ SEQ_SMALLER(s, c.LastIndSeq))
          BY <1>0, <2>2, <2>5, <3>2
        <4> HIDE DEF d
        <4> QED
          BY <2>3, <4>1, <4>2 DEF Arrive
      <3>3. CASE n <= T
        <4>1. n # T + 1
          <5> HIDE DEF n
          <5> QED
            BY <1>0, <3>3
        <4>2. ~SEQ_STEPONE(s, c.LastIndSeq) /\ (s = c.LastIndSeq \/ SEQ_SMALLER(s, c.LastIndSeq))
          BY <1>0, <2>2, <2>5, <3>3, <4>1
        <4> HIDE DEF d
        <4> QED
          BY <2>3, <4>2 DEF Arrive
      <3>4. CASE n >= T + 2
        <4>1. n # T + 1 /\ ~(n <= T)
          <5> HIDE DEF n
          <5> QED
            BY <1>0, <3>4
        <4>2. ~SEQ_STEPONE(s, c.LastIndSeq) /\ ~(s = c.LastIndSeq \/ SEQ_SMALLER(s, c.LastIndSeq))
          BY <1>0, <2>2, <2>5, <4>1
        <4>3. SEQ_SMALLER(s, (c.LastIndSeq + c.BAWinSize + 1) % M) <=> n <= T + W
          BY <1>0, <1>4, <2>2, <2>5, <3>4
        <4>4. n <= T + W => n \in T + 2 .. T + W
          <5> HIDE DEF n, W
          <5> QED
            BY <1>0, <3>4
        <4> HIDE DEF d, n
        <4> QED
          BY <2>3, <4>2, <4>3, <4>4 DEF Arrive
      <3> QED
        BY <3>1, <3>2, <3>3, <3>4
    <2>7. "stuck" \notin c.why
      BY <1>1, <1>4
    <2>8. CASE d = InOrder(Indicate(g, fr), s)
      <3> DEFINE h == Indicate(g, fr)
      <3>0. s \in Positions /\ s \in Int
        BY <1>0, SequenceNumbers DEF Positions
      <3> HIDE DEF s
      <3>1. g \in CtxType
        BY <1>0, <1>4, RecordSeq DEF Keeps
      <3>2. g.why = c.why /\ g.LastIndSeq = s
        BY <1>4 DEF CtxType
      <3> HIDE DEF g
      <3>3. h \in CtxType
        BY <3>1, IndicateKeeps DEF Keeps
      <3>4. h.why = g.why /\ h.LastIndSeq = s
        BY <3>1, <3>2 DEF CtxType, Indicate
      <3> HIDE DEF h
      <3>5. InOrder(h, s).why = h.why
        BY <3>0, <3>3, <3>4, InOrderMoves
      <3> QED
        BY <2>7, <2>8, <3>2, <3>4, <3>5 DEF h
    <2> HIDE DEF d
    <2>9. CASE d = WithinWindow(c, fr) /\ n \in T + 2 .. T + W
      <3>1. n \in T + 2 .. T + c.BAWinSize
        BY <1>4, <2>9
      <3>2. "stuck" \in WithinWindow(c, fr).why => "direct" \in WithinWindow(c, fr).why
        BY <1>4, <2>1, <2>7, <3>1, WithinStuck
      <3> QED
        BY <2>9, <3>2
    <2>10. CASE d = BeyondWindow(c, fr)
      BY <1>4, <2>7, <2>10, BeyondStuck
    <2> QED
      BY <2>6, <2>7, <2>8, <2>9, <2>10
  <1> QED
    BY <1>3, <1>5, <1>6

LEMMA BarCauses ==
  ASSUME NEW c \in CtxType, NEW start \in 0 .. MAXSEQ
  PROVE  BlockAckReq(c, start).why \subseteq c.why \cup {"again"}
  <1> DEFINE d == LeSeq(c, start)
             q == IF start = 0 THEN MAXSEQ ELSE start - 1
             w == c.why \cup Again(c, start)
             e == [d EXCEPT !.LastIndSeq = q, !.why = w]
  <1>1. BlockAckReq(c, start) \in {c, e}
    BY DEF BlockAckReq
  <1>2. d \in CtxType
    BY LeSeqKeeps DEF Keeps
  <1>3. w \subseteq c.why \cup {"again"}
    BY DEF Again
  <1> HIDE DEF d, q, w
  <1>4. e.why = w
    BY <1>2 DEF CtxType
  <1> HIDE DEF e
  <1> QED
    BY <1>1, <1>3, <1>4

-----------------------------------------------------------------------------
(* The originator moves                                                    *)

LEMMA OrigFacts ==
  ASSUME NEW o \in OrigType
  PROVE  /\ o.base \in Int /\ o.next \in Int /\ o.win \in Int /\ o.open \in BOOLEAN
         /\ o.acked \subseteq Int
  <1>1. o.base \in Int /\ o.next \in Int /\ o.open \in BOOLEAN /\ o.acked \subseteq Int
    BY ConstantsAssumption DEF ConstantsAssumption, OrigType, Numbers, Frames
  <1>2. o.win \in Windows
    BY DEF OrigType
  <1> QED
    BY <1>1, <1>2, WindowHalf

LEMMA SlideMoves ==
  ASSUME NEW o \in OrigType, o.base <= o.next, \A n \in o.acked : n < o.next
  PROVE  /\ o.base <= Slide(o).base /\ Slide(o).open = o.open /\ Slide(o).win = o.win
         /\ Slide(o).next = o.next /\ Slide(o).acked = o.acked
  <1> DEFINE S == {k \in o.base .. o.next : k \notin o.acked}
             m == Min(S)
  <1>0. o.base \in Nat /\ o.next \in Nat
    BY ConstantsAssumption DEF ConstantsAssumption, OrigType, Numbers
  <1>1. S \in SUBSET (o.base .. o.next) /\ o.next \in S
    BY <1>0
  <1>2. Slide(o) = [o EXCEPT !.base = m]
    BY DEF Slide
  <1> HIDE DEF S
  <1>3. m \in o.base .. o.next
    BY <1>0, <1>1, MinIn
  <1> HIDE DEF m
  <1>4. o.base <= m
    BY <1>0, <1>3
  <1> QED
    BY <1>2, <1>4 DEF OrigType

LEMMA SentMoves ==
  ASSUME NEW o \in OrigType, o.base <= o.next, \A m \in o.acked : m < o.next,
         NEW n \in Frames, n <= o.next, NEW ack
  PROVE  LET q == Sent(o, n, ack) IN
         /\ o.base <= q.base /\ q.open = o.open /\ q.win = o.win
         /\ q.next = IF n = o.next THEN n + 1 ELSE o.next
         /\ \A m \in q.acked : m \in o.acked \/ m = n
  <1> DEFINE x == IF n = o.next THEN n + 1 ELSE o.next
             a == IF ack THEN o.acked \cup {n} ELSE o.acked
             d == [o EXCEPT !.next = x, !.acked = a]
  <1>0. /\ n \in Nat /\ n + 1 \in Numbers /\ o.next \in Nat /\ o.base \in Nat
        /\ o.next \in Numbers
    BY ConstantsAssumption DEF ConstantsAssumption, OrigType, Numbers, Frames
  <1>1. o.acked \in SUBSET Frames /\ Frames \subseteq Int
    BY ConstantsAssumption DEF ConstantsAssumption, OrigType, Frames
  <1>2. x \in Numbers /\ o.base <= x /\ n < x /\ o.next <= x
    BY <1>0
  <1>3. a \in SUBSET Frames /\ \A m \in a : m \in o.acked \/ m = n
    BY <1>1
  <1>4. \A m \in a : m < x
    <2> SUFFICES ASSUME NEW m \in a PROVE m < x
      OBVIOUS
    <2>1. CASE m = n
      BY <1>2, <2>1
    <2>2. CASE m \in o.acked
      <3>1. m < o.next /\ m \in Int
        BY <1>1, <2>2
      <3>2. x \in Int
        BY <1>0
      <3> HIDE DEF x
      <3> QED
        BY <1>0, <1>2, <3>1, <3>2
    <2> QED
      BY <1>3, <2>1, <2>2
  <1>5. Sent(o, n, ack) = Slide(d)
    BY DEF Sent
  <1>6. x = IF n = o.next THEN n + 1 ELSE o.next
    OBVIOUS
  <1> HIDE DEF x, a
  <1>7. /\ d \in OrigType /\ d.base = o.base /\ d.next = x /\ d.acked = a
        /\ d.open = o.open /\ d.win = o.win
    BY <1>2, <1>3 DEF OrigType
  <1> HIDE DEF d
  <1>8. /\ d.base <= Slide(d).base /\ Slide(d).open = d.open /\ Slide(d).win = d.win
        /\ Slide(d).next = d.next /\ Slide(d).acked = d.acked
    BY <1>2, <1>4, <1>7, SlideMoves
  <1> QED
    BY <1>3, <1>5, <1>6, <1>7, <1>8

\* The window of the originator moves on.
LEMMA BaseGrows ==
  ASSUME NEW f, NEW e, NEW r, NEW s, NEW o \in OrigType, NEW q \in OrigType, NEW u, NEW w,
         Flowing(f, e, r, s, o, u, w), o.base <= q.base, q.open = o.open, q.win = o.win,
         q.next = o.next, q.acked = o.acked
  PROVE  Flowing(f, e, r, s, q, u, w)
  <1>0. o.base \in Int /\ o.next \in Int /\ o.win \in Int /\ q.base \in Int
    BY OrigFacts
  <1>1. ASSUME InSession(f, r, o, u.seen, w) PROVE InSession(f, r, q, u.seen, w)
    <2>1. CASE r.LastIndSeq = RESET
      BY <1>1, <2>1 DEF InSession
    <2>2. CASE r.LastIndSeq # RESET
      <3>1. PICK T \in Int : Placed(f, r, o, u.seen, w, T)
        BY <1>1, <2>2 DEF InSession
      <3>2. ASSUME q.open, w \cap Skips = {} PROVE \A m \in q.base .. T : m \in u.seen
        <4>1. \A m \in o.base .. T : m \in u.seen
          BY <3>1, <3>2 DEF Placed
        <4>2. \A m \in q.base .. T : m \in o.base .. T
          BY <1>0
        <4> QED
          BY <4>1, <4>2
      <3>3. Placed(f, r, q, u.seen, w, T)
        BY <3>1, <3>2 DEF Placed
      <3> QED
        BY <2>2, <3>3 DEF InSession
    <2> QED
      BY <2>1, <2>2
  <1>2. Positioned(f, e, r, q, u, w)
    BY <1>1 DEF Flowing, Positioned
  <1>3. q.open => q.next <= q.base + q.win
    <2>1. q.open => o.next <= o.base + o.win
      BY DEF Flowing, Agreed
    <2>2. o.next <= o.base + o.win => o.next <= q.base + o.win
      BY <1>0
    <2> QED
      BY <2>1, <2>2
  <1>4. Agreed(e, r, s, q)
    BY <1>3 DEF Flowing, Agreed
  <1> QED
    BY <1>2, <1>4 DEF Flowing, InOrderSoFar, Survives

\* A frame that is not more than half of the space ahead does not look old.
LEMMA NotBehind ==
  ASSUME NEW n \in Int, NEW T \in Int, T < n, 2 * (n - T) <= M, ~SEQ_SMALLER(n % M, T % M)
  PROVE  2 * (n - T) < M /\ 2 * ((n + 1) - T) <= M
  <1> DEFINE h == M \div 2
  <1>0. M \in Nat /\ h \in Nat /\ 2 * h = M /\ M >= 1
    BY SpaceIs, Half
  <1>1. ~((n - T) % M >= h)
    <2>1. ((n % M) - (T % M)) % M = (n - T) % M
      BY ModDiff
    <2>2. ~(((n % M) - (T % M)) % M >= h)
      BY Zenon DEF SEQ_SMALLER
    <2> QED
      BY <2>1, <2>2, Zenon
  <1> HIDE DEF M, h
  <1>2. n - T \in Int /\ -M < n - T /\ n - T < M
    BY <1>0
  <1>3. (n - T) % M = n - T
    BY <1>0, <1>2, Reduce
  <1>4. n - T < h
    BY <1>0, <1>1, <1>2, <1>3
  <1> QED
    BY <1>0, <1>2, <1>4

\* A new frame is lost: the position falls behind by one.
LEMMA NextGrows ==
  ASSUME NEW f, NEW e, NEW r, NEW s, NEW o \in OrigType, NEW q \in OrigType, NEW u, NEW w,
         NEW B \in SUBSET {"behind"},
         Flowing(f, e, r, s, o, u, w), q.base = o.base, q.open = o.open, q.win = o.win,
         q.next = o.next + 1, q.acked = o.acked, o.next < o.base + o.win,
         r.list \in Seq(FrameType), o.open,
         r.LastIndSeq # RESET /\ SEQ_SMALLER(o.next % M, r.LastIndSeq) => "behind" \in B
  PROVE  Flowing(f, e, r, s, q, u, w \cup B)
  <1> DEFINE v == w \cup B
  <1>0. o.base \in Int /\ o.next \in Int /\ o.win \in Int
    BY OrigFacts
  <1>1. /\ v \cap Skips = w \cap Skips /\ ("refresh" \in v <=> "refresh" \in w)
        /\ Slack(v) = Slack(w) /\ ("again" \in v <=> "again" \in w)
        /\ ("stuck" \in v <=> "stuck" \in w) /\ w \subseteq v
        /\ ("behind" \notin v => v = w)
    BY DEF Skips, Slack
  <1>2. ASSUME InSession(f, r, o, u.seen, w), "behind" \notin v
        PROVE  InSession(f, r, q, u.seen, w)
    <2>1. CASE r.LastIndSeq = RESET
      BY <1>2, <2>1 DEF InSession
    <2>2. CASE r.LastIndSeq # RESET
      <3>1. PICK T \in Int : Placed(f, r, o, u.seen, w, T)
        BY <1>2, <2>2 DEF InSession
      <3>2. /\ r.LastIndSeq = T % M /\ T < o.next /\ 2 * (o.next - T) <= M
            /\ \A i \in DOMAIN r.list : r.list[i].n < o.next
        BY <3>1 DEF Placed
      <3>3. ~SEQ_SMALLER(o.next % M, T % M)
        BY <1>2, <2>2, <3>2
      <3>4. 2 * ((o.next + 1) - T) <= M
        BY <1>0, <3>2, <3>3, NotBehind
      <3>5. T < q.next /\ 2 * (q.next - T) <= M
        BY <1>0, <3>2, <3>4
      <3>6. \A i \in DOMAIN r.list : r.list[i].n < q.next
        <4>1. \A i \in DOMAIN r.list : r.list[i].n \in Int
          BY NumberOf
        <4> QED
          BY <1>0, <3>2, <4>1
      <3>7. Placed(f, r, q, u.seen, w, T)
        BY <3>1, <3>5, <3>6 DEF Placed
      <3> QED
        BY <2>2, <3>7 DEF InSession
    <2> QED
      BY <2>1, <2>2
  <1>3. Positioned(f, e, r, q, u, v)
    <2> SUFFICES ASSUME e # 0, v \cap {"stuck", "behind"} = {} PROVE InSession(f, r, q, u.seen, v)
      BY DEF Positioned
    <2>1. v = w
      BY <1>1
    <2> HIDE DEF v
    <2> QED
      BY <1>2, <2>1 DEF Flowing, Positioned
  <1>4. Agreed(e, r, s, q)
    <2>1. q.next <= q.base + q.win
      BY <1>0
    <2> QED
      BY <2>1 DEF Flowing, Agreed
  <1>5. InOrderSoFar(e, u, v)
    BY <1>1 DEF Flowing, InOrderSoFar
  <1>6. Survives(f, r, q, u, v)
    BY <1>1 DEF Flowing, Survives
  <1>7. "stuck" \in v => v \cap {"direct", "behind"} # {}
    BY <1>1 DEF Flowing
  <1> QED
    BY <1>3, <1>4, <1>5, <1>6, <1>7 DEF Flowing

-----------------------------------------------------------------------------
(* A handler for the session of one flow                                   *)

\* What was passed up before and now, together.
LEMMA RisesTogether ==
  ASSUME NEW S, NEW out, NEW l, NEW T, NEW k, Rises(S, out, l, T, k)
  PROVE  Rises(S \cup Passing(out), <<>>, l, T, k)
  <1> DEFINE Z == S \cup Passing(out)
  <1>1. \A m \in Z : m \in S \/ \E i \in DOMAIN out : m = out[i].n
    BY DEF Passing
  <1> HIDE DEF Z
  <1>2. \A m \in Z : m <= T + k
    BY <1>1 DEF Rises
  <1>3. \A m \in Z, i \in DOMAIN l : m < l[i].n
    BY <1>1 DEF Rises
  <1>4. DOMAIN <<>> = {}
    OBVIOUS
  <1>5. Rises(Z, <<>>, l, T, k)
    BY <1>2, <1>3, <1>4 DEF Rises
  <1> QED
    BY <1>5 DEF Z

LEMMA HandledPlaced ==
  ASSUME NEW d, NEW f, NEW S, NEW b \in Int, NEW T \in Int, NEW r, NEW o \in OrigType,
         Good(f, S, b, o.next, d, T, 2), 2 * (o.next - T) <= M, b <= o.base,
         r.LastIndSeq = d.LastIndSeq, r.list = d.list, r.BAWinSize = d.BAWinSize
  PROVE  Placed(f, r, o, S \cup Passing(d.out), d.why, T)
  <1> DEFINE Z == S \cup Passing(d.out)
  <1>0. o.base \in Int
    BY OrigFacts
  <1>1. "refresh" \notin d.why => Rises(Z, <<>>, r.list, T, Slack(d.why))
    BY RisesTogether DEF Good
  <1>2. ASSUME d.why \cap Skips = {}, NEW m \in o.base .. T PROVE m \in Z
    <2>1. m \in b .. T
      BY <1>0
    <2>2. m \in S \/ \E i \in DOMAIN d.out : d.out[i].n = m
      BY <1>2, <2>1 DEF Good
    <2> QED
      BY <2>2 DEF Passing
  <1> HIDE DEF Z
  <1>3. Placed(f, r, o, Z, d.why, T)
    BY <1>1, <1>2 DEF Placed, Good
  <1> QED
    BY <1>3 DEF Z

\* All frames that a handler has are those of the flow.
LEMMA OwnFrames ==
  ASSUME NEW c \in CtxType, NEW d \in CtxType, NEW f, NEW X, Gains(c, d, X),
         X \subseteq [flow : {f}, n : Int], c.out = <<>>, OfFlow(f, c.list)
  PROVE  OfFlow(f, d.out) /\ OfFlow(f, d.list)
  <1>1. DOMAIN c.out = {}
    OBVIOUS
  <1>2. ASSUME NEW fr, Holds(d, fr) PROVE fr.flow = f
    <2>1. Holds(c, fr) \/ fr \in X
      BY <1>2 DEF Gains
    <2> QED
      BY <1>1, <2>1 DEF Holds, In, OfFlow
  <1>3. ASSUME NEW i \in DOMAIN d.out PROVE Holds(d, d.out[i])
    BY DEF Holds, In
  <1>4. ASSUME NEW i \in DOMAIN d.list PROVE Holds(d, d.list[i])
    BY DEF Holds, In
  <1> QED
    BY <1>2, <1>3, <1>4 DEF OfFlow

\* What the handler of a session needs for its flow.
Served(f, S, b, o, d) ==
  d.why \cap {"stuck", "behind"} = {} =>
    \/ /\ d.LastIndSeq = RESET /\ d.list = <<>> /\ d.out = <<>>
       /\ "refresh" \notin d.why => S = {}
    \/ \E T \in Int : Good(f, S, b, o.next, d, T, 2) /\ 2 * (o.next - T) <= M

Kept(f, S, o, q, d) ==
  d.why \cap {"first", "timeout", "direct", "behind"} = {} =>
    \A n \in q.acked : n \in o.acked \/ Got(S, d, [flow |-> f, n |-> n])

LEMMA HandledFlow ==
  ASSUME up \in [Flows -> UpType], ~ghost.raced, NEW f \in Flows, NEW e, NEW r,
         NEW c \in CtxType, NEW d \in CtxType, NEW o \in OrigType, NEW q \in OrigType,
         NEW X, Gains(c, d, X), NEW w, NEW r2,
         X \subseteq [flow : {f}, n : Int], c.out = <<>>, OfFlow(f, c.list),
         c.list = r.list, w \subseteq c.why,
         Flowing(f, e, r, TRUE, o, up[f], w), e # 0, o.open, q.open, q.win = o.win,
         o.base <= q.base, q.next <= q.base + q.win, Served(f, up[f].seen, o.base, q, d),
         "stuck" \in d.why => d.why \cap {"direct", "behind"} # {},
         Kept(f, up[f].seen, o, q, d),
         r2.LastIndSeq = d.LastIndSeq, r2.list = d.list, r2.BAWinSize = d.BAWinSize,
         r.BAWinSize = d.BAWinSize
  PROVE  Flowing(f, e, r2, TRUE, q, Passed(d.out)[f], d.why)
  <1> DEFINE u == up[f]
             p == Passed(d.out)[f]
             S == u.seen
             Z == S \cup Passing(d.out)
  <1>0. d.out \in Seq(FrameType) /\ o.base \in Int /\ w \subseteq d.why
    BY CtxFacts, OrigFacts DEF Gains
  <1>1. OfFlow(f, d.out)
    BY OwnFrames
  <1>2. p.seen = Z
    BY <1>0, <1>1, PassedOwn DEF OfFlow
  <1>3. ASSUME d.out = <<>> PROVE p = u
    <2>1. DOMAIN d.out = {}
      BY <1>3
    <2> QED
      BY <1>0, <2>1, PassedNone
  <1>4. ASSUME NEW T \in Int, Good(f, S, o.base, q.next, d, T, 2), "refresh" \notin d.why
        PROVE  /\ ~u.back => ~p.back
               /\ "again" \notin d.why /\ ~u.twice => ~p.twice
    <2> DEFINE k == Slack(d.why)
    <2>1. Rises(S, d.out, d.list, T, k) /\ k \in {0, 1} /\ ("again" \notin d.why => k = 0)
      BY <1>4 DEF Good, Slack
    <2> HIDE DEF k
    <2>2. (~u.back => ~p.back) /\ (k = 0 /\ ~u.twice => ~p.twice)
      BY <1>0, <1>1, <2>1, PassedRises
    <2> QED
      BY <2>1, <2>2
  <1> HIDE DEF p
  <1>5. Positioned(f, e, r2, q, p, d.why)
    <2> SUFFICES ASSUME d.why \cap {"stuck", "behind"} = {}
                 PROVE  InSession(f, r2, q, Z, d.why)
      BY <1>2 DEF Positioned
    <2>1. CASE /\ d.LastIndSeq = RESET /\ d.list = <<>> /\ d.out = <<>>
               /\ "refresh" \notin d.why => S = {}
      <3>1. "refresh" \notin d.why => Z = {}
        BY <1>2, <1>3, <2>1
      <3> HIDE DEF Z
      <3> QED
        BY <2>1, <3>1 DEF InSession
    <2>2. ASSUME NEW T \in Int, Good(f, S, o.base, q.next, d, T, 2), 2 * (q.next - T) <= M
          PROVE  InSession(f, r2, q, Z, d.why)
      <3>1. Placed(f, r2, q, Z, d.why, T)
        BY <1>0, <2>2, HandledPlaced
      <3>2. r2.LastIndSeq # RESET
        BY <2>2, SpaceIs DEF Good
      <3> HIDE DEF Z
      <3> QED
        BY <3>1, <3>2 DEF InSession
    <2> HIDE DEF Z, S
    <2> QED
      BY <2>1, <2>2 DEF Served, S
  <1>6. Agreed(e, r2, TRUE, q)
    <2>1. o.win = r.BAWinSize
      BY DEF Flowing, Agreed
    <2> QED
      BY <2>1 DEF Agreed
  <1>7. InOrderSoFar(e, p, d.why)
    <2> SUFFICES ASSUME d.why \cap {"refresh", "stuck", "behind"} = {}
                 PROVE  ~p.back /\ ("again" \notin d.why => ~p.twice)
      BY DEF InOrderSoFar
    <2>1. ~u.back /\ ("again" \notin d.why => ~u.twice)
      <3>1. w \cap {"refresh", "stuck", "behind"} = {} /\ ("again" \notin d.why => "again" \notin w)
        BY <1>0
      <3> QED
        BY <3>1 DEF Flowing, InOrderSoFar
    <2>2. CASE d.out = <<>>
      BY <1>3, <2>1, <2>2
    <2>3. CASE d.out # <<>>
      <3>0. d.why \cap {"stuck", "behind"} = {} /\ "refresh" \notin d.why
        OBVIOUS
      <3>1. PICK T \in Int : Good(f, S, o.base, q.next, d, T, 2)
        BY <2>3, <3>0 DEF Served
      <3> QED
        BY <1>4, <2>1, <3>0, <3>1
    <2> QED
      BY <2>2, <2>3
  <1>8. Survives(f, r2, q, p, d.why)
    <2> SUFFICES ASSUME d.why \cap {"first", "timeout", "direct", "behind"} = {},
                        NEW n \in q.acked
                 PROVE  \/ n \in Z
                        \/ \E i \in DOMAIN d.list : d.list[i] = [flow |-> f, n |-> n]
      BY <1>2 DEF Survives
    <2> DEFINE fr == [flow |-> f, n |-> n]
    <2>0. fr.n = n
      OBVIOUS
    <2>1. ASSUME Holds(d, fr) PROVE n \in Z \/ \E i \in DOMAIN d.list : d.list[i] = fr
      <3> HIDE DEF fr
      <3> QED
        BY <2>0, <2>1 DEF Holds, In, Passing
    <2>2. CASE n \in o.acked
      <3>1. w \cap {"first", "timeout", "direct", "behind"} = {}
        BY <1>0
      <3>2. n \in S \/ \E i \in DOMAIN c.list : c.list[i] = fr
        BY <2>2, <3>1 DEF Flowing, Survives
      <3> HIDE DEF fr
      <3>3. n \in S \/ Holds(c, fr)
        BY <3>2 DEF Holds, In
      <3>4. n \in S \/ Holds(d, fr)
        BY <3>3 DEF Gains
      <3> QED
        BY <2>1, <3>4 DEF fr
    <2>3. CASE n \notin o.acked
      <3>1. Got(S, d, fr)
        BY <2>3 DEF Kept
      <3> HIDE DEF fr
      <3>2. n \in S \/ Holds(d, fr) \/ \E i \in DOMAIN d.out : d.out[i].n = n
        BY <2>0, <3>1 DEF Got
      <3>3. (\E i \in DOMAIN d.out : d.out[i].n = n) => n \in Z
        BY DEF Passing
      <3> QED
        BY <2>1, <3>2, <3>3 DEF fr
    <2> QED
      BY <2>2, <2>3
  <1> QED
    BY <1>5, <1>6, <1>7, <1>8 DEF Flowing, p

-----------------------------------------------------------------------------
(* The steps                                                               *)

\* What concerns one flow and its entry leaves the other flows alone.
LEMMA OneFlow ==
  ASSUME TInv, Order, NEW f \in Flows, NEW e, FlowOK(f)',
         \A g \in Flows \ {f} : /\ idx'[g] = idx[g] /\ idx[g] # e /\ sta'[g] = sta[g]
                                /\ orig'[g] = orig[g] /\ up'[g] = up[g] /\ why'[g] = why[g],
         \A x \in Entries \ {e} : rec'[x] = rec[x],
         e \in Entries => Clean(rec'[e])
  PROVE  Order'
  <1>1. ASSUME NEW g \in Flows \ {f} PROVE FlowOK(g)'
    <2>1. FlowOK(g)
      BY DEF Order
    <2>2. idx[g] # 0 => idx[g] \in Entries \ {e}
      BY Session
    <2>3. idx[g] # 0 => rec'[idx[g]] = rec[idx[g]]
      BY <2>2
    <2>4. idx[g] # 0 => /\ rec'[idx[g]].LastIndSeq = rec[idx[g]].LastIndSeq
                        /\ rec'[idx[g]].list = rec[idx[g]].list
                        /\ rec'[idx[g]].BAWinSize = rec[idx[g]].BAWinSize
      BY <2>3
    <2> QED
      BY <2>1, <2>4, FlowSame
  <1>2. ASSUME NEW x \in Entries PROVE Clean(rec'[x])
    <2>1. CASE x # e
      BY <2>1 DEF Order
    <2> QED
      BY <2>1
  <1>3. \A g \in Flows : FlowOK(g)'
    BY <1>1
  <1>4. \A x \in Entries : Clean(rec[x])'
    BY <1>2 DEF Clean
  <1> QED
    BY <1>3, <1>4 DEF Order

\* The flows other than f have other entries.
LEMMA OthersElsewhere ==
  ASSUME Table, NEW f, NEW e, rec[e].flow = f, e # 0
  PROVE  \A g \in Flows \ {f} : idx[g] # e
  BY DEF Table, Named

\* The frames of flow f, passed up, are not those of another.
LEMMA OthersHistory ==
  ASSUME TInv, ~ghost.raced, NEW f, NEW out \in Seq(FrameType), OfFlow(f, out)
  PROVE  \A g \in Flows \ {f} : Passed(out)[g] = up[g]
  <1> SUFFICES ASSUME NEW g \in Flows \ {f} PROVE Passed(out)[g] = up[g]
    OBVIOUS
  <1>1. \A i \in DOMAIN out : out[i].flow # g
    BY DEF OfFlow
  <1>2. up \in [Flows -> UpType]
    BY DEF TInv, TypesNoPool
  <1> QED
    BY <1>1, <1>2, PassedNone

LEMMA HandledOrder ==
  ASSUME TInv, Table, Order, ~ghost.raced, NEW f \in Flows, idx[f] # 0, sta[f],
         NEW c \in CtxType, NEW d \in CtxType, NEW q \in OrigType, NEW X, NEW new,
         Handled(f, idx[f], d, new), UNCHANGED <<idx, sta>>, orig' = [orig EXCEPT ![f] = q],
         Gains(c, d, X), X \subseteq [flow : {f}, n : Int], c.out = <<>>,
         c.list = rec[idx[f]].list, why[f] \subseteq c.why,
         orig[f].open, q.open, q.win = orig[f].win,
         orig[f].base <= q.base, q.next <= q.base + q.win,
         Served(f, up[f].seen, orig[f].base, q, d),
         "stuck" \in d.why => d.why \cap {"direct", "behind"} # {},
         Kept(f, up[f].seen, orig[f], q, d), d.BAWinSize = rec[idx[f]].BAWinSize
  PROVE  Order'
  <1> DEFINE e == idx[f]
             r == rec[e]
             r2 == Entry(e, d)
  <1>0. /\ rec \in [Entries -> RecType] /\ up \in [Flows -> UpType] /\ orig \in [Flows -> OrigType]
        /\ why \in [Flows -> SUBSET Causes] /\ e \in Entries /\ orig[f] \in OrigType
        /\ r \in RecType
    BY Session DEF TInv, TypesNoPool
  <1>1. /\ rec' = [rec EXCEPT ![e] = r2] /\ up' = Passed(d.out)
        /\ why' = [why EXCEPT ![f] = d.why]
    BY DEF Handled
  <1>2. /\ r2.LastIndSeq = d.LastIndSeq /\ r2.list = d.list /\ r2.BAWinSize = r.BAWinSize
        /\ r2.flow = r.flow /\ r2.status = r.status
    <2> HIDE DEF e
    <2> QED
      BY <1>0 DEF Entry, RecType
  <1>3. r.flow = f /\ r.status = "Accept" /\ Clean(r)
    BY <1>0 DEF Table, Named, Order
  <1>4. OfFlow(f, c.list)
    BY <1>3 DEF Clean, OfFlow
  <1>5. OfFlow(f, d.out) /\ OfFlow(f, d.list) /\ d.out \in Seq(FrameType)
    BY <1>4, OwnFrames, CtxFacts
  <1> HIDE DEF r2
  <1>a. sta[f] = TRUE
    BY DEF TInv, TypesNoPool
  <1>6. Flowing(f, e, r, TRUE, orig[f], up[f], why[f])
    BY <1>a DEF Order, FlowOK, EntryOf
  <1>7. Flowing(f, e, r2, TRUE, q, Passed(d.out)[f], d.why)
    <2>1. /\ r2.BAWinSize = d.BAWinSize /\ r.BAWinSize = d.BAWinSize /\ c.list = r.list
          /\ e # 0
      BY <1>2
    <2>2. r2.LastIndSeq = d.LastIndSeq /\ r2.list = d.list
      BY <1>2
    <2> HIDE DEF r, e
    <2> QED
      BY <1>0, <1>4, <1>6, <2>1, <2>2, HandledFlow, ZenonT(30)
  <1>8. /\ rec'[e] = r2 /\ orig'[f] = q /\ why'[f] = d.why /\ up'[f] = Passed(d.out)[f]
        /\ idx'[f] = e /\ sta'[f] = TRUE
    BY <1>0, <1>1, <1>a
  <1>9. FlowOK(f)'
    <2>1. FlowOK(f)' = Flowing(f, idx'[f], IF idx'[f] = 0 THEN FreeEntry ELSE rec'[idx'[f]],
                               sta'[f], orig'[f], up'[f], why'[f])
      BY DEF FlowOK, EntryOf
    <2>2. e # 0
      OBVIOUS
    <2> HIDE DEF e
    <2> QED
      BY <1>7, <1>8, <2>1, <2>2
  <1>10. Clean(rec'[e])
    BY <1>2, <1>3, <1>5, <1>8 DEF Clean, OfFlow
  <1>11. \A g \in Flows \ {f} : idx[g] # e
    BY <1>0, <1>3, OthersElsewhere
  <1>12. \A g \in Flows \ {f} : up'[g] = up[g]
    BY <1>1, <1>5, OthersHistory
  <1>13. \A g \in Flows \ {f} : /\ idx'[g] = idx[g] /\ idx[g] # e /\ sta'[g] = sta[g]
                                /\ orig'[g] = orig[g] /\ up'[g] = up[g] /\ why'[g] = why[g]
    BY <1>0, <1>1, <1>11, <1>12
  <1>14. \A x \in Entries \ {e} : rec'[x] = rec[x]
    BY <1>0, <1>1
  <1> QED
    BY <1>0, <1>9, <1>10, <1>13, <1>14, OneFlow

\* What a handler finds.
LEMMA GoodFromPlaced ==
  ASSUME NEW f, NEW r, NEW o, NEW S, NEW T, NEW c, Placed(f, r, o, S, c.why, T), o.open,
         c.LastIndSeq = r.LastIndSeq, c.list = r.list, c.BAWinSize = r.BAWinSize, c.out = <<>>
  PROVE  Good(f, S, o.base, o.next, c, T, 2)
  BY DEF Good, Placed

Finds(f, S, o, c, n, y) ==
  \/ c.LastIndSeq = RESET /\ c.list = <<>> /\ ("refresh" \notin c.why => S = {})
  \/ \E T \in Int : /\ Good(f, S, o.base, o.next, c, T, 2)
                    /\ 2 * (n - T) < M /\ 2 * (y - T) <= M

LEMMA FrameFinds ==
  ASSUME NEW f, NEW r, NEW o \in OrigType, NEW S, NEW c, NEW n \in Int, NEW y \in Int,
         InSession(f, r, o, S, c.why), o.open, n <= o.next,
         y = IF n = o.next THEN n + 1 ELSE o.next,
         ~(n = o.next /\ r.LastIndSeq # RESET /\ SEQ_SMALLER(n % M, r.LastIndSeq)),
         c.LastIndSeq = r.LastIndSeq, c.list = r.list, c.BAWinSize = r.BAWinSize, c.out = <<>>
  PROVE  Finds(f, S, o, c, n, y)
  <1>0. o.next \in Int /\ M \in Nat
    BY OrigFacts, SpaceIs
  <1>1. CASE r.LastIndSeq = RESET
    BY <1>1 DEF InSession, Finds
  <1>2. CASE r.LastIndSeq # RESET
    <2>1. PICK T \in Int : Placed(f, r, o, S, c.why, T)
      BY <1>2 DEF InSession
    <2>2. Good(f, S, o.base, o.next, c, T, 2)
      BY <2>1, GoodFromPlaced
    <2>3. T < o.next /\ 2 * (o.next - T) <= M /\ r.LastIndSeq = T % M
      BY <2>1 DEF Placed
    <2>4. CASE n = o.next
      <3>1. ~SEQ_SMALLER(n % M, T % M) /\ T < n /\ 2 * (n - T) <= M /\ y = n + 1
        BY <1>2, <2>3, <2>4
      <3>2. 2 * (n - T) < M /\ 2 * ((n + 1) - T) <= M
        BY <3>1, NotBehind
      <3> QED
        BY <2>2, <3>1, <3>2 DEF Finds
    <2>5. CASE n # o.next
      <3>1. n < o.next /\ y = o.next
        BY <1>0, <2>5
      <3>2. 2 * (n - T) < M /\ 2 * (y - T) <= M
        BY <1>0, <2>3, <3>1
      <3> QED
        BY <2>2, <3>2 DEF Finds
    <2> QED
      BY <2>4, <2>5
  <1> QED
    BY <1>1, <1>2

LEMMA AmpduOrder ==
  ASSUME TInv, Table, Order, ~ghost.raced, NEW f \in Flows, NEW n \in Frames, NEW ack \in BOOLEAN,
         Indicate_AMPDU_Packet(f, n, ack)
  PROVE  Order'
  <1> DEFINE e == idx[f]
             r == rec[e]
             o == orig[f]
             q == Sent(o, n, ack)
             a == Arriving(f, n)
             fr == [flow |-> f, n |-> n]
             d == Indicate_AMPDU(a, fr, o.base)
             S == up[f].seen
             W == r.BAWinSize
  <1>1. /\ sta[f] /\ o.open /\ e # 0 /\ orig' = [orig EXCEPT ![f] = q]
        /\ n \in Outstanding(o) \/ (n = o.next /\ MaySendNew(o))
        /\ Handled(f, e, d, n = o.next) /\ UNCHANGED <<idx, sta>>
    BY DEF Indicate_AMPDU_Packet
  <1>2. fr \in FrameType /\ fr.flow = f /\ fr.n = n /\ {fr} \subseteq [flow : {f}, n : Int]
    BY ConstantsAssumption DEF ConstantsAssumption, FrameType, Frames
  <1>3. /\ a \in CtxType /\ a.list = r.list /\ a.LastIndSeq = r.LastIndSeq
        /\ a.BAWinSize = W /\ a.out = <<>> /\ a.why = why[f] \cup Behind(f, n)
    BY <1>1, ArrivingOK
  <1>4. o \in OrigType /\ o.base <= o.next /\ \A m \in o.acked : m < o.next
    BY DEF TInv, TypesNoPool, OrigOK
  <1>5. /\ o.base \in Int /\ o.next \in Int /\ o.win \in Int /\ n \in Int
        /\ S \in SUBSET Int /\ W \in Int
    <2>1. W \in Nat
      BY <1>3, CtxFacts
    <2>2. n \in Int /\ S \in SUBSET Int
      BY ConstantsAssumption DEF ConstantsAssumption, Frames, TInv, TypesNoPool, UpType
    <2> QED
      BY <1>4, <2>1, <2>2, OrigFacts
  <1>6. Flowing(f, e, r, sta[f], o, up[f], why[f])
    BY <1>1 DEF Order, FlowOK, EntryOf
  <1>7. o.next <= o.base + o.win /\ o.win = W
    BY <1>1, <1>6 DEF Flowing, Agreed
  <1>8. /\ o.base <= n /\ n <= o.next
        /\ n = o.next => o.next < o.base + o.win
    BY <1>1, <1>4, <1>5 DEF Outstanding, MaySendNew
  <1>9. /\ o.base <= q.base /\ q.open = o.open /\ q.win = o.win
        /\ q.next = IF n = o.next THEN n + 1 ELSE o.next
        /\ \A m \in q.acked : m \in o.acked \/ m = n
        /\ q \in OrigType
    BY <1>4, <1>8, SentMoves, SentOK
  <1> HIDE DEF q
  <1>10. q.next \in Int /\ q.base \in Int
    BY <1>9, OrigFacts
  <1>11. n < q.next /\ o.next <= q.next /\ q.next <= o.base + W /\ q.next <= q.base + q.win
    <2> HIDE DEF o, W
    <2> QED
      BY <1>5, <1>7, <1>8, <1>9, <1>10
  <1>12. Gains(a, d, {fr}) /\ d \in CtxType /\ d.BAWinSize = W
    BY <1>2, <1>3, AmpduGains, IndicateAmpduKeeps DEF Keeps
  <1>13. a.why \subseteq d.why /\ why[f] \subseteq a.why
    BY <1>3, <1>12 DEF Gains
  <1>14. ASSUME a.why \cap {"stuck", "behind"} = {}
         PROVE  Finds(f, S, o, a, n, q.next)
    <2>1. Behind(f, n) = {} /\ why[f] = a.why
      BY <1>3, <1>14 DEF Behind
    <2>2. ~(n = o.next /\ r.LastIndSeq # RESET /\ SEQ_SMALLER(n % M, r.LastIndSeq))
      BY <2>1 DEF Behind
    <2>3. InSession(f, r, o, S, a.why)
      BY <1>1, <1>6, <1>14, <2>1 DEF Flowing, Positioned
    <2>4. n <= o.next /\ o.open /\ o \in OrigType /\ q.next = IF n = o.next THEN n + 1 ELSE o.next
      BY <1>1, <1>4, <1>8, <1>9
    <2>5. a.BAWinSize = r.BAWinSize /\ a.LastIndSeq = r.LastIndSeq /\ a.list = r.list
      BY <1>3
    <2> HIDE DEF a, o, r, S, W
    <2> QED
      BY <1>3, <1>5, <1>10, <2>2, <2>3, <2>4, <2>5, FrameFinds
  <1>15. "stuck" \in d.why => d.why \cap {"direct", "behind"} # {}
    <2>1. CASE "stuck" \in a.why \/ "behind" \in a.why
      <3>1. "stuck" \in a.why => "stuck" \in why[f]
        BY <1>3 DEF Behind
      <3>2. "stuck" \in why[f] => why[f] \cap {"direct", "behind"} # {}
        BY <1>6 DEF Flowing
      <3> QED
        BY <1>13, <2>1, <3>1, <3>2
    <2>2. CASE ~("stuck" \in a.why \/ "behind" \in a.why)
      <3>1. \/ a.LastIndSeq = RESET /\ a.list = <<>>
            \/ \E T \in Int : Good(f, S, o.base, o.next, a, T, 2) /\ 2 * (n - T) < M
        BY <1>14, <2>2 DEF Finds
      <3>2. o.base <= fr.n /\ q.next <= o.base + a.BAWinSize
        BY <1>2, <1>3, <1>8, <1>11
      <3>3. \/ a.LastIndSeq = RESET /\ a.list = <<>>
            \/ \E T \in Int : Good(fr.flow, S, o.base, o.next, a, T, 2) /\ 2 * (fr.n - T) < M
        BY <1>2, <3>1
      <3> HIDE DEF a, fr, o, S
      <3>4. "stuck" \in d.why => "direct" \in d.why
        BY <1>2, <1>3, <1>5, <1>10, <1>11, <2>2, <3>2, <3>3, AmpduStuck
      <3> QED
        BY <3>4
    <2> QED
      BY <2>1, <2>2
  <1>16. ASSUME d.why \cap {"stuck", "behind"} = {}
         PROVE  /\ \E T2 \in Int : Good(f, S, o.base, q.next, d, T2, 2) /\ 2 * (q.next - T2) <= M
                /\ d.why \cap Skips = {} => Got(S, d, fr)
    <2>1. a.why \cap {"stuck", "behind"} = {} /\ "stuck" \notin d.why
      BY <1>13, <1>16
    <2>2. \/ a.LastIndSeq = RESET /\ a.list = <<>> /\ ("refresh" \notin a.why => S = {})
          \/ \E T \in Int : /\ Good(fr.flow, S, o.base, o.next, a, T, 2)
                            /\ 2 * (fr.n - T) < M /\ 2 * (q.next - T) <= M
      BY <1>2, <1>14, <2>1 DEF Finds
    <2>3. o.base <= fr.n /\ q.next <= o.base + a.BAWinSize /\ fr.n < q.next
      BY <1>2, <1>3, <1>8, <1>11
    <2>4. fr.flow = f /\ "stuck" \notin Indicate_AMPDU(a, fr, o.base).why
      BY <1>2, <2>1
    <2> HIDE DEF a, fr, o, S
    <2>5. /\ \E T2 \in Int : Good(fr.flow, S, o.base, q.next, d, T2, 2) /\ 2 * (q.next - T2) <= M
          /\ d.why \cap Skips = {} => Got(S, d, fr)
      BY <1>2, <1>3, <1>5, <1>10, <1>11, <2>2, <2>3, <2>4, AmpduGood
    <2> QED
      BY <2>4, <2>5
  <1> HIDE DEF d
  <1>17. Served(f, S, o.base, q, d)
    BY <1>16 DEF Served
  <1>18. Kept(f, S, o, q, d)
    <2> SUFFICES ASSUME d.why \cap {"first", "timeout", "direct", "behind"} = {}
                 PROVE  Got(S, d, fr)
      BY <1>9 DEF Kept
    <2>1. d.why \cap {"stuck", "behind"} = {} /\ d.why \cap Skips = {}
      BY <1>15 DEF Skips
    <2> QED
      BY <1>16, <2>1
  <1>19. q.open /\ a.list = rec[idx[f]].list /\ d.BAWinSize = rec[idx[f]].BAWinSize
    BY <1>1, <1>3, <1>9, <1>12
  <1> HIDE DEF a, fr
  <1> QED
    BY <1>1, <1>2, <1>3, <1>9, <1>11, <1>12, <1>13, <1>15, <1>17, <1>18, <1>19, HandledOrder

LEMMA BarOrder ==
  ASSUME TInv, Table, Order, ~ghost.raced, NEW f \in Flows, CntlEnqueueForRecv(f)
  PROVE  Order'
  <1> DEFINE e == idx[f]
             r == rec[e]
             o == orig[f]
             c == Ctx(f, e)
             d == BlockAckReq(c, o.base % M)
             S == up[f].seen
             W == r.BAWinSize
  <1>1. sta[f] /\ o.open /\ e # 0 /\ Handled(f, e, d, FALSE) /\ UNCHANGED <<idx, sta, orig>>
    BY DEF CntlEnqueueForRecv
  <1>2. orig \in [Flows -> OrigType] /\ o \in OrigType /\ o.base <= o.next
    BY DEF TInv, TypesNoPool, OrigOK
  <1>3. o.base \in Int /\ o.next \in Int /\ S \in SUBSET Int /\ o.base <= o.base
    <2>1. S \in SUBSET Int
      BY ConstantsAssumption DEF ConstantsAssumption, Frames, TInv, TypesNoPool, UpType
    <2>2. o.base \in Int /\ o.next \in Int
      BY <1>2, OrigFacts
    <2> QED
      BY <2>1, <2>2
  <1>4. e \in Entries
    BY <1>1, Session
  <1>5. /\ c \in CtxType /\ c.list = r.list /\ c.LastIndSeq = r.LastIndSeq
        /\ c.BAWinSize = W /\ c.out = <<>> /\ c.why = why[f]
    <2>1. c \in CtxType
      BY <1>4, CtxOK
    <2>2. /\ c.list = r.list /\ c.LastIndSeq = r.LastIndSeq
          /\ c.BAWinSize = W /\ c.out = <<>> /\ c.why = why[f]
      BY DEF Ctx
    <2> QED
      BY <2>1, <2>2
  <1>6. Flowing(f, e, r, sta[f], o, up[f], why[f])
    BY <1>1 DEF Order, FlowOK, EntryOf
  <1>7. o.next <= o.base + o.win /\ o.win = W
    BY <1>1, <1>6 DEF Flowing, Agreed
  <1> HIDE DEF c
  <1>8. o.base % M \in 0 .. MAXSEQ
    BY <1>3, SpaceIs DEF Positions
  <1>9. Gains(c, d, {}) /\ d \in CtxType /\ d.BAWinSize = W /\ d.why \subseteq c.why \cup {"again"}
    BY <1>5, <1>8, BlockAckReqGains, BlockAckReqKeeps, BarCauses DEF Keeps
  <1>10. c.why \subseteq d.why
    BY <1>9 DEF Gains
  <1>11. Served(f, S, o.base, o, d)
    <2> SUFFICES ASSUME d.why \cap {"stuck", "behind"} = {}
                 PROVE  \/ /\ d.LastIndSeq = RESET /\ d.list = <<>> /\ d.out = <<>>
                           /\ "refresh" \notin d.why => S = {}
                        \/ \E T \in Int : Good(f, S, o.base, o.next, d, T, 2) /\ 2 * (o.next - T) <= M
      BY DEF Served
    <2>1. InSession(f, r, o, S, c.why)
      BY <1>1, <1>5, <1>6, <1>10 DEF Flowing, Positioned
    <2>2. \/ c.LastIndSeq = RESET /\ c.list = <<>> /\ ("refresh" \notin c.why => S = {})
          \/ \E T \in Int : Good(f, S, o.base, o.next, c, T, 2) /\ 2 * (o.next - T) <= M
      <3>1. CASE r.LastIndSeq = RESET
        BY <1>5, <2>1, <3>1 DEF InSession
      <3>2. CASE r.LastIndSeq # RESET
        <4>1. PICK T \in Int : Placed(f, r, o, S, c.why, T)
          BY <2>1, <3>2 DEF InSession
        <4>2. Good(f, S, o.base, o.next, c, T, 2)
          BY <1>1, <1>5, <4>1, GoodFromPlaced
        <4>3. 2 * (o.next - T) <= M
          BY <1>1, <4>1 DEF Placed
        <4> QED
          BY <4>2, <4>3
      <3> QED
        BY <3>1, <3>2
    <2>3. o.next <= o.base + c.BAWinSize
      BY <1>5, <1>7
    <2>a. o.base <= o.next
      BY <1>2
    <2> HIDE DEF o, S, r, W
    <2>4. \/ d = c /\ c.LastIndSeq = RESET
          \/ \E T2 \in Int : Good(f, S, o.base, o.next, d, T2, 2) /\ 2 * (o.next - T2) <= M
      BY <1>3, <1>5, <2>a, <2>2, <2>3, BarGood
    <2>5. ASSUME d = c, c.LastIndSeq = RESET
          PROVE  c.list = <<>> /\ ("refresh" \notin c.why => S = {})
      <3>1. r.LastIndSeq = RESET /\ r.list = c.list
        BY <1>5, <2>5
      <3> QED
        BY <2>1, <3>1 DEF InSession
    <2> HIDE DEF d
    <2> QED
      BY <1>5, <2>4, <2>5
  <1>12. "stuck" \in d.why => d.why \cap {"direct", "behind"} # {}
    <2>1. "stuck" \in d.why => "stuck" \in why[f]
      BY <1>5, <1>9
    <2>2. "stuck" \in why[f] => why[f] \cap {"direct", "behind"} # {}
      BY <1>6 DEF Flowing
    <2> QED
      BY <1>5, <1>10, <2>1, <2>2
  <1> HIDE DEF d
  <1>13. Kept(f, S, o, o, d)
    BY DEF Kept
  <1>14. orig' = [orig EXCEPT ![f] = o] /\ {} \subseteq [flow : {f}, n : Int]
    BY <1>1, <1>2
  <1>15. c.list = rec[idx[f]].list /\ d.BAWinSize = rec[idx[f]].BAWinSize /\ why[f] \subseteq c.why
    BY <1>5, <1>9
  <1> QED
    BY <1>1, <1>2, <1>3, <1>5, <1>7, <1>9, <1>11, <1>12, <1>13, <1>14, <1>15, HandledOrder

\* One originator moves.
LEMMA OrigOrder ==
  ASSUME TInv, Order, NEW f \in Flows, NEW w,
         Flowing(f, idx[f], EntryOf(f), sta[f], orig'[f], up[f], w),
         why'[f] = w, \A g \in Flows \ {f} : orig'[g] = orig[g] /\ why'[g] = why[g],
         UNCHANGED <<rec, idx, sta, up>>
  PROVE  Order'
  <1>1. FlowOK(f)'
    BY DEF FlowOK, EntryOf
  <1>2. \A g \in Flows \ {f} : /\ idx'[g] = idx[g] /\ idx[g] # -1 /\ sta'[g] = sta[g]
                                /\ orig'[g] = orig[g] /\ up'[g] = up[g] /\ why'[g] = why[g]
    BY ConstantsAssumption DEF ConstantsAssumption, TInv, TypesNoPool
  <1>3. -1 \notin Entries /\ \A x \in Entries \ {-1} : rec'[x] = rec[x]
    BY DEF Entries
  <1> QED
    BY <1>1, <1>2, <1>3, OneFlow

LEMMA LoseOrder ==
  ASSUME TInv, Order, ~ghost.raced, NEW f \in Flows, LoseFrame(f)
  PROVE  Order'
  <1> DEFINE o == orig[f]
             q == [o EXCEPT !.next = o.next + 1]
             r == rec[idx[f]]
             B == Behind(f, o.next)
  <1>0. /\ orig \in [Flows -> OrigType] /\ why \in [Flows -> SUBSET Causes] /\ o \in OrigType
        /\ rec \in [Entries -> RecType] /\ o.next <= FirstFrame + ghost.sent /\ ghost \in GhostType
    BY DEF TInv, TypesNoPool, OrigOK
  <1>1. /\ o.open /\ idx[f] # 0 /\ ghost.sent < MaxFrames /\ o.next < o.base + o.win
        /\ orig' = [orig EXCEPT ![f] = q] /\ why' = [why EXCEPT ![f] = why[f] \cup B]
        /\ UNCHANGED <<rec, idx, sta, up>>
    BY <1>0 DEF LoseFrame, MaySendNew
  <1>2. B \in SUBSET {"behind"}
        /\ (r.LastIndSeq # RESET /\ SEQ_SMALLER(o.next % M, r.LastIndSeq) => "behind" \in B)
    BY DEF Behind
  <1>3. q \in OrigType /\ q.base = o.base /\ q.open = o.open /\ q.win = o.win
        /\ q.next = o.next + 1 /\ q.acked = o.acked
    <2>1. o.next + 1 \in Numbers
      <3>1. o.next \in Numbers /\ ghost.sent \in 0 .. MaxFrames
        BY <1>0 DEF OrigType, GhostType
      <3> HIDE DEF o
      <3> QED
        BY <1>0, <1>1, <3>1, ConstantsAssumption DEF ConstantsAssumption, Numbers
    <2> HIDE DEF o
    <2> QED
      BY <1>0, <2>1 DEF OrigType
  <1>4. Flowing(f, idx[f], r, sta[f], o, up[f], why[f])
    BY <1>1 DEF Order, FlowOK, EntryOf
  <1>5. r.list \in Seq(FrameType)
    BY <1>0, <1>1, Session DEF RecType
  <1>6. orig'[f] = q /\ why'[f] = why[f] \cup B
        /\ \A g \in Flows \ {f} : orig'[g] = orig[g] /\ why'[g] = why[g]
    BY <1>0, <1>1
  <1>7. EntryOf(f) = r
    BY <1>1 DEF EntryOf
  <1> HIDE DEF q, B, r
  <1>8. Flowing(f, idx[f], r, sta[f], q, up[f], why[f] \cup B)
    BY <1>0, <1>1, <1>2, <1>3, <1>4, <1>5, NextGrows
  <1> QED
    BY <1>1, <1>6, <1>7, <1>8, OrigOrder

LEMMA GiveUpOrder ==
  ASSUME TInv, Order, NEW f \in Flows, GiveUp(f)
  PROVE  Order'
  <1> DEFINE o == orig[f]
             p == [o EXCEPT !.base = o.base + 1]
             q == Slide(p)
  <1>0. /\ orig \in [Flows -> OrigType] /\ o \in OrigType /\ \A n \in o.acked : n < o.next
    BY DEF TInv, TypesNoPool, OrigOK
  <1>1. /\ o.base < o.next /\ orig' = [orig EXCEPT ![f] = q] /\ UNCHANGED <<rec, idx, sta, up, why>>
    BY DEF GiveUp
  <1>2. o.base \in Int /\ o.next \in Int /\ o.base \in Numbers /\ o.next \in Numbers
    BY <1>0, OrigFacts DEF OrigType
  <1>3. o.base + 1 \in Numbers /\ o.base <= o.base + 1 /\ o.base + 1 <= o.next
    <2> HIDE DEF o
    <2> QED
      BY <1>1, <1>2, ConstantsAssumption DEF ConstantsAssumption, Numbers
  <1>4. p \in OrigType /\ p.base = o.base + 1 /\ p.open = o.open /\ p.win = o.win
        /\ p.next = o.next /\ p.acked = o.acked
    <2> HIDE DEF o
    <2> QED
      BY <1>0, <1>3 DEF OrigType
  <1> HIDE DEF p
  <1>5. /\ p.base <= q.base /\ q.open = p.open /\ q.win = p.win /\ q.next = p.next
        /\ q.acked = p.acked /\ q \in OrigType
    BY <1>0, <1>3, <1>4, SlideMoves, SlideOK
  <1> HIDE DEF q
  <1>6. o.base <= q.base
    <2>1. q.base \in Int
      BY <1>5, OrigFacts
    <2> QED
      BY <1>2, <1>4, <1>5, <2>1
  <1>7. Flowing(f, idx[f], EntryOf(f), sta[f], o, up[f], why[f])
    BY DEF Order, FlowOK
  <1>8. Flowing(f, idx[f], EntryOf(f), sta[f], q, up[f], why[f])
    BY <1>0, <1>4, <1>5, <1>6, <1>7, BaseGrows
  <1>9. orig'[f] = q /\ why'[f] = why[f] /\ \A g \in Flows \ {f} : orig'[g] = orig[g] /\ why'[g] = why[g]
    BY <1>0, <1>1
  <1> QED
    BY <1>1, <1>8, <1>9, OrigOrder

\* What no flow's frames depend on.
LEMMA OrderSame ==
  ASSUME TInv, Order, UNCHANGED <<idx, sta, orig, up, why>>,
         \A x \in Entries : /\ rec'[x].LastIndSeq = rec[x].LastIndSeq
                            /\ rec'[x].list = rec[x].list
                            /\ rec'[x].BAWinSize = rec[x].BAWinSize
                            /\ rec'[x].flow = rec[x].flow
                            /\ rec'[x].status = "NONE" => rec[x].list = <<>>
  PROVE  Order'
  <1>1. ASSUME NEW g \in Flows PROVE FlowOK(g)'
    <2>1. FlowOK(g)
      BY DEF Order
    <2>2. idx[g] # 0 => idx[g] \in Entries
      BY Session
    <2> QED
      BY <2>1, <2>2, FlowSame
  <1>2. \A x \in Entries : Clean(rec[x])'
    BY DEF Order, Clean
  <1> QED
    BY <1>1, <1>2 DEF Order

LEMMA TickOrder ==
  ASSUME TInv, Order, NEW e \in Entries, Tick(e)
  PROVE  Order'
  <1> DEFINE x == [rec[e] EXCEPT !.age = rec[e].age + 1]
  <1>0. rec \in [Entries -> RecType] /\ rec[e] \in RecType
    BY DEF TInv, TypesNoPool
  <1>1. rec' = [rec EXCEPT ![e] = x] /\ UNCHANGED <<idx, sta, orig, up, why>>
    BY DEF Tick
  <1>2. /\ x.status = rec[e].status /\ x.flow = rec[e].flow /\ x.list = rec[e].list
        /\ x.LastIndSeq = rec[e].LastIndSeq /\ x.BAWinSize = rec[e].BAWinSize
    BY <1>0 DEF RecType
  <1> HIDE DEF x
  <1>3. \A d \in Entries : /\ rec'[d].LastIndSeq = rec[d].LastIndSeq
                           /\ rec'[d].list = rec[d].list
                           /\ rec'[d].BAWinSize = rec[d].BAWinSize
                           /\ rec'[d].flow = rec[d].flow
                           /\ rec'[d].status = rec[d].status
    BY <1>0, <1>1, <1>2
  <1>4. \A d \in Entries : rec'[d].status = "NONE" => rec[d].list = <<>>
    BY <1>3 DEF Order, Clean
  <1> QED
    BY <1>1, <1>3, <1>4, OrderSame

LEMMA TdFreeOrder ==
  ASSUME TInv, Table, Order, TdFree
  PROVE  Order'
  <1>1. td.e \in Entries /\ td.flow \in Flows /\ td.pc = "free"
    BY Commanded DEF TdFree
  <1>2. rec[td.e].flow = td.flow /\ idx[td.flow] = 0
    BY <1>1 DEF Table, Command
  <1>3. idx \in [Flows -> 0 .. MAX_LEN_OF_BA_REC_TABLE - 1]
    BY DEF TInv, TypesNoPool
  <1>4. idx' = idx
    BY <1>1, <1>2, <1>3 DEF TdFree
  <1>5. UNCHANGED <<rec, sta, orig, up, why>>
    BY DEF TdFree
  <1>6. \A d \in Entries : rec[d].status = "NONE" => rec[d].list = <<>>
    BY DEF Order, Clean
  <1> QED
    BY <1>4, <1>5, <1>6, OrderSame

LEMMA TdDecOrder ==
  ASSUME TInv, Table, Lists, Order, TdDec
  PROVE  Order'
  <1> DEFINE e == td.e
             x == [rec[e] EXCEPT !.status = "NONE"]
  <1>1. e \in Entries /\ td.pc = "dec"
    BY Commanded DEF TdDec
  <1>2. rec \in [Entries -> RecType] /\ rec[e] \in RecType
    BY <1>1 DEF TInv, TypesNoPool
  <1>3. rec' = [rec EXCEPT ![e] = x] /\ UNCHANGED <<idx, sta, orig, up, why>>
    BY DEF TdDec
  <1>4. rec[e].list = <<>>
    BY <1>1 DEF Lists, Flushed
  <1> HIDE DEF e
  <1>5. /\ x.flow = rec[e].flow /\ x.list = rec[e].list
        /\ x.LastIndSeq = rec[e].LastIndSeq /\ x.BAWinSize = rec[e].BAWinSize
    BY <1>2 DEF RecType
  <1> HIDE DEF x
  <1>6. \A d \in Entries : /\ rec'[d].LastIndSeq = rec[d].LastIndSeq
                           /\ rec'[d].list = rec[d].list
                           /\ rec'[d].BAWinSize = rec[d].BAWinSize
                           /\ rec'[d].flow = rec[d].flow
    BY <1>1, <1>2, <1>3, <1>5
  <1>7. ASSUME NEW d \in Entries, rec'[d].status = "NONE" PROVE rec[d].list = <<>>
    <2>1. CASE d = e
      BY <1>4, <2>1
    <2>2. CASE d # e
      <3>1. rec'[d] = rec[d]
        BY <1>2, <1>3, <2>2
      <3> QED
        BY <1>7, <3>1 DEF Order, Clean
    <2> QED
      BY <2>1, <2>2
  <1> QED
    BY <1>3, <1>6, <1>7, OrderSame

LEMMA TdEnterOrder ==
  ASSUME TInv, Order, NEW f \in Flows, NEW heard \in BOOLEAN, TdEnter(f, heard)
  PROVE  Order'
  <1>0. orig \in [Flows -> OrigType]
    BY DEF TInv, TypesNoPool
  <1>1. UNCHANGED <<rec, idx, sta, up, why>>
        /\ orig' = IF heard THEN [orig EXCEPT ![f] = NoOrig] ELSE orig
    BY DEF TdEnter
  <1>2. orig'[f] \in {NoOrig, orig[f]} /\ why'[f] = why[f]
        /\ \A g \in Flows \ {f} : orig'[g] = orig[g] /\ why'[g] = why[g]
    BY <1>0, <1>1
  <1>3. Flowing(f, idx[f], EntryOf(f), sta[f], orig[f], up[f], why[f])
    BY DEF Order, FlowOK
  <1>4. Flowing(f, idx[f], EntryOf(f), sta[f], NoOrig, up[f], why[f])
    BY <1>3, FlowClosed
  <1>5. Flowing(f, idx[f], EntryOf(f), sta[f], orig'[f], up[f], why[f])
    BY <1>2, <1>3, <1>4
  <1> QED
    BY <1>1, <1>2, <1>5, OrigOrder

\* A flow that has no session after the step.
LEMMA NoSession ==
  ASSUME NEW f \in Flows, idx'[f] = 0,
         Flowing(f, 0, FreeEntry, sta'[f], orig'[f], up'[f], why'[f])
  PROVE  FlowOK(f)'
  BY DEF FlowOK, EntryOf

LEMMA NoEntry ==
  ASSUME TInv
  PROVE  -1 \notin Entries /\ \A g \in Flows : idx[g] # -1
  BY ConstantsAssumption DEF ConstantsAssumption, TInv, TypesNoPool, Entries

LEMMA NoOrigIs == NoOrig.open = FALSE /\ NoOrig.acked = {}
  BY DEF NoOrig

LEMMA TornDownOrder ==
  ASSUME TInv, Order, NEW f \in Flows, Indicate_TornDown(f)
  PROVE  Order'
  <1>0. /\ orig \in [Flows -> OrigType] /\ up \in [Flows -> UpType]
        /\ why \in [Flows -> SUBSET Causes]
    BY DEF TInv, TypesNoPool
  <1>1. /\ UNCHANGED <<rec, idx, sta>> /\ idx[f] = 0 /\ orig' = [orig EXCEPT ![f] = NoOrig]
        /\ up' = [up EXCEPT ![f] = NothingUp] /\ why' = [why EXCEPT ![f] = {}]
    BY DEF Indicate_TornDown
  <1>2. orig'[f] = NoOrig /\ up'[f] = NothingUp /\ why'[f] = {} /\ idx'[f] = 0
    BY <1>0, <1>1
  <1>3. Flowing(f, 0, FreeEntry, sta'[f], NoOrig, NothingUp, {})
    BY NoOrigIs, FlowEnded
  <1>4. FlowOK(f)'
    BY <1>2, <1>3, NoSession
  <1>5. \A g \in Flows \ {f} : /\ idx'[g] = idx[g] /\ idx[g] # -1 /\ sta'[g] = sta[g]
                                /\ orig'[g] = orig[g] /\ up'[g] = up[g] /\ why'[g] = why[g]
    BY <1>0, <1>1, NoEntry
  <1> QED
    BY <1>1, <1>4, <1>5, NoEntry, OneFlow

LEMMA InsertOrder ==
  ASSUME TInv, Order, NEW f \in Flows, MacTableInsertEntry(f)
  PROVE  Order'
  <1>0. /\ idx \in [Flows -> 0 .. MAX_LEN_OF_BA_REC_TABLE - 1] /\ sta \in [Flows -> BOOLEAN]
    BY DEF TInv, TypesNoPool
  <1>1. /\ UNCHANGED <<rec, orig, up, why>> /\ ~sta[f] /\ sta' = [sta EXCEPT ![f] = TRUE]
        /\ idx' = [idx EXCEPT ![f] = 0]
    BY DEF MacTableInsertEntry
  <1>2. sta[f] = FALSE /\ idx'[f] = 0
    BY <1>0, <1>1
  <1>3. Flowing(f, idx[f], EntryOf(f), FALSE, orig[f], up[f], why[f])
    BY <1>2 DEF Order, FlowOK
  <1>4. ~orig[f].open /\ orig[f].acked = {}
    BY <1>3 DEF Flowing, Agreed
  <1>5. Flowing(f, 0, FreeEntry, sta'[f], orig[f], up[f], why[f])
    BY <1>3, <1>4 DEF Flowing, Positioned, Agreed, InOrderSoFar, Survives
  <1>6. FlowOK(f)'
    BY <1>1, <1>2, <1>5, NoSession
  <1>7. \A g \in Flows \ {f} : /\ idx'[g] = idx[g] /\ idx[g] # -1 /\ sta'[g] = sta[g]
                                /\ orig'[g] = orig[g] /\ up'[g] = up[g] /\ why'[g] = why[g]
    <2>1. \A g \in Flows \ {f} : idx'[g] = idx[g] /\ idx[g] # -1
      BY <1>0, <1>1, NoEntry
    <2>2. \A g \in Flows \ {f} : sta'[g] = sta[g]
      BY <1>0, <1>1
    <2> QED
      BY <1>1, <2>1, <2>2
  <1> QED
    BY <1>1, <1>6, <1>7, NoEntry, OneFlow

\* A flushed list holds only frames of its flow.
LEMMA RefreshOwn ==
  ASSUME TInv, Order, NEW f \in Flows, NEW e \in Entries, rec[e].flow = f
  PROVE  LET c == Refresh(Ctx(f, e)) IN
         /\ c \in CtxType /\ c.list = <<>> /\ c.why = why[f] /\ c.LastIndSeq = RESET
         /\ c.out \in Seq(FrameType) /\ OfFlow(f, c.out)
  <1> DEFINE b == Ctx(f, e)
             c == Refresh(b)
  <1>1. b \in CtxType /\ b.list = rec[e].list /\ b.out = <<>> /\ b.why = why[f]
    BY CtxOK DEF Ctx
  <1>2. OfFlow(f, b.list)
    BY <1>1 DEF Order, Clean, OfFlow
  <1>3. Gains(b, c, {}) /\ c \in CtxType /\ c.list = <<>> /\ c.why = b.why
    BY <1>1, RefreshGains, RefreshKeeps
  <1>4. c.LastIndSeq = RESET
    <2> DEFINE a == Announce(b, Len(b.list))
    <2>1. Len(b.list) \in 0 .. Len(b.list)
      BY <1>1 DEF CtxType
    <2>2. a \in CtxType /\ c = [a EXCEPT !.LastIndSeq = RESET]
      BY <1>1, <2>1, AnnounceMoves DEF Refresh
    <2> HIDE DEF a, c
    <2> QED
      BY <2>2 DEF CtxType
  <1>5. {} \subseteq [flow : {f}, n : Int]
    OBVIOUS
  <1> HIDE DEF b
  <1>6. OfFlow(f, c.out)
    BY <1>1, <1>2, <1>3, <1>5, OwnFrames
  <1>7. c.out \in Seq(FrameType)
    BY <1>3, CtxFacts
  <1> QED
    BY <1>1, <1>3, <1>4, <1>6, <1>7 DEF b

LEMMA TearDownOrder ==
  ASSUME TInv, Table, Order, ~ghost.raced, NEW f \in Flows, BARecSessionTearDown(f),
         orig' = [orig EXCEPT ![f] = NoOrig], \A g \in Flows \ {f} : sta'[g] = sta[g]
  PROVE  Order'
  <1> DEFINE e == idx[f]
             c == Refresh(Ctx(f, e))
  <1>0. /\ rec \in [Entries -> RecType] /\ why \in [Flows -> SUBSET Causes]
        /\ up \in [Flows -> UpType] /\ orig \in [Flows -> OrigType]
        /\ idx \in [Flows -> 0 .. MAX_LEN_OF_BA_REC_TABLE - 1]
    BY DEF TInv, TypesNoPool
  <1>1. why' = [why EXCEPT ![f] = {}]
    BY DEF BARecSessionTearDown
  <1>2. orig'[f] = NoOrig /\ why'[f] = {}
        /\ \A g \in Flows \ {f} : orig'[g] = orig[g] /\ why'[g] = why[g]
    BY <1>0, <1>1
  <1>3. Flowing(f, 0, FreeEntry, sta'[f], NoOrig, NothingUp, {})
    BY NoOrigIs, FlowEnded
  <1>4. CASE e # 0 /\ rec[e].status = "Accept"
    <2> DEFINE x == [Entry(e, c) EXCEPT !.BAWinSize = 0, !.status = "NONE"]
    <2>1. e \in Entries /\ rec[e].flow = f
      BY <1>4, Session DEF Table, Named
    <2>2. /\ rec' = [rec EXCEPT ![e] = x] /\ up' = [Passed(c.out) EXCEPT ![f] = NothingUp]
          /\ idx' = [g \in Flows |-> IF g \in {f, rec[e].flow} THEN 0 ELSE idx[g]]
      BY <1>4 DEF BARecSessionTearDown
    <2>3. c \in CtxType /\ c.list = <<>> /\ c.out \in Seq(FrameType) /\ OfFlow(f, c.out)
      BY <2>1, RefreshOwn
    <2>4. x.list = <<>>
      <3> DEFINE r == Entry(e, c)
      <3>2. r \in RecType /\ r.list = <<>>
        BY <2>1, <2>3, EntryOK
      <3> HIDE DEF r
      <3>3. [r EXCEPT !.BAWinSize = 0, !.status = "NONE"].list = <<>>
        BY <3>2 DEF RecType
      <3> QED
        BY <3>3 DEF r
    <2> HIDE DEF x, c
    <2>5. rec'[e].list = <<>> /\ \A d \in Entries \ {e} : rec'[d] = rec[d]
      BY <1>0, <2>1, <2>2, <2>4
    <2>6. idx'[f] = 0 /\ \A g \in Flows \ {f} : idx'[g] = idx[g]
      BY <1>0, <2>1, <2>2
    <2>7. Clean(rec'[e])
      BY <2>5 DEF Clean
    <2>8. Passed(c.out) \in [Flows -> UpType]
      BY <2>3, <1>0, PassedOK
    <2>9. up'[f] = NothingUp /\ \A g \in Flows \ {f} : up'[g] = Passed(c.out)[g]
      BY <2>2, <2>8
    <2>10. \A g \in Flows \ {f} : up'[g] = up[g]
      BY <2>3, <2>9, OthersHistory
    <2>11. \A g \in Flows \ {f} : idx[g] # e
      BY <1>4, <2>1, OthersElsewhere
    <2>12. FlowOK(f)'
      BY <1>2, <1>3, <2>6, <2>9, NoSession
    <2>13. \A g \in Flows \ {f} : /\ idx'[g] = idx[g] /\ idx[g] # e /\ sta'[g] = sta[g]
                                  /\ orig'[g] = orig[g] /\ up'[g] = up[g] /\ why'[g] = why[g]
      BY <1>2, <2>6, <2>10, <2>11
    <2> QED
      BY <2>5, <2>7, <2>12, <2>13, OneFlow
  <1>5. CASE ~(e # 0 /\ rec[e].status = "Accept")
    <2>1. UNCHANGED <<rec, idx>> /\ up' = [up EXCEPT ![f] = NothingUp]
      BY <1>5 DEF BARecSessionTearDown
    <2>2. idx[f] = 0 /\ up'[f] = NothingUp /\ \A g \in Flows \ {f} : up'[g] = up[g]
      BY <1>0, <1>5, <2>1 DEF Table, Named
    <2>3. FlowOK(f)'
      BY <1>2, <1>3, <2>1, <2>2, NoSession
    <2>4. \A g \in Flows \ {f} : /\ idx'[g] = idx[g] /\ idx[g] # -1 /\ sta'[g] = sta[g]
                                 /\ orig'[g] = orig[g] /\ up'[g] = up[g] /\ why'[g] = why[g]
      BY <1>2, <2>1, <2>2, NoEntry
    <2> QED
      BY <2>1, <2>3, <2>4, NoEntry, OneFlow
  <1> QED
    BY <1>4, <1>5

\* A tear-down that had no memory for its DELBA leaves the session behind.
LEMMA SessionStays ==
  ASSUME TInv, Order, NEW f \in Flows, orig' = [orig EXCEPT ![f] = NoOrig],
         \A g \in Flows \ {f} : sta'[g] = sta[g], UNCHANGED <<rec, idx, up, why>>
  PROVE  Order'
  <1>0. orig \in [Flows -> OrigType]
    BY DEF TInv, TypesNoPool
  <1>1. orig'[f] = NoOrig /\ \A g \in Flows \ {f} : orig'[g] = orig[g]
    BY <1>0
  <1>2. Flowing(f, idx[f], EntryOf(f), sta[f], orig[f], up[f], why[f])
    BY DEF Order, FlowOK
  <1>3. Flowing(f, idx[f], EntryOf(f), sta'[f], NoOrig, up[f], why[f])
    BY <1>2, FlowClosed
  <1>4. FlowOK(f)'
    BY <1>1, <1>3 DEF FlowOK, EntryOf
  <1>5. \A g \in Flows \ {f} : /\ idx'[g] = idx[g] /\ idx[g] # -1 /\ sta'[g] = sta[g]
                                /\ orig'[g] = orig[g] /\ up'[g] = up[g] /\ why'[g] = why[g]
    BY <1>1, NoEntry
  <1> QED
    BY <1>4, <1>5, NoEntry, OneFlow

LEMMA SessionEndsOrder ==
  ASSUME TInv, Table, Order, ~ghost.raced, NEW f \in Flows,
         \/ PeerDelBAAction(f)
         \/ \E fails \in BOOLEAN : PeerAuth(f, fails)
         \/ \E fails \in BOOLEAN : MacTableDeleteEntry(f, fails)
  PROVE  Order'
  <1>0. sta \in [Flows -> BOOLEAN]
    BY DEF TInv, TypesNoPool
  <1>1. orig' = [orig EXCEPT ![f] = NoOrig]
    BY DEF PeerDelBAAction, PeerAuth, MacTableDeleteEntry
  <1>2. \A g \in Flows \ {f} : sta'[g] = sta[g]
    BY <1>0 DEF PeerDelBAAction, PeerAuth, MacTableDeleteEntry
  <1>3. CASE BARecSessionTearDown(f)
    BY <1>1, <1>2, <1>3, TearDownOrder
  <1>4. ASSUME NEW fails \in BOOLEAN, BASessionTearDownALL(f, fails) PROVE Order'
    <2>1. CASE fails
      <3>1. UNCHANGED <<rec, idx, up, why>>
        BY <1>4, <2>1 DEF BASessionTearDownALL
      <3> QED
        BY <1>1, <1>2, <3>1, SessionStays
    <2>2. CASE ~fails
      BY <1>3, <1>4, <2>2 DEF BASessionTearDownALL
    <2> QED
      BY <2>1, <2>2
  <1>5. ASSUME NEW fails \in BOOLEAN, PeerAuth(f, fails) \/ MacTableDeleteEntry(f, fails)
        PROVE  BASessionTearDownALL(f, fails)
    BY <1>5 DEF PeerAuth, MacTableDeleteEntry
  <1>6. PeerDelBAAction(f) => BARecSessionTearDown(f)
    BY DEF PeerDelBAAction
  <1> QED
    BY <1>3, <1>4, <1>5, <1>6

\* A session that has just been added.
LEMMA FlowOpened ==
  ASSUME NEW f, NEW e, NEW r, NEW o, r.LastIndSeq = RESET, r.list = <<>>, o.acked = {},
         o.open => o.win = r.BAWinSize /\ o.next <= o.base + o.win
  PROVE  Flowing(f, e, r, TRUE, o, NothingUp, {})
  <1>1. NothingUp.seen = {} /\ NothingUp.back = FALSE /\ NothingUp.twice = FALSE
    BY DEF NothingUp
  <1>2. Positioned(f, e, r, o, NothingUp, {})
    BY <1>1 DEF Positioned, InSession
  <1>3. InOrderSoFar(e, NothingUp, {})
    BY <1>1 DEF InOrderSoFar
  <1>4. Agreed(e, r, TRUE, o)
    BY DEF Agreed
  <1> QED
    BY <1>2, <1>3, <1>4 DEF Flowing, Survives

LEMMA AddOrder ==
  ASSUME TInv, Table, Order, ~ghost.raced, NEW f \in Flows, NEW buf \in BufSizes,
         NEW heard \in BOOLEAN, PeerAddBAReqAction(f, buf, heard)
  PROVE  Order'
  <1> DEFINE new == idx[f] = 0
             e == IF new THEN AllocRecEntry ELSE idx[f]
             c == IF new THEN Ctx(f, e) ELSE Refresh(Ctx(f, e))
             x == Accepted(f, e, c, buf)
             o == IF heard THEN Opened(buf) ELSE NoOrig
  <1>0. /\ rec \in [Entries -> RecType] /\ num \in Int /\ orig \in [Flows -> OrigType]
        /\ idx \in [Flows -> 0 .. MAX_LEN_OF_BA_REC_TABLE - 1] /\ up \in [Flows -> UpType]
        /\ MAX_LEN_OF_BA_REC_TABLE \in Nat /\ why \in [Flows -> SUBSET Causes]
        /\ FirstFrame \in Nat
    BY ConstantsAssumption DEF ConstantsAssumption, TInv, TypesNoPool
  <1>1. CASE new /\ num >= MAX_LEN_OF_BA_REC_TABLE - 1
    <2>1. UNCHANGED <<rec, idx, sta, orig, up, why>>
      BY <1>1 DEF PeerAddBAReqAction
    <2>2. \A d \in Entries : rec[d].status = "NONE" => rec[d].list = <<>>
      BY DEF Order, Clean
    <2> QED
      BY <2>1, <2>2, OrderSame
  <1>2. CASE ~(new /\ num >= MAX_LEN_OF_BA_REC_TABLE - 1)
    <2>1. /\ rec' = [rec EXCEPT ![e] = x]
          /\ idx' = [idx EXCEPT ![f] = IF new /\ NoneEntries = {} THEN 0 ELSE e]
          /\ up' = [Passed(c.out) EXCEPT ![f] = NothingUp]
          /\ why' = [why EXCEPT ![f] = {}] /\ orig' = [orig EXCEPT ![f] = o]
          /\ UNCHANGED sta
      BY <1>2 DEF PeerAddBAReqAction
    <2>2. sta[f] = TRUE
      BY DEF PeerAddBAReqAction, TInv, TypesNoPool
    <2>3. e \in Entries /\ (new => NoneEntries # {} /\ e \in NoneEntries)
      <3>1. e \in Entries
        BY AllocOK, Session
      <3>2. ASSUME new PROVE NoneEntries # {} /\ e \in NoneEntries
        <4>1. num < MAX_LEN_OF_BA_REC_TABLE - 1
          BY <1>0, <1>2, <3>2
        <4> QED
          BY <3>2, <4>1, RoomMeansFree
      <3> QED
        BY <3>1, <3>2
    <2>4. e # 0
      BY <2>3 DEF Entries
    <2>5. /\ c \in CtxType /\ c.list = <<>>
          /\ c.out \in Seq(FrameType) /\ OfFlow(f, c.out)
          /\ \A g \in Flows \ {f} : idx[g] # e
      <3>1. CASE new
        <4>1. c = Ctx(f, e) /\ rec[e].status = "NONE"
          BY <2>3, <3>1 DEF NoneEntries
        <4> HIDE DEF e, c
        <4>2. c \in CtxType /\ c.list = rec[e].list /\ c.out = <<>>
          BY <2>3, <4>1, CtxOK DEF Ctx
        <4>3. rec[e].list = <<>>
          BY <2>3, <4>1 DEF Order, Clean
        <4>4. c.out \in Seq(FrameType) /\ OfFlow(f, c.out)
          BY <4>2 DEF OfFlow
        <4>5. \A g \in Flows \ {f} : idx[g] # e
          BY <2>4, <4>1 DEF Table, Named
        <4> QED
          BY <4>2, <4>3, <4>4, <4>5
      <3>2. CASE ~new
        <4>1. c = Refresh(Ctx(f, e)) /\ rec[e].flow = f
          BY <3>2 DEF Table, Named
        <4> HIDE DEF e, c
        <4>2. \A g \in Flows \ {f} : idx[g] # e
          BY <2>4, <4>1, OthersElsewhere
        <4> QED
          BY <2>3, <4>1, <4>2, RefreshOwn
      <3> QED
        BY <3>1, <3>2
    <2> HIDE DEF c
    <2>6. x.list = <<>> /\ x.BAWinSize = BAWinSize(buf) /\ x.LastIndSeq = RESET
      <3> DEFINE r == Entry(e, c)
      <3>1. r \in RecType /\ r.list = <<>>
        BY <2>3, <2>5, EntryOK
      <3>2. x = [r EXCEPT !.status = "Accept", !.flow = f, !.LastIndSeq = RESET,
                          !.BAWinSize = BAWinSize(buf)]
        BY DEF Accepted
      <3> HIDE DEF r, x
      <3> QED
        BY <3>1, <3>2 DEF RecType
    <2>7. idx' = [idx EXCEPT ![f] = e]
      BY <2>1, <2>3
    <2>8. o.acked = {} /\ (o.open => o.win = BAWinSize(buf) /\ o.next <= o.base + o.win)
      <3>1. BAWinSize(buf) \in Nat
        BY GrantedWindow
      <3>2. /\ Opened(buf).acked = {} /\ Opened(buf).win = BAWinSize(buf)
            /\ Opened(buf).next = FirstFrame /\ Opened(buf).base = FirstFrame
        BY DEF Opened, NoOrig
      <3> QED
        BY <1>0, <3>1, <3>2, NoOrigIs
    <2> HIDE DEF x, e, o
    <2>9. Flowing(f, e, x, TRUE, o, NothingUp, {})
      BY <2>6, <2>8, FlowOpened
    <2>10. rec'[e] = x /\ \A d \in Entries \ {e} : rec'[d] = rec[d]
      BY <1>0, <2>1, <2>3
    <2>11. /\ idx'[f] = e /\ orig'[f] = o /\ why'[f] = {}
           /\ \A g \in Flows \ {f} : idx'[g] = idx[g] /\ orig'[g] = orig[g] /\ why'[g] = why[g]
      BY <1>0, <2>1, <2>7
    <2>12. Passed(c.out) \in [Flows -> UpType]
      BY <1>0, <2>5, PassedOK
    <2>13. up'[f] = NothingUp /\ \A g \in Flows \ {f} : up'[g] = Passed(c.out)[g]
      BY <2>1, <2>12
    <2>14. \A g \in Flows \ {f} : up'[g] = up[g]
      BY <2>5, <2>13, OthersHistory
    <2>15. FlowOK(f)'
      <3>1. FlowOK(f)' = Flowing(f, idx'[f], IF idx'[f] = 0 THEN FreeEntry ELSE rec'[idx'[f]],
                                 sta'[f], orig'[f], up'[f], why'[f])
        BY DEF FlowOK, EntryOf
      <3> QED
        BY <2>1, <2>2, <2>4, <2>9, <2>10, <2>11, <2>13, <3>1
    <2>16. Clean(rec'[e])
      BY <2>6, <2>10 DEF Clean
    <2>17. \A g \in Flows \ {f} : /\ idx'[g] = idx[g] /\ idx[g] # e /\ sta'[g] = sta[g]
                                  /\ orig'[g] = orig[g] /\ up'[g] = up[g] /\ why'[g] = why[g]
      BY <2>1, <2>5, <2>11, <2>14
    <2> QED
      BY <2>10, <2>15, <2>16, <2>17, OneFlow
  <1> QED
    BY <1>1, <1>2

LEMMA TdSectionOrder ==
  ASSUME TInv, Table, Order, TdSection
  PROVE  Order'
  <1>0. td \in TdType /\ td.flow \in Flows /\ td.e \in Entries /\ td.pc = "section"
    BY Commanded DEF TdSection
  <1> SUFFICES ASSUME NEW f \in Flows, NEW e \in Entries, td.flow = f, td.e = e PROVE Order'
    BY <1>0
  <1> DEFINE x == [rec[e] EXCEPT !.LastIndSeq = RESET, !.BAWinSize = 0]
             o == [NoOrig EXCEPT !.open = orig[f].open]
  <1>1. f \in Flows /\ e \in Entries
    OBVIOUS
  <1>2. /\ rec' = [rec EXCEPT ![e] = x] /\ idx' = [idx EXCEPT ![f] = 0]
        /\ why' = [why EXCEPT ![f] = {}] /\ up' = [up EXCEPT ![f] = NothingUp]
        /\ orig' = [orig EXCEPT ![f] = o] /\ UNCHANGED sta
    <2>1. rec' = [rec EXCEPT ![e].LastIndSeq = RESET, ![e].BAWinSize = 0]
      BY DEF TdSection
    <2>2. rec' = [rec EXCEPT ![e] = x]
      BY <1>1, <2>1 DEF TInv, TypesNoPool
    <2> QED
      BY <2>2 DEF TdSection
  <1>3. /\ rec \in [Entries -> RecType] /\ why \in [Flows -> SUBSET Causes]
        /\ idx \in [Flows -> 0 .. MAX_LEN_OF_BA_REC_TABLE - 1] /\ up \in [Flows -> UpType]
        /\ orig \in [Flows -> OrigType] /\ rec[e] \in RecType
    BY <1>1 DEF TInv, TypesNoPool
  <1>4. rec[e].flow = f /\ e # 0
    BY <1>0 DEF Table, Command, Entries
  <1>5. x.list = rec[e].list /\ x.status = rec[e].status /\ x.flow = rec[e].flow
    BY <1>3 DEF RecType
  <1>6. /\ o.acked = {} /\ o.next = FirstFrame /\ o.base = FirstFrame /\ o.win = 0
        /\ o.open = orig[f].open
    BY DEF NoOrig
  <1>7. Flowing(f, idx[f], EntryOf(f), sta[f], orig[f], up[f], why[f])
    BY <1>1 DEF Order, FlowOK
  <1>8. ~sta[f] => ~orig[f].open
    BY <1>7 DEF Flowing, Agreed
  <1>9. o.next <= o.base + o.win
    BY <1>6, ConstantsAssumption DEF ConstantsAssumption
  <1> HIDE DEF x, o
  <1>10. ~sta'[f] => ~o.open
    BY <1>2, <1>6, <1>8
  <1>11. Flowing(f, 0, FreeEntry, sta'[f], o, NothingUp, {})
    BY <1>6, <1>9, <1>10, FlowEnded
  <1>12. /\ idx'[f] = 0 /\ why'[f] = {} /\ up'[f] = NothingUp /\ orig'[f] = o
         /\ \A g \in Flows \ {f} : /\ idx'[g] = idx[g] /\ why'[g] = why[g] /\ up'[g] = up[g]
                                   /\ orig'[g] = orig[g]
    BY <1>1, <1>2, <1>3
  <1>13. FlowOK(f)'
    BY <1>1, <1>11, <1>12, NoSession
  <1>14. rec'[e] = x /\ \A d \in Entries \ {e} : rec'[d] = rec[d]
    BY <1>1, <1>2, <1>3
  <1>15. Clean(rec'[e])
    BY <1>1, <1>5, <1>14 DEF Order, Clean
  <1>16. \A g \in Flows \ {f} : idx[g] # e
    BY <1>4, OthersElsewhere
  <1>17. \A g \in Flows \ {f} : /\ idx'[g] = idx[g] /\ idx[g] # e /\ sta'[g] = sta[g]
                                /\ orig'[g] = orig[g] /\ up'[g] = up[g] /\ why'[g] = why[g]
    BY <1>2, <1>12, <1>16
  <1> QED
    BY <1>1, <1>13, <1>14, <1>15, <1>17, OneFlow

\* The frames of a flushed list have been seen.
LEMMA RefreshSees ==
  ASSUME TInv, Order, ~ghost.raced, NEW f \in Flows, NEW e \in Entries, rec[e].flow = f,
         NEW n, \E i \in DOMAIN rec[e].list : rec[e].list[i] = [flow |-> f, n |-> n]
  PROVE  n \in Passed(Refresh(Ctx(f, e)).out)[f].seen
  <1> DEFINE b == Ctx(f, e)
             c == Refresh(b)
             fr == [flow |-> f, n |-> n]
  <1>1. b \in CtxType /\ b.list = rec[e].list
    BY CtxOK
  <1>2. Gains(b, c, {}) /\ c.list = <<>> /\ c.out \in Seq(FrameType) /\ OfFlow(f, c.out)
    BY <1>1, RefreshGains, RefreshOwn
  <1> HIDE DEF b, c
  <1>3. Holds(b, fr)
    BY <1>1 DEF Holds, In
  <1>4. Holds(c, fr)
    BY <1>2, <1>3 DEF Gains
  <1>5. \E i \in DOMAIN c.out : c.out[i] = fr
    BY <1>2, <1>4 DEF Holds, In
  <1>6. n \in Passing(c.out)
    BY <1>5 DEF Passing
  <1>7. up \in [Flows -> UpType] /\ \A i \in DOMAIN c.out : c.out[i].flow = f
    BY <1>2 DEF TInv, TypesNoPool, OfFlow
  <1>8. Passed(c.out)[f].seen = up[f].seen \cup Passing(c.out)
    BY <1>2, <1>7, PassedOwn
  <1> QED
    BY <1>6, <1>8 DEF b, c

LEMMA TdRefreshOrder ==
  ASSUME TInv, Table, Order, ~ghost.raced, TdRefresh
  PROVE  Order'
  <1>0. td \in TdType /\ td.flow \in Flows /\ td.e \in Entries /\ td.pc = "refresh"
    BY Commanded DEF TdRefresh
  <1> SUFFICES ASSUME NEW f \in Flows, NEW e \in Entries, td.flow = f, td.e = e PROVE Order'
    BY <1>0
  <1> DEFINE c == Refresh(Ctx(f, e))
             x == Entry(e, c)
             u == Passed(c.out)[f]
             w == why[f] \cup {"refresh"}
  <1>1. /\ rec \in [Entries -> RecType] /\ why \in [Flows -> SUBSET Causes]
        /\ up \in [Flows -> UpType] /\ rec[e] \in RecType
    BY DEF TInv, TypesNoPool
  <1>2. rec[e].flow = f /\ e # 0 /\ idx[f] \in {0, e}
    BY <1>0 DEF Table, Command, Entries
  <1>3. /\ c \in CtxType /\ c.list = <<>> /\ c.why = why[f] /\ c.LastIndSeq = RESET
        /\ c.out \in Seq(FrameType) /\ OfFlow(f, c.out)
    BY <1>2, RefreshOwn
  <1>4. /\ rec' = [rec EXCEPT ![e] = x] /\ up' = Passed(c.out) /\ why' = [why EXCEPT ![f] = w]
        /\ UNCHANGED <<idx, sta, orig>>
    BY <1>3 DEF TdRefresh
  <1>5. up[f].seen \subseteq u.seen
    <2>1. \A i \in DOMAIN c.out : c.out[i].flow = f
      BY <1>3 DEF OfFlow
    <2> QED
      BY <1>1, <1>3, <2>1, PassedOwn
  <1>6. \A n : (\E i \in DOMAIN rec[e].list : rec[e].list[i] = [flow |-> f, n |-> n])
                 => n \in u.seen
    BY <1>2, RefreshSees
  <1> HIDE DEF c
  <1>7. /\ x.list = <<>> /\ x.LastIndSeq = RESET /\ x.BAWinSize = rec[e].BAWinSize
        /\ x.flow = f
    BY <1>1, <1>2, <1>3 DEF Entry, RecType
  <1> HIDE DEF x, u
  <1>8. /\ rec'[e] = x /\ \A d \in Entries \ {e} : rec'[d] = rec[d]
    BY <1>1, <1>4
  <1>9. /\ up'[f] = u /\ why'[f] = w /\ \A g \in Flows \ {f} : why'[g] = why[g]
    BY <1>1, <1>4 DEF u
  <1>10. "refresh" \in w /\ why[f] \subseteq w /\ w \subseteq why[f] \cup {"refresh"}
    OBVIOUS
  <1> HIDE DEF w
  <1>11. FlowOK(f)'
    <2> DEFINE o == orig[f]
               s == sta[f]
    <2>1. Flowing(f, idx[f], EntryOf(f), s, o, up[f], why[f])
      BY DEF Order, FlowOK
    <2> HIDE DEF o, s
    <2>2. "stuck" \in w => w \cap {"direct", "behind"} # {}
      <3>1. "stuck" \in why[f] => why[f] \cap {"direct", "behind"} # {}
        BY <2>1 DEF Flowing
      <3> QED
        BY <1>10, <3>1
    <2>3. InOrderSoFar(idx[f], u, w)
      BY <1>10 DEF InOrderSoFar
    <2>4. CASE idx[f] = 0
      <3>1. o.acked = {} /\ Agreed(0, FreeEntry, s, o)
        BY <2>1, <2>4 DEF Flowing, Agreed
      <3>2. Flowing(f, 0, FreeEntry, s, o, u, w)
        BY <2>2, <2>3, <2>4, <3>1 DEF Flowing, Positioned, Survives
      <3> QED
        BY <1>4, <1>9, <2>4, <3>2, NoSession DEF o, s
    <2>5. CASE idx[f] = e
      <3>1. Flowing(f, e, rec[e], s, o, up[f], why[f])
        BY <1>2, <2>1, <2>5 DEF EntryOf
      <3>2. Agreed(e, x, s, o)
        BY <1>7, <3>1 DEF Flowing, Agreed
      <3>3. Positioned(f, e, x, o, u, w)
        BY <1>7, <1>10 DEF Positioned, InSession
      <3>4. Survives(f, x, o, u, w)
        <4> SUFFICES ASSUME w \cap {"first", "timeout", "direct", "behind"} = {},
                            NEW n \in o.acked
                     PROVE  n \in u.seen
          BY DEF Survives
        <4>1. why[f] \cap {"first", "timeout", "direct", "behind"} = {}
          BY <1>10
        <4>2. \/ n \in up[f].seen
              \/ \E i \in DOMAIN rec[e].list : rec[e].list[i] = [flow |-> f, n |-> n]
          BY <3>1, <4>1 DEF Flowing, Survives
        <4> QED
          BY <1>5, <1>6, <4>2
      <3>5. Flowing(f, e, x, s, o, u, w)
        BY <2>2, <2>3, <2>5, <3>2, <3>3, <3>4 DEF Flowing
      <3>6. FlowOK(f)' = Flowing(f, idx'[f], IF idx'[f] = 0 THEN FreeEntry ELSE rec'[idx'[f]],
                                 sta'[f], orig'[f], up'[f], why'[f])
        BY DEF FlowOK, EntryOf
      <3>7. idx'[f] = e /\ sta' = sta /\ orig' = orig
        BY <1>4, <2>5
      <3> QED
        BY <1>2, <1>8, <1>9, <3>5, <3>6, <3>7 DEF o, s
    <2> QED
      BY <1>2, <2>4, <2>5
  <1>12. Clean(rec'[e])
    BY <1>7, <1>8 DEF Clean
  <1>13. \A g \in Flows \ {f} : idx[g] # e
    BY <1>2, OthersElsewhere
  <1>14. \A g \in Flows \ {f} : up'[g] = up[g]
    BY <1>3, <1>4, OthersHistory
  <1>15. \A g \in Flows \ {f} : /\ idx'[g] = idx[g] /\ idx[g] # e /\ sta'[g] = sta[g]
                                /\ orig'[g] = orig[g] /\ up'[g] = up[g] /\ why'[g] = why[g]
    BY <1>4, <1>9, <1>13, <1>14
  <1> QED
    BY <1>8, <1>11, <1>12, <1>15, OneFlow

-----------------------------------------------------------------------------
LEMMA OrderNext ==
  ASSUME TInv, TableInv, ListInv, OrderInv, [Next]_vars
  PROVE  OrderInv'
  <1> SUFFICES ASSUME ~ghost'.raced PROVE Order'
    BY DEF OrderInv
  <1>0. ~ghost.raced /\ Table /\ Lists /\ Order
    BY RacedStays DEF TableInv, ListInv, OrderInv, TInv, TypesNoPool
  <1>1. ASSUME NEW f \in Flows, Softirq(f) PROVE Order'
    <2>1. ASSUME NEW n \in Frames, NEW ack \in BOOLEAN, Indicate_AMPDU_Packet(f, n, ack)
          PROVE  Order'
      BY <1>0, <2>1, AmpduOrder
    <2>2. CASE Indicate_TornDown(f)
      BY <1>0, <2>2, TornDownOrder
    <2>3. CASE CntlEnqueueForRecv(f)
      BY <1>0, <2>3, BarOrder
    <2>4. ASSUME NEW buf \in BufSizes, NEW heard \in BOOLEAN,
                 PeerAddBAReqAction(f, buf, heard)
          PROVE  Order'
      BY <1>0, <2>4, AddOrder
    <2>5. CASE MacTableInsertEntry(f)
      BY <1>0, <2>5, InsertOrder
    <2> QED
      BY <1>0, <1>1, <2>1, <2>2, <2>3, <2>4, <2>5, SessionEndsOrder DEF Softirq
  <1>2. ASSUME NEW f \in Flows, LoseFrame(f) \/ GiveUp(f) PROVE Order'
    BY <1>0, <1>2, LoseOrder, GiveUpOrder
  <1>3. ASSUME NEW f \in Flows, NEW heard \in BOOLEAN, TdEnter(f, heard) PROVE Order'
    BY <1>0, <1>3, TdEnterOrder
  <1>4. CASE UNCHANGED vars
    <2>1. UNCHANGED <<rec, idx, sta, orig, up, why>>
      BY <1>4 DEF vars
    <2>2. \A d \in Entries : rec[d].status = "NONE" => rec[d].list = <<>>
      BY <1>0 DEF Order, Clean
    <2> QED
      BY <1>0, <2>1, <2>2, OrderSame
  <1> QED
    BY <1>0, <1>1, <1>2, <1>3, <1>4, TickOrder, TdRefreshOrder, TdSectionOrder,
       TdFreeOrder, TdDecOrder DEF Next

LEMMA OrderAlways == Spec => [](TInv /\ OrderInv)
  <1>1. TInv /\ TableInv /\ ListInv /\ OrderInv /\ [Next]_vars
          => (TInv /\ TableInv /\ ListInv /\ OrderInv)'
    BY TNext, TableNext, ListNext, OrderNext
  <1> QED
    BY <1>1, TInvInit, TableInit, ListInit, OrderInit, PTL DEF Spec

\* Within a session no frame is passed up after a later one, in every reachable
\* state and for every window, pool and number of flows: the comparisons modulo
\* 4096 in Indicate_AMPDU_Packet and the list that insertsorted, _le_seq and
\* _in_order keep give the order of the frames themselves.  What ends the
\* promise is what NoReorder names: a list flushed as a whole, a copy stuck in
\* the list, an originator half of the sequence numbers ahead, a raced command.
THEOREM FramesStayInOrder == Spec => []NoReorder
  <1>1. TInv /\ OrderInv => NoReorder
    BY DEF OrderInv, Order, FlowOK, Flowing, InOrderSoFar, NoReorder, Ordered
  <1> QED
    BY <1>1, OrderAlways, PTL

\* Within a session no frame is passed up twice: cases II and III of
\* Indicate_AMPDU_Packet ("Drop Duplicated", "Drop Old") and insertsorted recognise
\* every copy by its number modulo 4096, however often the originator repeats
\* the frame and whatever is lost.  The exceptions are those of NoReorder and a
\* frame of the list that a BlockAckReq starts at or that finds the pool empty.
THEOREM NoFrameTwice == Spec => []NoDuplicate
  <1>1. TInv /\ OrderInv => NoDuplicate
    BY DEF OrderInv, Order, FlowOK, Flowing, InOrderSoFar, NoDuplicate, Ordered
  <1> QED
    BY <1>1, OrderAlways, PTL

\* A frame whose acknowledgement reached the originator has been passed up or
\* waits in the list: neither cases IV and V of Indicate_AMPDU_Packet nor a
\* BlockAckReq moves the window past a frame that is still to come, and no
\* acknowledged frame is dropped as an old one.
THEOREM AckedFramesSurvive == Spec => []AckedNotLost
  <1>1. TInv /\ OrderInv => AckedNotLost
    <2> SUFFICES ASSUME TInv, OrderInv, NEW f \in Flows, ~ghost.raced,
                        why[f] \cap {"first", "timeout", "direct", "behind"} = {},
                        NEW n \in orig[f].acked
                 PROVE  \/ n \in up[f].seen
                        \/ \E e \in Entries : \E i \in DOMAIN rec[e].list :
                             rec[e].list[i] = [flow |-> f, n |-> n]
      BY DEF AckedNotLost
    <2>1. Flowing(f, idx[f], EntryOf(f), sta[f], orig[f], up[f], why[f])
      BY DEF OrderInv, Order, FlowOK
    <2>2. idx[f] # 0
      BY <2>1 DEF Flowing, Agreed
    <2>3. idx[f] \in Entries /\ EntryOf(f) = rec[idx[f]]
      BY <2>2, Session DEF EntryOf
    <2>4. \/ n \in up[f].seen
          \/ \E i \in DOMAIN EntryOf(f).list : EntryOf(f).list[i] = [flow |-> f, n |-> n]
      BY <2>1 DEF Flowing, Survives
    <2> QED
      BY <2>3, <2>4
  <1> QED
    BY <1>1, OrderAlways, PTL
=============================================================================
