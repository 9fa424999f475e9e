------------------------- MODULE RadiusClientProofs -------------------------
(***************************************************************************)
(* Proofs about RadiusClient.  The safety properties of the retransmit     *)
(* list hold for every number of stations, BSSs, servers and requests and  *)
(* for every value of the RADIUS_CLIENT_ constants; their conjunction with *)
(* the type invariant is inductive.                                        *)
(***************************************************************************)
EXTENDS RadiusClient, SequenceTheorems, TLAPS

-----------------------------------------------------------------------------
(* Lists                                                                   *)

\* Unlinking one element of a list (the loops of Radius_client_receive and
\* Radius_client_timer) keeps the others in their order.
LEMMA RemoveAtProps ==
  ASSUME NEW S, NEW q \in Seq(S), NEW i \in 1 .. Len(q)
  PROVE  /\ RemoveAt(q, i) \in Seq(S)
         /\ Len(RemoveAt(q, i)) = Len(q) - 1
         /\ DOMAIN RemoveAt(q, i) = 1 .. Len(q) - 1
         /\ \A j \in 1 .. Len(q) - 1 :
              RemoveAt(q, i)[j] = IF j < i THEN q[j] ELSE q[j + 1]
<1> DEFINE front == SubSeq(q, 1, i - 1)
           back == SubSeq(q, i + 1, Len(q))
<1>1. Len(q) \in Nat /\ \A j \in 1 .. Len(q) : q[j] \in S
  BY LenProperties, ElementOfSeq
<1>2. /\ front \in Seq(S) /\ Len(front) = i - 1
      /\ \A j \in 1 .. i - 1 : front[j] = q[j]
  BY <1>1, SubSeqProperties
<1>3. /\ back \in Seq(S) /\ Len(back) = Len(q) - i
      /\ \A j \in 1 .. Len(q) - i : back[j] = q[i + j]
  <2>1. /\ \A j \in i + 1 .. Len(q) : q[j] \in S
        /\ i + 1 \in Int /\ Len(q) \in Int
    BY <1>1
  <2>2. /\ back \in Seq(S)
        /\ Len(back) = IF i + 1 <= Len(q) THEN Len(q) - (i + 1) + 1 ELSE 0
        /\ \A j \in 1 .. Len(q) - (i + 1) + 1 : back[j] = q[(i + 1) + j - 1]
    BY <2>1, SubSeqProperties
  <2> QED BY <2>2, <1>1
<1>4. /\ front \o back \in Seq(S)
      /\ Len(front \o back) = Len(front) + Len(back)
      /\ \A j \in 1 .. Len(front) + Len(back) : (front \o back)[j] =
           IF j <= Len(front) THEN front[j] ELSE back[j - Len(front)]
  BY <1>2, <1>3, ConcatProperties
<1>5. RemoveAt(q, i) = front \o back
  BY DEF RemoveAt
<1> HIDE DEF front, back
<1>6. RemoveAt(q, i) \in Seq(S) /\ Len(RemoveAt(q, i)) = Len(q) - 1
  <2>1. RemoveAt(q, i) \in Seq(S)
    BY <1>4, <1>5, Zenon
  <2>2. Len(RemoveAt(q, i)) = Len(front) + Len(back)
    BY <1>4, <1>5, Zenon
  <2> QED BY <2>1, <2>2, <1>1, <1>2, <1>3
<1>7. \A j \in 1 .. Len(q) - 1 :
         RemoveAt(q, i)[j] = IF j < i THEN q[j] ELSE q[j + 1]
  <2> TAKE j \in 1 .. Len(q) - 1
  <2>1. CASE j < i
    BY <2>1, <1>1, <1>2, <1>3, <1>4, <1>5
  <2>2. CASE ~(j < i)
    <3>1. j - (i - 1) \in 1 .. Len(q) - i /\ i + (j - (i - 1)) = j + 1
      BY <2>2, <1>1
    <3>2. back[j - (i - 1)] = q[j + 1]
      BY <3>1, <1>3
    <3> QED BY <3>1, <3>2, <2>2, <1>1, <1>2, <1>3, <1>4, <1>5
  <2> QED BY <2>1, <2>2
<1> QED BY <1>6, <1>7, LenProperties

\* Linking an element in front of a list (Radius_client_list_add, Ap_get_sta).
LEMMA ConsProps ==
  ASSUME NEW S, NEW q \in Seq(S), NEW e \in S
  PROVE  /\ <<e>> \o q \in Seq(S)
         /\ Len(<<e>> \o q) = Len(q) + 1
         /\ DOMAIN (<<e>> \o q) = 1 .. Len(q) + 1
         /\ \A j \in 1 .. Len(q) + 1 :
              (<<e>> \o q)[j] = IF j = 1 THEN e ELSE q[j - 1]
<1>1. <<e>> \in Seq(S) /\ Len(<<e>>) = 1 /\ <<e>>[1] = e /\ Len(q) \in Nat
  BY LenProperties
<1>2. /\ <<e>> \o q \in Seq(S)
      /\ Len(<<e>> \o q) = 1 + Len(q)
      /\ \A j \in 1 .. 1 + Len(q) : (<<e>> \o q)[j] =
           IF j <= 1 THEN <<e>>[j] ELSE q[j - 1]
  BY <1>1, ConcatProperties
<1> QED BY <1>1, <1>2, LenProperties

\* Dropping the last, oldest element of a list (Radius_client_list_add).
LEMMA FrontProps ==
  ASSUME NEW S, NEW q \in Seq(S), q # <<>>
  PROVE  /\ Front(q) \in Seq(S)
         /\ Len(Front(q)) = Len(q) - 1
         /\ DOMAIN Front(q) = 1 .. Len(q) - 1
         /\ \A j \in 1 .. Len(q) - 1 : Front(q)[j] = q[j]
<1>1. /\ Len(q) \in Nat \ {0} /\ \A j \in 1 .. Len(q) : q[j] \in S
  BY LenProperties, ElementOfSeq, EmptySeq
<1>2. /\ Front(q) \in Seq(S) /\ Len(Front(q)) = Len(q) - 1
      /\ \A j \in 1 .. Len(q) - 1 : Front(q)[j] = q[j]
  BY <1>1, SubSeqProperties DEF Front
<1> QED BY <1>1, <1>2, LenProperties

-----------------------------------------------------------------------------
\* UniqueIds and SecretCurrent of a list.
Distinct(q) == \A i, j \in DOMAIN q : q[i].id = q[j].id => i = j
Current(q) == \A i \in DOMAIN q : q[i].secret = conf[q[i].ap][server[q[i].ap]]

\* Taking one request out of the list keeps both.
LEMMA RemoveKeeps ==
  ASSUME NEW q \in Seq(MsgRecord), NEW i \in 1 .. Len(q),
         Distinct(q), Current(q)
  PROVE  /\ Distinct(RemoveAt(q, i)) /\ Current(RemoveAt(q, i))
         /\ \A j \in DOMAIN RemoveAt(q, i) : RemoveAt(q, i)[j].id # q[i].id
<1> DEFINE r == RemoveAt(q, i)
<1>1. /\ Len(q) \in Nat /\ DOMAIN q = 1 .. Len(q)
      /\ DOMAIN r = 1 .. Len(q) - 1
      /\ \A j \in 1 .. Len(q) - 1 : r[j] = IF j < i THEN q[j] ELSE q[j + 1]
  BY RemoveAtProps, LenProperties
<1> HIDE DEF r
<1>2. \A j \in DOMAIN r : \E k \in DOMAIN q \ {i} :
        r[j] = q[k] /\ k = IF j < i THEN j ELSE j + 1
  BY <1>1
<1>3. Current(r)
  BY <1>2 DEF Current
<1>4. Distinct(r)
  <2> SUFFICES ASSUME NEW a \in DOMAIN r, NEW b \in DOMAIN r, r[a].id = r[b].id
               PROVE  a = b
    BY DEF Distinct
  <2> DEFINE ka == IF a < i THEN a ELSE a + 1
             kb == IF b < i THEN b ELSE b + 1
  <2>1. /\ ka \in DOMAIN q /\ kb \in DOMAIN q
        /\ r[a] = q[ka] /\ r[b] = q[kb]
    BY <1>1
  <2>2. ka = kb
    BY <2>1 DEF Distinct
  <2> QED BY <2>2, <1>1
<1>5. \A j \in DOMAIN r : r[j].id # q[i].id
  BY <1>1, <1>2 DEF Distinct
<1> QED BY <1>3, <1>4, <1>5 DEF r

\* What Radius_client_get_id leaves of the list.
LEMMA RemovedProps ==
  ASSUME NEW q \in Seq(MsgRecord), NEW id \in Ids, Distinct(q), Current(q)
  PROVE  /\ Removed(q, id) \in Seq(MsgRecord)
         /\ Len(Removed(q, id)) <= Len(q)
         /\ Distinct(Removed(q, id)) /\ Current(Removed(q, id))
         /\ \A j \in DOMAIN Removed(q, id) : Removed(q, id)[j].id # id
<1>1. Len(q) \in Nat /\ DOMAIN q = 1 .. Len(q)
  BY LenProperties
<1>2. CASE \E i \in DOMAIN q : q[i].id = id
  <2> DEFINE c == CHOOSE i \in DOMAIN q : q[i].id = id
  <2>1. c \in 1 .. Len(q) /\ q[c].id = id
    BY <1>1, <1>2
  <2>2. Removed(q, id) = RemoveAt(q, c)
    BY <1>2 DEF Removed
  <2> HIDE DEF c
  <2>3. RemoveAt(q, c) \in Seq(MsgRecord) /\ Len(RemoveAt(q, c)) = Len(q) - 1
    BY <2>1, RemoveAtProps
  <2>4. /\ Distinct(RemoveAt(q, c)) /\ Current(RemoveAt(q, c))
        /\ \A j \in DOMAIN RemoveAt(q, c) : RemoveAt(q, c)[j].id # q[c].id
    BY <2>1, RemoveKeeps
  <2> QED BY <1>1, <2>1, <2>2, <2>3, <2>4
<1>3. CASE ~\E i \in DOMAIN q : q[i].id = id
  <2>1. Removed(q, id) = q
    BY <1>3 DEF Removed
  <2> QED BY <1>1, <1>3, <2>1
<1> QED BY <1>2, <1>3

-----------------------------------------------------------------------------
\* The inductive invariant.  UniqueIds is needed for what Radius_client_get_id
\* removes, NumMsgsCovers for the type of num_msgs.
Inv == TypeOK /\ UniqueIds /\ TimerArmed /\ NumMsgsCovers /\ SecretCurrent

\* A daemon that has just started, or read its first configuration.
LEMMA InvInit == Init => Inv
<1> SUFFICES ASSUME Init PROVE Inv
  OBVIOUS
<1>1. <<>> \in Seq(MsgRecord) /\ <<>> \in Seq(StaRecord) /\ Len(<<>>) = 0
  BY EmptySeq
<1>2. \A a \in Ap : Primary[a] <= Len(conf[a])
  <2> TAKE a \in Ap
  <2>1. conf[a] \in Seq(Secrets) /\ conf[a] # <<>>
    BY ConstantsAssumption DEF ConstantsAssumption, Init
  <2>2. Len(conf[a]) \in Nat \ {0}
    BY <2>1, EmptySeq
  <2> QED BY <2>2 DEF Primary
<1>3. Primary \in [Ap -> Nat \ {0}]
  BY DEF Primary
<1>4. TypeOK
  BY <1>1, <1>2, <1>3, ConstantsAssumption
  DEF ConstantsAssumption, Init, TypeOK, Ids, NoTimers, Delays
<1>5. UniqueIds /\ TimerArmed /\ NumMsgsCovers /\ SecretCurrent
  BY <1>1, ConstantsAssumption
  DEF ConstantsAssumption, Init, UniqueIds, TimerArmed, NumMsgsCovers,
      SecretCurrent
<1> QED BY <1>4, <1>5 DEF Inv

\* Facts of every state of the invariant that the proofs of the actions use.
LEMMA Facts ==
  ASSUME Inv
  PROVE  /\ Len(msgs) \in Nat /\ DOMAIN msgs = 1 .. Len(msgs)
         /\ Len(sta_list) \in Nat /\ DOMAIN sta_list = 1 .. Len(sta_list)
         /\ \A i \in DOMAIN msgs : msgs[i] \in MsgRecord
         /\ \A k \in DOMAIN sta_list : sta_list[k] \in StaRecord
         /\ \A a \in Ap : conf[a] \in Seq(Secrets) /\ Len(conf[a]) \in Nat \ {0}
         /\ Distinct(msgs) /\ Current(msgs)
<1>1. msgs \in Seq(MsgRecord) /\ sta_list \in Seq(StaRecord) /\ conf \in Confs
  BY DEF Inv, TypeOK
<1>2. \A a \in Ap : conf[a] \in Seq(Secrets) /\ conf[a] # <<>>
  BY <1>1, ConstantsAssumption DEF ConstantsAssumption
<1>3. \A a \in Ap : Len(conf[a]) \in Nat \ {0}
  BY <1>2, EmptySeq
<1>4. Distinct(msgs) /\ Current(msgs)
  BY DEF Inv, UniqueIds, SecretCurrent, Distinct, Current
<1> QED BY <1>1, <1>2, <1>3, <1>4, LenProperties, ElementOfSeq

\* A station that comes or goes does not touch the client.
LEMMA InvStations ==
  ASSUME Inv,
         \/ \E a \in Sta, ap \in Ap : Ap_get_sta(a, ap)
         \/ \E k \in DOMAIN sta_list : Ap_free_sta(k)
  PROVE  Inv'
<1>1. sta_list \in Seq(StaRecord)
  BY DEF Inv, TypeOK
<1>2. UNCHANGED <<next_id, client>>
  BY DEF Ap_get_sta, Ap_free_sta
<1>3. sta_list' \in Seq(StaRecord)
  <2>1. ASSUME NEW a \in Sta, NEW ap \in Ap, Ap_get_sta(a, ap)
        PROVE  sta_list' \in Seq(StaRecord)
    <3> DEFINE s == [addr |-> a, ap |-> ap, radius_identifier |-> -1]
    <3>1. s \in StaRecord
      BY DEF StaRecord
    <3>2. sta_list' = <<s>> \o sta_list
      BY <2>1 DEF Ap_get_sta
    <3> HIDE DEF s
    <3> QED BY <1>1, <3>1, <3>2, ConsProps
  <2>2. ASSUME NEW k \in DOMAIN sta_list, Ap_free_sta(k)
        PROVE  sta_list' \in Seq(StaRecord)
    <3>1. k \in 1 .. Len(sta_list)
      BY Facts
    <3> QED BY <1>1, <2>2, <3>1, RemoveAtProps DEF Ap_free_sta
  <2> QED BY <2>1, <2>2
<1> QED BY <1>2, <1>3
        DEF Inv, client, TypeOK, UniqueIds, TimerArmed, NumMsgsCovers,
            SecretCurrent, InEloop

\* Radius_client_get_id: the counter wraps, the station takes the identifier.
LEMMA GetIdTypes ==
  ASSUME Inv, NEW k \in DOMAIN sta_list, GetId(k)
  PROVE  next_id' \in Ids /\ sta_list' \in Seq(StaRecord)
<1>1. next_id \in Ids /\ sta_list \in Seq(StaRecord)
  BY DEF Inv, TypeOK
<1>2. next_id' \in Ids
  <2>1. next_id + 1 \in Nat /\ IdMod \in Nat \ {0}
    BY <1>1, ConstantsAssumption DEF ConstantsAssumption, Ids
  <2>2. (next_id + 1) % IdMod \in 0 .. IdMod - 1
    BY <2>1
  <2> QED BY <2>2 DEF GetId, Ids
<1>3. k \in 1 .. Len(sta_list) /\ sta_list[k] \in StaRecord
  BY Facts
<1>4. [sta_list[k] EXCEPT !.radius_identifier = next_id] \in StaRecord
  BY <1>1, <1>3 DEF StaRecord
<1>5. sta_list' = [sta_list EXCEPT ![k] =
                     [sta_list[k] EXCEPT !.radius_identifier = next_id]]
  BY DEF GetId
<1>6. sta_list' \in Seq(StaRecord)
  BY <1>1, <1>3, <1>4, <1>5, ExceptSeq
<1> QED BY <1>2, <1>6

\* A request that is given an identifier but never enters the list.
LEMMA InvSendFails ==
  ASSUME Inv, NEW k \in DOMAIN sta_list, SendFails(k)
  PROVE  Inv'
<1> USE DEF SendFails
<1>1. next_id' \in Ids /\ sta_list' \in Seq(StaRecord)
  BY GetIdTypes
<1>2. msgs \in Seq(MsgRecord) /\ next_id \in Ids /\ Distinct(msgs) /\ Current(msgs)
  BY Facts DEF Inv, TypeOK
<1>3. /\ msgs' \in Seq(MsgRecord) /\ Len(msgs') <= Len(msgs)
      /\ Distinct(msgs') /\ Current(msgs')
  BY <1>2, RemovedProps
<1>4. Len(msgs') \in Nat /\ Len(msgs) \in Nat /\ (msgs = <<>> => Len(msgs) = 0)
      /\ (msgs' # <<>> => Len(msgs') \in Nat \ {0})
  BY <1>2, <1>3, LenProperties, EmptySeq
<1>5. TypeOK'
  BY <1>1, <1>3, <1>4 DEF Inv, TypeOK, InEloop
<1>6. UniqueIds' /\ SecretCurrent'
  BY <1>3 DEF Distinct, Current, UniqueIds, SecretCurrent
<1>7. TimerArmed' /\ NumMsgsCovers'
  BY <1>3, <1>4 DEF Inv, TypeOK, TimerArmed, NumMsgsCovers, InEloop
<1> QED BY <1>5, <1>6, <1>7 DEF Inv

\* Radius_client_send: whether the list is full or not, the identifier it takes
\* is free after Radius_client_get_id, and a list that was empty gets a timer.
LEMMA InvSend ==
  ASSUME Inv, NEW k \in DOMAIN sta_list, Radius_client_send(k)
  PROVE  Inv'
<1> DEFINE q == Removed(msgs, next_id)
           e == NewEntry(sta_list[k])
           r == IF num_msgs >= MaxEntries /\ q # <<>> THEN Front(q) ELSE q
<1>1. next_id' \in Ids /\ sta_list' \in Seq(StaRecord)
  BY GetIdTypes DEF Radius_client_send
<1>2. /\ msgs \in Seq(MsgRecord) /\ next_id \in Ids
      /\ Distinct(msgs) /\ Current(msgs)
      /\ timers \in [Delays -> Nat] /\ num_msgs \in Nat /\ MaxEntries \in Nat \ {0}
      /\ FirstWait \in Delays /\ 2 * FirstWait \in Delays
  BY Facts, ConstantsAssumption DEF ConstantsAssumption, Inv, TypeOK, Delays
<1>3. /\ q \in Seq(MsgRecord) /\ Len(q) <= Len(msgs)
      /\ Distinct(q) /\ Current(q)
      /\ \A j \in DOMAIN q : q[j].id # next_id
  BY <1>2, RemovedProps
<1>4. e \in MsgRecord /\ e.id = next_id /\ e.secret = conf[e.ap][server[e.ap]]
  <2>1. sta_list[k].addr \in Sta /\ sta_list[k].ap \in Ap
    BY Facts DEF StaRecord
  <2> DEFINE a == sta_list[k].ap
  <2>2. /\ conf[a] \in Seq(Secrets) /\ Len(conf[a]) \in Nat
        /\ server[a] \in 1 .. Len(conf[a])
    BY <2>1, Facts DEF Inv, TypeOK
  <2>3. conf[a][server[a]] \in Secrets
    BY <2>2, ElementOfSeq
  <2>4. 0 \in 0 .. FirstWait
    BY ConstantsAssumption DEF ConstantsAssumption
  <2> QED BY <1>2, <2>1, <2>3, <2>4 DEF NewEntry, MsgRecord
<1>5. /\ msgs' = <<e>> \o r
      /\ timers' = IF q = <<>> THEN Register(timers, FirstWait) ELSE timers
      /\ num_msgs' = IF num_msgs >= MaxEntries THEN num_msgs ELSE num_msgs + 1
  <2>1. ListAdd(q, e)
    BY DEF Radius_client_send
  <2> HIDE DEF e, q
  <2>2. <<e>> = <<e>> \o <<>>
    BY <1>4, ConcatEmptySeq
  <2>3. CASE num_msgs >= MaxEntries /\ q = <<>>
    BY <2>1, <2>2, <2>3 DEF ListAdd
  <2>4. CASE ~(num_msgs >= MaxEntries /\ q = <<>>)
    BY <2>1, <2>4 DEF ListAdd
  <2> QED BY <2>3, <2>4
<1> HIDE DEF q, e
<1>6. /\ r \in Seq(MsgRecord) /\ Len(r) \in Nat
      /\ DOMAIN r = 1 .. Len(r)
      /\ Len(r) = IF num_msgs >= MaxEntries /\ q # <<>> THEN Len(q) - 1 ELSE Len(q)
      /\ \A j \in DOMAIN r : j \in DOMAIN q /\ r[j] = q[j]
  <2>1. CASE num_msgs >= MaxEntries /\ q # <<>>
    <3>1. /\ Front(q) \in Seq(MsgRecord) /\ Len(Front(q)) = Len(q) - 1
          /\ DOMAIN Front(q) = 1 .. Len(q) - 1
          /\ \A j \in 1 .. Len(q) - 1 : Front(q)[j] = q[j]
      BY <1>3, <2>1, FrontProps
    <3>2. Len(q) \in Nat \ {0} /\ DOMAIN q = 1 .. Len(q)
      BY <1>3, <2>1, LenProperties, EmptySeq
    <3> QED BY <2>1, <3>1, <3>2
  <2>2. CASE ~(num_msgs >= MaxEntries /\ q # <<>>)
    BY <2>2, <1>3, LenProperties
  <2> QED BY <2>1, <2>2
<1> HIDE DEF r
<1>7. /\ msgs' \in Seq(MsgRecord) /\ Len(msgs') = Len(r) + 1
      /\ DOMAIN msgs' = 1 .. Len(r) + 1
      /\ \A j \in 1 .. Len(r) + 1 : msgs'[j] = IF j = 1 THEN e ELSE r[j - 1]
  BY <1>4, <1>5, <1>6, ConsProps
<1>8. Distinct(msgs')
  <2>1. \A j \in 1 .. Len(r) : r[j].id # next_id
    BY <1>3, <1>6
  <2>2. \A i, j \in 1 .. Len(r) : r[i].id = r[j].id => i = j
    BY <1>3, <1>6 DEF Distinct
  <2> SUFFICES ASSUME NEW i \in DOMAIN msgs', NEW j \in DOMAIN msgs',
                      msgs'[i].id = msgs'[j].id
               PROVE  i = j
    BY DEF Distinct
  <2>3. CASE i = 1 \/ j = 1
    <3>1. msgs'[1].id = next_id
      BY <1>4, <1>6, <1>7
    <3>2. ASSUME NEW m \in DOMAIN msgs', m # 1
          PROVE  msgs'[m].id # next_id
      <4>1. m - 1 \in 1 .. Len(r) /\ msgs'[m] = r[m - 1]
        BY <3>2, <1>6, <1>7
      <4> QED BY <4>1, <2>1
    <3> QED BY <2>3, <3>1, <3>2
  <2>4. CASE i # 1 /\ j # 1
    <3>1. i - 1 \in 1 .. Len(r) /\ j - 1 \in 1 .. Len(r)
      BY <2>4, <1>6, <1>7
    <3>2. msgs'[i] = r[i - 1] /\ msgs'[j] = r[j - 1]
      BY <2>4, <1>7
    <3>3. i - 1 = j - 1
      BY <2>2, <3>1, <3>2
    <3> QED BY <3>1, <3>3, <1>6, <1>7
  <2> QED BY <2>3, <2>4
<1>9. Current(msgs')
  <2> SUFFICES ASSUME NEW i \in DOMAIN msgs'
               PROVE  msgs'[i].secret = conf[msgs'[i].ap][server[msgs'[i].ap]]
    BY DEF Current
  <2>1. CASE i = 1
    BY <2>1, <1>4, <1>7
  <2>2. CASE i # 1
    <3>1. i - 1 \in DOMAIN r /\ msgs'[i] = r[i - 1]
      BY <2>2, <1>6, <1>7
    <3>2. i - 1 \in DOMAIN q /\ msgs'[i] = q[i - 1]
      BY <3>1, <1>6
    <3> QED BY <3>2, <1>3 DEF Current
  <2> QED BY <2>1, <2>2
<1>10. UniqueIds' /\ SecretCurrent'
  BY <1>8, <1>9
  DEF Radius_client_send, Distinct, Current, UniqueIds, SecretCurrent
<1>11. NumMsgsCovers'
  <2>1. /\ Len(msgs) <= num_msgs /\ num_msgs <= MaxEntries
        /\ Len(q) \in Nat /\ Len(msgs) \in Nat /\ (q = <<>> => Len(q) = 0)
    BY <1>2, <1>3, LenProperties, EmptySeq DEF Inv, NumMsgsCovers
  <2> QED BY <2>1, <1>2, <1>3, <1>5, <1>6, <1>7 DEF NumMsgsCovers
<1>12. TimerArmed'
  <2>1. CASE q = <<>>
    <3>1. timers'[FirstWait] > 0
      BY <2>1, <1>2, <1>5 DEF Register
    <3> QED BY <3>1, <1>2 DEF TimerArmed
  <2>2. CASE q # <<>>
    <3>1. msgs # <<>>
      BY <2>2, <1>2, <1>3, LenProperties, EmptySeq
    <3> QED BY <2>2, <3>1, <1>5
            DEF Inv, TimerArmed, Radius_client_send, InEloop
  <2> QED BY <2>1, <2>2
<1>13. TypeOK'
  <2>1. timers' \in [Delays -> Nat] /\ num_msgs' \in Nat
    BY <1>2, <1>5 DEF Register
  <2>2. UNCHANGED <<conf, server, entry, failover>> /\ entry = 0
    BY DEF Radius_client_send, InEloop
  <2>3. entry' \in 0 .. Len(msgs') + 1
    BY <2>2, <1>6, <1>7
  <2> QED BY <1>1, <1>7, <2>1, <2>2, <2>3 DEF Inv, TypeOK
<1> QED BY <1>10, <1>11, <1>12, <1>13 DEF Inv

-----------------------------------------------------------------------------
\* A list of the same length as msgs whose requests keep id, ap and secret.
LEMMA SameKeys ==
  ASSUME Inv, NEW q, q \in [1 .. Len(msgs) -> MsgRecord],
         \A i \in 1 .. Len(msgs) :
           /\ q[i].id = msgs[i].id /\ q[i].ap = msgs[i].ap
           /\ q[i].secret = msgs[i].secret
  PROVE  /\ q \in Seq(MsgRecord) /\ Len(q) = Len(msgs)
         /\ Distinct(q) /\ Current(q)
<1>1. /\ Len(msgs) \in Nat /\ DOMAIN msgs = 1 .. Len(msgs)
      /\ Distinct(msgs) /\ Current(msgs)
  BY Facts
<1>2. q \in Seq(MsgRecord) /\ Len(q) = Len(msgs)
  BY <1>1
<1>3. DOMAIN q = DOMAIN msgs
  BY <1>1
<1>4. Distinct(q) /\ Current(q)
  BY <1>1, <1>3 DEF Distinct, Current
<1> QED BY <1>2, <1>4

\* A second goes by: no registered timeout is lost.
LEMMA InvTick ==
  ASSUME Inv, Tick
  PROVE  Inv'
<1> USE DEF Tick
<1>1. /\ Len(msgs) \in Nat /\ DOMAIN msgs = 1 .. Len(msgs)
      /\ \A i \in DOMAIN msgs : msgs[i] \in MsgRecord
  BY Facts
<1>2. ASSUME NEW m \in MsgRecord
      PROVE  /\ Elapse(m) \in MsgRecord /\ Elapse(m).id = m.id
             /\ Elapse(m).ap = m.ap /\ Elapse(m).secret = m.secret
  <2>1. FirstWait \in Nat /\ MaxWait \in Nat
    BY ConstantsAssumption DEF ConstantsAssumption
  <2> DEFINE w == IF m.wait > 0 THEN m.wait - 1 ELSE 0
             g == IF m.age < FirstWait THEN m.age + 1 ELSE FirstWait
  <2>2. w \in Delays /\ g \in 0 .. FirstWait
    BY <2>1 DEF MsgRecord, Delays
  <2>3. Elapse(m) = [m EXCEPT !.wait = w, !.age = g]
    BY DEF Elapse
  <2> HIDE DEF w, g
  <2> QED BY <2>2, <2>3 DEF MsgRecord
<1>3. /\ msgs' \in Seq(MsgRecord) /\ Len(msgs') = Len(msgs)
      /\ Distinct(msgs') /\ Current(msgs')
  <2>1. msgs' \in [1 .. Len(msgs) -> MsgRecord]
    BY <1>1, <1>2
  <2>2. \A i \in 1 .. Len(msgs) :
          /\ msgs'[i].id = msgs[i].id /\ msgs'[i].ap = msgs[i].ap
          /\ msgs'[i].secret = msgs[i].secret
    BY <1>1, <1>2
  <2> QED BY <2>1, <2>2, SameKeys
<1>4. timers \in [Delays -> Nat] /\ MaxWait \in Nat /\ MaxWait > 1
  BY ConstantsAssumption DEF ConstantsAssumption, Inv, TypeOK
<1>5. timers' \in [Delays -> Nat]
  BY <1>4 DEF Delays
<1>6. TypeOK'
  BY <1>3, <1>5 DEF Inv, TypeOK, stations
<1>7. TimerArmed'
  <2> SUFFICES ASSUME InEloop', msgs' # <<>>
               PROVE  \E d \in Delays : timers'[d] > 0
    BY DEF TimerArmed
  <2>1. msgs # <<>>
    <3>1. Len(msgs') \in Nat \ {0}
      BY <1>3, EmptySeq
    <3> QED BY <3>1, <1>3, EmptySeq
  <2>2. PICK d \in Delays : timers[d] > 0
    BY <2>1 DEF Inv, TimerArmed
  <2>3. CASE d = 0
    <3>1. 0 \in Delays /\ 1 \in Delays /\ timers[0] > 0 /\ timers[1] >= 0
      BY <2>2, <2>3, <1>4 DEF Delays
    <3>2. timers'[0] = timers[0] + timers[1]
      BY <3>1
    <3>3. timers'[0] > 0
      BY <3>1, <3>2, <1>4
    <3> QED BY <3>1, <3>3
  <2>4. CASE d # 0
    <3>1. d - 1 \in Delays /\ (d - 1) + 1 = d /\ d - 1 # MaxWait
      BY <2>4, <1>4 DEF Delays
    <3>2. timers'[d - 1] > 0
      BY <2>2, <3>1, <1>4 DEF Delays
    <3> QED BY <3>1, <3>2
  <2> QED BY <2>3, <2>4
<1>8. UniqueIds' /\ SecretCurrent' /\ NumMsgsCovers'
  BY <1>3
  DEF Inv, Distinct, Current, UniqueIds, SecretCurrent, NumMsgsCovers
<1> QED BY <1>6, <1>7, <1>8 DEF Inv

\* Radius_client_receive and the removal in Radius_client_timer: one request
\* leaves the list and is counted.
LEMMA InvRemove ==
  ASSUME Inv, NEW i \in DOMAIN msgs,
         msgs' = RemoveAt(msgs, i), num_msgs' = num_msgs - 1,
         UNCHANGED <<next_id, timers, conf, server, entry, failover>>,
         entry = 0 \/ entry \in DOMAIN msgs,
         sta_list' \in Seq(StaRecord)
  PROVE  Inv'
<1>1. /\ msgs \in Seq(MsgRecord) /\ i \in 1 .. Len(msgs) /\ Len(msgs) \in Nat
      /\ DOMAIN msgs = 1 .. Len(msgs)
      /\ Distinct(msgs) /\ Current(msgs)
  BY Facts DEF Inv, TypeOK
<1>2. msgs' \in Seq(MsgRecord) /\ Len(msgs') = Len(msgs) - 1
  BY <1>1, RemoveAtProps
<1>3. Distinct(msgs') /\ Current(msgs')
  BY <1>1, RemoveKeeps
<1>4. num_msgs' \in Nat /\ NumMsgsCovers'
  BY <1>1, <1>2, ConstantsAssumption
  DEF ConstantsAssumption, Inv, TypeOK, NumMsgsCovers
<1>5. TypeOK'
  BY <1>1, <1>2, <1>4 DEF Inv, TypeOK
<1>6. UniqueIds' /\ SecretCurrent'
  BY <1>3 DEF Distinct, Current, UniqueIds, SecretCurrent
<1>7. TimerArmed'
  <2>1. msgs # <<>>
    BY <1>1, EmptySeq
  <2> QED BY <2>1 DEF Inv, TimerArmed, InEloop
<1> QED BY <1>4, <1>5, <1>6, <1>7 DEF Inv

\* Radius_client_receive, whether or not a station takes the message.
LEMMA InvReceive ==
  ASSUME Inv, NEW i \in DOMAIN msgs,
         \/ \E k \in DOMAIN sta_list : Radius_client_receive(i, k)
         \/ ReceiveDropped(i)
  PROVE  Inv'
<1>1. Acknowledge(i)
  BY DEF Radius_client_receive, ReceiveDropped
<1>2. sta_list' \in Seq(StaRecord)
  <2>1. sta_list \in Seq(StaRecord)
    BY DEF Inv, TypeOK
  <2>2. ASSUME NEW k \in DOMAIN sta_list, Radius_client_receive(i, k)
        PROVE  sta_list' \in Seq(StaRecord)
    <3>1. k \in 1 .. Len(sta_list) /\ sta_list[k] \in StaRecord
      BY Facts
    <3>2. [sta_list[k] EXCEPT !.radius_identifier = -1] \in StaRecord
      BY <3>1 DEF StaRecord
    <3>3. sta_list' = [sta_list EXCEPT ![k] =
                         [sta_list[k] EXCEPT !.radius_identifier = -1]]
      BY <2>2 DEF Radius_client_receive
    <3> QED BY <2>1, <3>1, <3>2, <3>3, ExceptSeq
  <2>3. CASE ReceiveDropped(i)
    BY <2>1, <2>3 DEF ReceiveDropped
  <2> QED BY <2>2, <2>3
<1> QED BY <1>1, <1>2, InvRemove DEF Acknowledge, InEloop

\* Handle_reload_config empties the list before the secrets change.
LEMMA InvReload ==
  ASSUME Inv, Handle_reload_config
  PROVE  Inv'
<1> USE DEF Handle_reload_config, Flush
<1>1. <<>> \in Seq(MsgRecord) /\ <<>> \in Seq(StaRecord) /\ Len(<<>>) = 0
  BY EmptySeq
<1>2. \A a \in Ap : Primary[a] <= Len(conf'[a])
  <2> TAKE a \in Ap
  <2>1. conf'[a] \in Seq(Secrets) /\ conf'[a] # <<>>
    BY ConstantsAssumption DEF ConstantsAssumption
  <2>2. Len(conf'[a]) \in Nat \ {0}
    BY <2>1, EmptySeq
  <2> QED BY <2>2 DEF Primary
<1>3. Primary \in [Ap -> Nat \ {0}] /\ NoTimers \in [Delays -> Nat]
  BY DEF Primary, NoTimers
<1>4. TypeOK'
  BY <1>1, <1>2, <1>3 DEF Inv, TypeOK, InEloop
<1>5. UniqueIds' /\ TimerArmed' /\ NumMsgsCovers' /\ SecretCurrent'
  BY <1>1, ConstantsAssumption
  DEF ConstantsAssumption, UniqueIds, TimerArmed, NumMsgsCovers, SecretCurrent
<1> QED BY <1>4, <1>5 DEF Inv

-----------------------------------------------------------------------------
\* Radius_change_server: either the list is flushed, or no secret changed.
LEMMA InvChange ==
  ASSUME Inv, NEW new \in [Ap -> Nat \ {0}], \A a \in Ap : new[a] <= Len(conf[a]),
         NEW ts \in [Delays -> Nat],
         msgs # <<>> => \E d \in Delays : ts[d] > 0,
         ChangeServer(new, ts),
         entry' = 0, failover' \subseteq Ap, UNCHANGED <<conf, stations>>
  PROVE  Inv'
<1>1. /\ msgs \in Seq(MsgRecord)
      /\ Len(msgs) \in Nat /\ DOMAIN msgs = 1 .. Len(msgs)
      /\ \A i \in DOMAIN msgs : msgs[i] \in MsgRecord
      /\ Distinct(msgs) /\ Current(msgs)
      /\ num_msgs \in Nat /\ Len(msgs) <= num_msgs /\ num_msgs <= MaxEntries
  BY Facts DEF Inv, TypeOK, NumMsgsCovers
<1>2. server' = new
  BY DEF ChangeServer
<1>3. SUFFICES /\ msgs' \in Seq(MsgRecord) /\ num_msgs' \in Nat
               /\ timers' \in [Delays -> Nat]
               /\ UniqueIds' /\ TimerArmed' /\ NumMsgsCovers' /\ SecretCurrent'
  <2>1. msgs' \in Seq(MsgRecord) => Len(msgs') \in Nat
    BY LenProperties
  <2> QED BY <1>2, <2>1 DEF Inv, TypeOK, stations
<1>4. CASE SecretChanges(new) /\ Flush
  <2>1. /\ <<>> \in Seq(MsgRecord) /\ Len(<<>>) = 0
        /\ NoTimers \in [Delays -> Nat]
    BY EmptySeq DEF NoTimers
  <2> QED BY <1>4, <2>1, ConstantsAssumption
          DEF ConstantsAssumption, Flush, UniqueIds, TimerArmed, NumMsgsCovers,
              SecretCurrent
<1>5. CASE ~SecretChanges(new)
  <2>1. \A a \in Ap : conf[a][new[a]] = conf[a][server[a]]
    BY <1>5 DEF SecretChanges
  <2>2. ASSUME msgs' \in Seq(MsgRecord), Len(msgs') = Len(msgs),
               Distinct(msgs'), Current(msgs'), num_msgs' = num_msgs,
               timers' \in [Delays -> Nat],
               msgs # <<>> => \E d \in Delays : timers'[d] > 0
        PROVE  /\ msgs' \in Seq(MsgRecord) /\ num_msgs' \in Nat
               /\ timers' \in [Delays -> Nat]
               /\ UniqueIds' /\ TimerArmed' /\ NumMsgsCovers' /\ SecretCurrent'
    <3>1. UniqueIds'
      BY <2>2 DEF Distinct, UniqueIds
    <3>2. SecretCurrent'
      <4> SUFFICES ASSUME NEW i \in DOMAIN msgs'
                   PROVE  msgs'[i].secret = conf'[msgs'[i].ap][server'[msgs'[i].ap]]
        BY DEF SecretCurrent
      <4>1. i \in 1 .. Len(msgs')
        BY <2>2, LenProperties
      <4>2. msgs'[i] \in MsgRecord
        BY <2>2, <4>1, ElementOfSeq
      <4>3. msgs'[i].ap \in Ap
        BY <4>2 DEF MsgRecord
      <4>4. msgs'[i].secret = conf[msgs'[i].ap][server[msgs'[i].ap]]
        BY <2>2 DEF Current
      <4> QED BY <1>2, <2>1, <4>3, <4>4
    <3>3. TimerArmed'
      <4>1. msgs' # <<>> => msgs # <<>>
        <5>1. msgs' # <<>> => Len(msgs') \in Nat \ {0}
          BY <2>2, EmptySeq
        <5> QED BY <2>2, <5>1, EmptySeq
      <4> QED BY <2>2, <4>1 DEF TimerArmed
    <3>4. NumMsgsCovers'
      BY <1>1, <2>2 DEF NumMsgsCovers
    <3> QED BY <1>1, <2>2, <3>1, <3>2, <3>3, <3>4
  <2>3. CASE /\ new # server /\ msgs # <<>>
             /\ msgs' = [i \in DOMAIN msgs |-> ResetEntry(msgs[i])]
             /\ timers' = Register(NoTimers, FirstWait)
             /\ UNCHANGED num_msgs
    <3>1. /\ FirstWait \in Nat /\ FirstWait \in Delays /\ 2 * FirstWait \in Delays
          /\ \A n \in 0 .. FirstWait : FirstWait - n \in Delays
      BY ConstantsAssumption DEF ConstantsAssumption, Delays
    <3>2. ASSUME NEW m \in MsgRecord
          PROVE  /\ ResetEntry(m) \in MsgRecord /\ ResetEntry(m).id = m.id
                 /\ ResetEntry(m).ap = m.ap /\ ResetEntry(m).secret = m.secret
      <4>1. FirstWait - m.age \in Delays
        BY <3>1 DEF MsgRecord
      <4> QED BY <3>1, <4>1 DEF ResetEntry, MsgRecord
    <3>3. msgs' \in [1 .. Len(msgs) -> MsgRecord]
      BY <1>1, <2>3, <3>2
    <3>4. \A i \in 1 .. Len(msgs) :
            /\ msgs'[i].id = msgs[i].id /\ msgs'[i].ap = msgs[i].ap
            /\ msgs'[i].secret = msgs[i].secret
      BY <1>1, <2>3, <3>2
    <3>5. /\ msgs' \in Seq(MsgRecord) /\ Len(msgs') = Len(msgs)
          /\ Distinct(msgs') /\ Current(msgs')
      BY <3>3, <3>4, SameKeys
    <3>6. timers' \in [Delays -> Nat] /\ timers'[FirstWait] > 0
      BY <2>3, <3>1 DEF Register, NoTimers
    <3> QED BY <2>2, <2>3, <3>1, <3>5, <3>6
  <2>4. CASE timers' = ts /\ UNCHANGED <<msgs, num_msgs>>
    <3>1. Distinct(msgs') /\ Current(msgs')
      BY <1>1, <2>4 DEF Distinct, Current
    <3> QED BY <1>1, <2>2, <2>4, <3>1
  <2> QED BY <1>5, <2>3, <2>4 DEF ChangeServer
<1>6. new = server => ~SecretChanges(new)
  BY DEF SecretChanges
<1> QED BY <1>4, <1>5, <1>6 DEF ChangeServer

\* Radius_retry_primary_timer goes through Radius_change_server.
LEMMA InvRetryPrimary ==
  ASSUME Inv, Radius_retry_primary_timer
  PROVE  Inv'
<1> USE DEF Radius_retry_primary_timer
<1>1. Primary \in [Ap -> Nat \ {0}] /\ \A a \in Ap : Primary[a] <= Len(conf[a])
  BY Facts DEF Primary
<1>2. timers \in [Delays -> Nat] /\ failover \subseteq Ap
  BY DEF Inv, TypeOK
<1>3. msgs # <<>> => \E d \in Delays : timers[d] > 0
  BY DEF Inv, TimerArmed
<1> QED BY <1>1, <1>2, <1>3, InvChange DEF InEloop

\* Radius_client_timer: the firing that starts it, a pass over one request, and
\* the end of the loop, where it registers itself and changes servers.
LEMMA InvTimer ==
  ASSUME Inv, Radius_client_timer
  PROVE  Inv'
<1>1. /\ msgs \in Seq(MsgRecord) /\ Len(msgs) \in Nat
      /\ DOMAIN msgs = 1 .. Len(msgs)
      /\ \A i \in DOMAIN msgs : msgs[i] \in MsgRecord
      /\ sta_list \in Seq(StaRecord)
      /\ timers \in [Delays -> Nat] /\ 0 \in Delays /\ MaxWait \in Nat
      /\ msgs # <<>> => Len(msgs) > 0
  BY Facts, EmptySeq, ConstantsAssumption
  DEF ConstantsAssumption, Inv, TypeOK, Delays
<1>2. CASE TimerFires
  <2>1. timers' \in [Delays -> Nat] /\ entry' \in 0 .. Len(msgs) + 1
    BY <1>1, <1>2 DEF TimerFires
  <2>2. TypeOK'
    BY <1>2, <2>1 DEF TimerFires, Inv, TypeOK, stations
  <2> QED BY <1>2, <2>2
          DEF TimerFires, Inv, UniqueIds, TimerArmed, NumMsgsCovers,
              SecretCurrent, InEloop
<1>3. CASE RemoveEntry
  BY <1>1, <1>3, InvRemove DEF RemoveEntry, stations
<1>4. CASE KeepEntry
  <2> USE <1>4 DEF KeepEntry
  <2>1. ASSUME NEW m \in MsgRecord
        PROVE  /\ Visited(m) \in MsgRecord /\ Visited(m).id = m.id
               /\ Visited(m).ap = m.ap /\ Visited(m).secret = m.secret
    <3> DEFINE b == IF 2 * m.backoff > MaxWait THEN MaxWait ELSE 2 * m.backoff
    <3>1. b \in Delays /\ m.backoff \in Delays /\ m.attempts + 1 \in Nat
      <4>1. m.backoff \in 0 .. MaxWait /\ m.attempts \in Nat
        BY DEF MsgRecord, Delays
      <4> QED BY <1>1, <4>1, SMTT(30) DEF Delays
    <3>2. Retransmit(m) = [m EXCEPT !.attempts = m.attempts + 1,
                                    !.wait = m.backoff, !.backoff = b]
      BY DEF Retransmit
    <3> HIDE DEF b
    <3>3. /\ Retransmit(m) \in MsgRecord /\ Retransmit(m).id = m.id
          /\ Retransmit(m).ap = m.ap /\ Retransmit(m).secret = m.secret
      BY <3>1, <3>2 DEF MsgRecord
    <3> QED BY <3>3 DEF Visited
  <2>2. msgs' \in [1 .. Len(msgs) -> MsgRecord]
    BY <1>1, <2>1
  <2>3. \A i \in 1 .. Len(msgs) :
          /\ msgs'[i].id = msgs[i].id /\ msgs'[i].ap = msgs[i].ap
          /\ msgs'[i].secret = msgs[i].secret
    BY <1>1, <2>1
  <2>4. /\ msgs' \in Seq(MsgRecord) /\ Len(msgs') = Len(msgs)
        /\ Distinct(msgs') /\ Current(msgs')
    BY <2>2, <2>3, SameKeys
  <2>5. entry' \in 1 .. Len(msgs') + 1 /\ entry' # 0
    BY <1>1, <2>4
  <2>6. failover' \subseteq Ap
    BY <1>1 DEF Inv, TypeOK, MsgRecord
  <2>7. TypeOK'
    BY <2>4, <2>5, <2>6 DEF Inv, TypeOK, stations
  <2>8. UniqueIds' /\ SecretCurrent' /\ NumMsgsCovers' /\ TimerArmed'
    BY <2>4, <2>5
    DEF Inv, Distinct, Current, UniqueIds, SecretCurrent, NumMsgsCovers,
        TimerArmed, InEloop
  <2> QED BY <2>7, <2>8 DEF Inv
<1>5. CASE LoopEnds
  <2>1. PICK d \in Delays :
          ChangeServer(AfterFailover,
                       IF msgs = <<>> THEN timers ELSE Register(timers, d))
    BY <1>5 DEF LoopEnds
  <2> DEFINE ts == IF msgs = <<>> THEN timers ELSE Register(timers, d)
  <2>2. ts \in [Delays -> Nat]
    BY <1>1 DEF Register
  <2>3. msgs # <<>> => ts[d] > 0
    BY <1>1 DEF Register
  <2>4. /\ AfterFailover \in [Ap -> Nat \ {0}]
        /\ \A a \in Ap : AfterFailover[a] <= Len(conf[a])
    <3>1. ASSUME NEW a \in Ap
          PROVE  AfterFailover[a] \in 1 .. Len(conf[a])
      <4>1. server[a] \in 1 .. Len(conf[a]) /\ Len(conf[a]) \in Nat \ {0}
        BY Facts DEF Inv, TypeOK
      <4>2. NextServer(a) \in 1 .. Len(conf[a])
        BY <4>1 DEF NextServer
      <4> QED BY <4>1, <4>2 DEF AfterFailover
    <3>2. \A a \in Ap : Len(conf[a]) \in Nat
      BY Facts
    <3>3. AfterFailover = [a \in Ap |-> AfterFailover[a]]
      BY DEF AfterFailover
    <3> QED BY <3>1, <3>2, <3>3
  <2>5. entry' = 0 /\ failover' = {} /\ UNCHANGED <<conf, stations>>
    BY <1>5 DEF LoopEnds
  <2> HIDE DEF ts
  <2>6. ChangeServer(AfterFailover, ts)
    BY <2>1 DEF ts
  <2> QED BY <2>2, <2>3, <2>4, <2>5, <2>6, InvChange
<1> QED BY <1>2, <1>3, <1>4, <1>5 DEF Radius_client_timer

-----------------------------------------------------------------------------
\* Every handler of the client preserves the invariant.
LEMMA InvNext == Inv /\ [Next]_vars => Inv'
<1> SUFFICES ASSUME Inv, [Next]_vars PROVE Inv'
  OBVIOUS
<1>1. CASE UNCHANGED vars
  BY <1>1 DEF vars, Inv, TypeOK, UniqueIds, TimerArmed, NumMsgsCovers,
              SecretCurrent, InEloop
<1>2. CASE Next
  BY <1>2, InvStations, InvSend, InvSendFails, InvReceive, InvTimer,
     InvRetryPrimary, InvReload, InvTick DEF Next
<1> QED BY <1>1, <1>2

\* The conjunction of the safety properties is an invariant of the client.
THEOREM Invariance == Spec => []Inv
BY InvInit, InvNext, PTL DEF Spec

\* The variables keep their types; in particular num_msgs, a size_t, never goes
\* below zero and next_radius_identifier stays a u8.
THEOREM TypeCorrect == Spec => []TypeOK
<1>1. Inv => TypeOK
  BY DEF Inv
<1> QED BY <1>1, Invariance, PTL

\* No two requests in radius->msgs carry the same identifier, across every wrap
\* of next_radius_identifier.
THEOREM IdentifiersUnique == Spec => []UniqueIds
<1>1. Inv => UniqueIds
  BY DEF Inv
<1> QED BY <1>1, Invariance, PTL

\* Whenever eloop_run is entered with a request in the list,
\* Radius_client_timer is registered.
THEOREM RetransmissionArmed == Spec => []TimerArmed
<1>1. Inv => TimerArmed
  BY DEF Inv
<1> QED BY <1>1, Invariance, PTL

\* The retransmit list never exceeds RADIUS_CLIENT_MAX_ENTRIES, and num_msgs
\* never falls below its length.
THEOREM ListBounded == Spec => []NumMsgsCovers
<1>1. Inv => NumMsgsCovers
  BY DEF Inv
<1> QED BY <1>1, Invariance, PTL

\* A request is only ever retransmitted to a server whose shared secret it was
\* signed with, across failover, return to the primary server and reload.
THEOREM SecretsCurrent == Spec => []SecretCurrent
<1>1. Inv => SecretCurrent
  BY DEF Inv
<1> QED BY <1>1, Invariance, PTL
=============================================================================
