--------------------------- MODULE BaTableProofs ---------------------------
(***************************************************************************)
(* The table of Block Ack recipient sessions stays consistent while        *)
(* sessions are added and torn down, stations come and go and an iwpriv    *)
(* command is cut by softirqs, as long as no ADDBA takes what the command  *)
(* is about to free.  Beyond TableConsistent, the inductive invariant says *)
(* what the command may rely on between its steps.                         *)
(***************************************************************************)
EXTENDS BaReorderProofs

InTable == Entries \ NoneEntries

\* numAsRecipient counts the entries in use.
Counted == num = Cardinality(InTable)

\* A flow's index names its session, and no two flows share an entry.
Named == \A f \in Flows : idx[f] # 0 =>
            rec[idx[f]].status = "Accept" /\ rec[idx[f]].flow = f

\* An entry in use belongs to a flow that knows it, unless it was forgotten
\* or is being freed.
Owned == \A e \in InTable : 
            /\ rec[e].flow \in Flows
            /\ \/ e \in ghost.orphans
               \/ idx[rec[e].flow] = e
               \/ td.pc \in {"free", "dec"} /\ td.e = e

\* The entry that a command works on stays the entry of its flow: a softirq
\* may free it before the command does, and nobody takes it again.
Command ==
  td.pc # "idle" =>
    /\ rec[td.e].flow = td.flow
    /\ idx[td.flow] \in {0, td.e}
    /\ td.pc \in {"free", "dec"} => idx[td.flow] = 0
    /\ td.pc = "dec" => rec[td.e].status = "Accept"

Table == Counted /\ Named /\ Owned /\ Command
TableInv == ~ghost.raced => Table

LEMMA TableInit == Init => TableInv
  <1> SUFFICES ASSUME Init PROVE Table
    BY DEF TableInv
  <1>1. \A e \in Entries : rec[e].status = "NONE"
    BY DEF Init, FreeEntry
  <1>2. InTable = {}
    BY <1>1 DEF InTable, NoneEntries
  <1>3. Counted
    BY <1>2, FS_EmptySet DEF Counted, Init
  <1>4. Named /\ Command
    BY DEF Named, Command, Init, Idle
  <1>5. Owned
    BY <1>2 DEF Owned
  <1> QED
    BY <1>3, <1>4, <1>5 DEF Table

LEMMA InTableFinite == IsFiniteSet(InTable) /\ Cardinality(InTable) \in Nat
  <1>1. InTable \subseteq Entries
    BY DEF InTable
  <1> QED
    BY <1>1, EntriesFinite, FS_Subset, FS_CardinalityType

\* What does not touch an entry's status or owner keeps the table.
LEMMA TableKept ==
  ASSUME TInv, Table, \A e \in Entries : rec'[e].status = rec[e].status
                                         /\ rec'[e].flow = rec[e].flow,
         UNCHANGED <<idx, num, td>>, ghost.orphans \subseteq ghost'.orphans
  PROVE  Table'
  <1>1. NoneEntries' = NoneEntries
    BY DEF NoneEntries
  <1>2. InTable' = InTable
    BY <1>1 DEF InTable
  <1>3. Counted'
    BY <1>2 DEF Table, Counted
  <1>4. Named'
    BY Session DEF Table, Named
  <1>5. Owned'
    BY <1>2 DEF Table, Owned, InTable
  <1>6. Command'
    BY Commanded DEF Table, Command
  <1> QED
    BY <1>3, <1>4, <1>5, <1>6 DEF Table

\* An entry leaves the table.
LEMMA TableShrinks ==
  ASSUME TInv, Table, NEW e \in InTable, rec'[e].status = "NONE",
         \A d \in Entries \ {e} : rec'[d].status = rec[d].status, num' = num - 1
  PROVE  InTable' = InTable \ {e} /\ Counted'
  <1>1. NoneEntries' = NoneEntries \cup {e}
    BY DEF NoneEntries, InTable
  <1>2. InTable' = InTable \ {e}
    BY <1>1 DEF InTable
  <1>3. Cardinality(InTable \ {e}) = Cardinality(InTable) - 1
    BY InTableFinite, FS_RemoveElement
  <1> QED
    BY <1>2, <1>3 DEF Table, Counted

\* A free entry is taken.
LEMMA TableGrows ==
  ASSUME TInv, Table, NEW e \in NoneEntries, rec'[e].status = "Accept",
         \A d \in Entries \ {e} : rec'[d].status = rec[d].status, num' = num + 1
  PROVE  InTable' = InTable \cup {e} /\ Counted'
  <1>1. NoneEntries' = NoneEntries \ {e}
    BY DEF NoneEntries
  <1>2. InTable' = InTable \cup {e} /\ e \notin InTable
    BY <1>1 DEF InTable, NoneEntries
  <1>3. Cardinality(InTable \cup {e}) = Cardinality(InTable) + 1
    BY <1>2, InTableFinite, FS_AddElement
  <1> QED
    BY <1>2, <1>3 DEF Table, Counted

\* What a handler of the list writes back has the entry's status and owner.
LEMMA HandlerKeepsTable ==
  ASSUME TInv, Table, NEW e \in Entries, NEW x,
         rec' = [rec EXCEPT ![e] = x], x.status = rec[e].status, x.flow = rec[e].flow,
         UNCHANGED <<idx, num, td>>, ghost.orphans \subseteq ghost'.orphans
  PROVE  Table'
  <1>1. rec \in [Entries -> RecType]
    BY DEF TInv, TypesNoPool
  <1>2. \A d \in Entries : rec'[d].status = rec[d].status /\ rec'[d].flow = rec[d].flow
    BY <1>1
  <1> QED
    BY <1>2, TableKept

LEMMA TearDownTable ==
  ASSUME TInv, Table, NEW f \in Flows, BARecSessionTearDown(f), UNCHANGED <<td, ghost>>
  PROVE  Table'
  <1> DEFINE e == idx[f]
             c == Refresh(Ctx(f, e))
  <1>0. rec \in [Entries -> RecType] /\ idx \in [Flows -> 0 .. MAX_LEN_OF_BA_REC_TABLE - 1]
    BY DEF TInv, TypesNoPool
  <1>1. CASE e # 0 /\ rec[e].status = "Accept"
    <2> DEFINE x == [Entry(e, c) EXCEPT !.BAWinSize = 0, !.status = "NONE"]
    <2>1. e \in Entries /\ rec[e].flow = f /\ e \in InTable
      BY <1>1, Session DEF Table, Named, InTable, NoneEntries
    <2>2. /\ rec' = [rec EXCEPT ![e] = x] /\ num' = num - 1
          /\ idx' = [g \in Flows |-> IF g \in {f, rec[e].flow} THEN 0 ELSE idx[g]]
      BY <1>1 DEF BARecSessionTearDown
    <2>3. x.status = "NONE" /\ x.flow = f
      <3>1. c \in CtxType
        BY <2>1, CtxOK, RefreshKeeps
      <3> DEFINE r == Entry(e, c)
      <3>2. r \in RecType /\ r.flow = f
        BY <2>1, <3>1, EntryOK
      <3> HIDE DEF r
      <3>3. [r EXCEPT !.BAWinSize = 0, !.status = "NONE"].status = "NONE"
            /\ [r EXCEPT !.BAWinSize = 0, !.status = "NONE"].flow = f
        BY <3>2 DEF RecType
      <3> QED
        BY <3>3 DEF r
    <2>4. /\ rec'[e].status = "NONE" /\ rec'[e].flow = f
          /\ \A d \in Entries \ {e} : rec'[d] = rec[d]
      BY <1>0, <2>1, <2>2, <2>3
    <2>5. idx'[f] = 0 /\ \A g \in Flows \ {f} : idx'[g] = idx[g]
      BY <1>0, <2>1, <2>2
    <2>6. InTable' = InTable \ {e} /\ Counted'
      BY <2>1, <2>2, <2>4, TableShrinks
    <2>7. Named'
      <3> SUFFICES ASSUME NEW g \in Flows, idx'[g] # 0
                   PROVE  rec'[idx'[g]].status = "Accept" /\ rec'[idx'[g]].flow = g
        BY DEF Named
      <3>1. g # f /\ idx'[g] = idx[g] /\ idx[g] # 0
        BY <2>5
      <3>2. idx[g] \in Entries /\ rec[idx[g]].status = "Accept" /\ rec[idx[g]].flow = g
        BY <3>1, Session DEF Table, Named
      <3> QED
        BY <2>1, <2>4, <3>1, <3>2
    <2>8. Owned'
      <3> SUFFICES ASSUME NEW d \in InTable \ {e}
                   PROVE  /\ rec'[d].flow \in Flows
                          /\ \/ d \in ghost'.orphans
                             \/ idx'[rec'[d].flow] = d
                             \/ td'.pc \in {"free", "dec"} /\ td'.e = d
        BY <2>6 DEF Owned
      <3>1. rec'[d] = rec[d] /\ d \in Entries
        BY <2>4 DEF InTable
      <3>2. /\ rec[d].flow \in Flows
            /\ \/ d \in ghost.orphans
               \/ idx[rec[d].flow] = d
               \/ td.pc \in {"free", "dec"} /\ td.e = d
        BY DEF Table, Owned
      <3> QED
        BY <2>5, <3>1, <3>2
    <2>9. Command'
      <3> SUFFICES ASSUME td.pc # "idle"
                   PROVE  /\ rec'[td.e].flow = td.flow
                          /\ idx'[td.flow] \in {0, td.e}
                          /\ td.pc \in {"free", "dec"} => idx'[td.flow] = 0
                          /\ td.pc = "dec" => rec'[td.e].status = "Accept"
        BY DEF Command
      <3>1. td.flow \in Flows /\ td.e \in Entries
        BY Commanded
      <3>2. /\ rec[td.e].flow = td.flow
            /\ idx[td.flow] \in {0, td.e}
            /\ td.pc \in {"free", "dec"} => idx[td.flow] = 0
            /\ td.pc = "dec" => rec[td.e].status = "Accept"
        BY DEF Table, Command
      <3>3. rec'[td.e].flow = td.flow
        BY <2>1, <2>4, <3>1, <3>2
      <3>4. idx'[td.flow] \in {0, idx[td.flow]}
        BY <2>5, <3>1
      <3>5. td.pc = "dec" => td.e # e
        BY <1>1, <2>1, <3>2
      <3> QED
        BY <2>4, <3>1, <3>2, <3>3, <3>4, <3>5
    <2> QED
      BY <2>6, <2>7, <2>8, <2>9 DEF Table
  <1>2. CASE ~(e # 0 /\ rec[e].status = "Accept")
    <2>1. UNCHANGED <<rec, idx, num>>
      BY <1>2 DEF BARecSessionTearDown
    <2> QED
      BY <2>1, TableKept
  <1> QED
    BY <1>1, <1>2

LEMMA InsertTable ==
  ASSUME TInv, Table, NEW f \in Flows, MacTableInsertEntry(f)
  PROVE  Table'
  <1>0. ghost \in GhostType /\ idx \in [Flows -> 0 .. MAX_LEN_OF_BA_REC_TABLE - 1]
    BY DEF TInv, TypesNoPool
  <1>1. /\ UNCHANGED <<rec, num, td>> /\ idx' = [idx EXCEPT ![f] = 0]
        /\ ghost'.orphans = ghost.orphans \cup ({idx[f]} \ {0})
    BY <1>0 DEF MacTableInsertEntry, GhostType
  <1>2. idx'[f] = 0 /\ \A g \in Flows \ {f} : idx'[g] = idx[g]
    BY <1>0, <1>1
  <1>3. InTable' = InTable
    BY <1>1 DEF InTable, NoneEntries
  <1>4. Counted'
    BY <1>1, <1>3 DEF Table, Counted
  <1>5. Named'
    BY <1>1, <1>2 DEF Table, Named
  <1>6. Owned'
    <2> SUFFICES ASSUME NEW d \in InTable
                 PROVE  /\ rec[d].flow \in Flows
                        /\ \/ d \in ghost'.orphans
                           \/ idx'[rec[d].flow] = d
                           \/ td.pc \in {"free", "dec"} /\ td.e = d
      BY <1>1, <1>3 DEF Owned
    <2>1. /\ rec[d].flow \in Flows /\ d # 0
          /\ \/ d \in ghost.orphans
             \/ idx[rec[d].flow] = d
             \/ td.pc \in {"free", "dec"} /\ td.e = d
      BY DEF Table, Owned, InTable, Entries
    <2> QED
      BY <1>1, <1>2, <2>1
  <1>7. Command'
    BY <1>1, <1>2, Commanded DEF Table, Command
  <1> QED
    BY <1>4, <1>5, <1>6, <1>7 DEF Table

\* While the table is consistent, a session that it has room for gets a free
\* entry: BATableAllocRecEntry does not fall back on the last one.
LEMMA RoomMeansFree ==
  ASSUME TInv, Table, num < MAX_LEN_OF_BA_REC_TABLE - 1
  PROVE  NoneEntries # {} /\ AllocRecEntry \in NoneEntries
  <1>1. MAX_LEN_OF_BA_REC_TABLE - 1 \in Nat /\ 1 \in Nat
    BY ConstantsAssumption DEF ConstantsAssumption
  <1>2. NoneEntries # {}
    <2> SUFFICES ASSUME NoneEntries = {} PROVE FALSE
      OBVIOUS
    <2>1. InTable = 1 .. MAX_LEN_OF_BA_REC_TABLE - 1
      BY DEF InTable, Entries
    <2>2. Cardinality(1 .. MAX_LEN_OF_BA_REC_TABLE - 1) = MAX_LEN_OF_BA_REC_TABLE - 1
      BY <1>1, FS_Interval
    <2> QED
      BY <1>1, <2>1, <2>2 DEF Table, Counted
  <1>3. NoneEntries \in SUBSET (1 .. MAX_LEN_OF_BA_REC_TABLE - 1)
    BY DEF NoneEntries, Entries
  <1>4. Min(NoneEntries) \in NoneEntries
    BY <1>1, <1>2, <1>3, MinIn
  <1> QED
    BY <1>2, <1>4 DEF AllocRecEntry

LEMMA AddTable ==
  ASSUME TInv, Table, NEW f \in Flows, NEW buf \in BufSizes, NEW heard \in BOOLEAN,
         PeerAddBAReqAction(f, buf, heard), ~ghost'.raced
  PROVE  Table'
  <1> DEFINE new == idx[f] = 0
             e == IF new THEN AllocRecEntry ELSE idx[f]
             c == IF new THEN Ctx(f, e) ELSE Refresh(Ctx(f, e))
             x == Accepted(f, e, c, buf)
  <1>0. /\ rec \in [Entries -> RecType] /\ ghost \in GhostType /\ num \in Int
        /\ idx \in [Flows -> 0 .. MAX_LEN_OF_BA_REC_TABLE - 1]
        /\ MAX_LEN_OF_BA_REC_TABLE \in Nat
    BY ConstantsAssumption DEF ConstantsAssumption, TInv, TypesNoPool
  <1>1. CASE new /\ num >= MAX_LEN_OF_BA_REC_TABLE - 1
    <2>1. UNCHANGED <<rec, idx, num, td, ghost>>
      BY <1>1 DEF PeerAddBAReqAction
    <2> QED
      BY <2>1, TableKept
  <1>2. CASE ~(new /\ num >= MAX_LEN_OF_BA_REC_TABLE - 1)
    <2>1. /\ rec' = [rec EXCEPT ![e] = x]
          /\ idx' = [idx EXCEPT ![f] = IF new /\ NoneEntries = {} THEN 0 ELSE e]
          /\ num' = IF new /\ NoneEntries # {} THEN num + 1 ELSE num
          /\ ghost' = [ghost EXCEPT
                 !.adds = ghost.adds + 1,
                 !.raced = \/ ghost.raced
                           \/ new /\ td.pc # "idle" /\ (td.flow = f \/ td.e = e)]
          /\ UNCHANGED td
      BY <1>2 DEF PeerAddBAReqAction
    <2>2. /\ ghost'.orphans = ghost.orphans
          /\ ~(new /\ td.pc # "idle" /\ (td.flow = f \/ td.e = e))
      BY <1>0, <2>1 DEF GhostType
    <2>3. e \in Entries
      BY AllocOK, Session
    <2>4. x.status = "Accept" /\ x.flow = f
      <3>1. c \in CtxType
        BY <2>3, CtxOK, RefreshKeeps
      <3> DEFINE r == Entry(e, c)
      <3>2. r \in RecType
        BY <2>3, <3>1, EntryOK
      <3>3. x = [r EXCEPT !.status = "Accept", !.flow = f, !.LastIndSeq = RESET,
                          !.BAWinSize = BAWinSize(buf)]
        BY DEF Accepted
      <3> HIDE DEF r, x
      <3> QED
        BY <3>2, <3>3 DEF RecType
    <2>5. CASE ~new
      <3>1. rec[e].status = "Accept" /\ rec[e].flow = f /\ e = idx[f]
        BY <2>5 DEF Table, Named
      <3>2. idx' = idx /\ num' = num
        BY <1>0, <2>1, <2>5
      <3> HIDE DEF x, e
      <3> QED
        BY <2>1, <2>2, <2>3, <2>4, <3>1, <3>2, HandlerKeepsTable
    <2>6. CASE new
      <3>1. num < MAX_LEN_OF_BA_REC_TABLE - 1
        BY <1>0, <1>2, <2>6
      <3>2. NoneEntries # {} /\ e \in NoneEntries
        BY <2>6, <3>1, RoomMeansFree
      <3>3. num' = num + 1 /\ idx' = [idx EXCEPT ![f] = e]
        BY <2>1, <2>6, <3>2
      <3>4. idx[f] = 0 /\ ~(td.pc # "idle" /\ (td.flow = f \/ td.e = e))
        BY <2>2, <2>6
      <3> HIDE DEF x, e
      <3>5. /\ rec'[e].status = "Accept" /\ rec'[e].flow = f
            /\ \A d \in Entries \ {e} : rec'[d] = rec[d]
        BY <1>0, <2>1, <2>3, <2>4
      <3>6. idx'[f] = e /\ \A g \in Flows \ {f} : idx'[g] = idx[g]
        BY <1>0, <3>3
      <3>7. InTable' = InTable \cup {e} /\ Counted'
        BY <3>2, <3>3, <3>5, TableGrows
      <3>8. Named'
        <4> SUFFICES ASSUME NEW g \in Flows, idx'[g] # 0
                     PROVE  rec'[idx'[g]].status = "Accept" /\ rec'[idx'[g]].flow = g
          BY DEF Named
        <4>1. CASE g = f
          BY <3>5, <3>6, <4>1
        <4>2. CASE g # f
          <5>1. idx'[g] = idx[g] /\ idx[g] # 0
            BY <3>6, <4>2
          <5>2. idx[g] \in Entries /\ rec[idx[g]].status = "Accept" /\ rec[idx[g]].flow = g
            BY <5>1, Session DEF Table, Named
          <5>3. idx[g] # e
            BY <3>2, <5>2 DEF NoneEntries
          <5> QED
            BY <3>5, <5>1, <5>2, <5>3
        <4> QED
          BY <4>1, <4>2
      <3>9. Owned'
        <4> SUFFICES ASSUME NEW d \in InTable \cup {e}
                     PROVE  /\ rec'[d].flow \in Flows
                            /\ \/ d \in ghost'.orphans
                               \/ idx'[rec'[d].flow] = d
                               \/ td'.pc \in {"free", "dec"} /\ td'.e = d
          BY <3>7 DEF Owned
        <4>1. CASE d = e
          BY <3>5, <3>6, <4>1
        <4>2. CASE d # e
          <5>1. rec'[d] = rec[d] /\ d \in Entries /\ d # 0 /\ d \in InTable
            BY <3>5, <4>2 DEF InTable, Entries
          <5>2. /\ rec[d].flow \in Flows
                /\ \/ d \in ghost.orphans
                   \/ idx[rec[d].flow] = d
                   \/ td.pc \in {"free", "dec"} /\ td.e = d
            BY <5>1 DEF Table, Owned
          <5> QED
            BY <2>1, <2>2, <3>4, <3>6, <5>1, <5>2
        <4> QED
          BY <4>1, <4>2
      <3>10. Command'
        <4> SUFFICES ASSUME td.pc # "idle"
                     PROVE  /\ rec'[td.e].flow = td.flow
                            /\ idx'[td.flow] \in {0, td.e}
                            /\ td.pc \in {"free", "dec"} => idx'[td.flow] = 0
                            /\ td.pc = "dec" => rec'[td.e].status = "Accept"
          BY <2>1 DEF Command
        <4>1. td.flow \in Flows /\ td.e \in Entries /\ td.flow # f /\ td.e # e
          BY <3>4, Commanded
        <4> QED
          BY <3>5, <3>6, <4>1 DEF Table, Command
      <3> QED
        BY <3>7, <3>8, <3>9, <3>10 DEF Table
    <2> QED
      BY <2>5, <2>6
  <1> QED
    BY <1>1, <1>2

LEMMA TdEnterTable ==
  ASSUME TInv, Table, NEW f \in Flows, NEW heard \in BOOLEAN, TdEnter(f, heard)
  PROVE  Table'
  <1>0. ghost \in GhostType
    BY DEF TInv, TypesNoPool
  <1>1. /\ UNCHANGED <<rec, idx, num>> /\ td.pc = "idle"
        /\ td' = [pc |-> "refresh", flow |-> f, e |-> idx[f]]
        /\ ghost'.orphans = ghost.orphans /\ idx[f] # 0
    BY <1>0 DEF TdEnter, GhostType
  <1>2. InTable' = InTable
    BY <1>1 DEF InTable, NoneEntries
  <1>3. Counted' /\ Named'
    BY <1>1, <1>2 DEF Table, Counted, Named
  <1>4. Owned'
    BY <1>1, <1>2 DEF Table, Owned
  <1>5. Command'
    BY <1>1 DEF Table, Named, Command
  <1> QED
    BY <1>3, <1>4, <1>5 DEF Table

\* A step of the command that keeps status and owner of every entry.
LEMMA CommandStep ==
  ASSUME TInv, Table, \A d \in Entries : rec'[d].status = rec[d].status
                                         /\ rec'[d].flow = rec[d].flow,
         UNCHANGED <<num, ghost>>, td.pc # "idle", td'.e = td.e,
         idx' = [idx EXCEPT ![td.flow] = 0], td'.pc \in {"free", "dec"},
         td'.flow = td.flow, td'.pc = "dec" => rec[td.e].status = "Accept"
  PROVE  Table'
  <1>0. idx \in [Flows -> 0 .. MAX_LEN_OF_BA_REC_TABLE - 1]
        /\ td.flow \in Flows /\ td.e \in Entries
    BY Commanded DEF TInv, TypesNoPool
  <1>1. InTable' = InTable
    BY DEF InTable, NoneEntries
  <1>2. Counted'
    BY <1>1 DEF Table, Counted
  <1>3. idx'[td.flow] = 0 /\ \A g \in Flows \ {td.flow} : idx'[g] = idx[g]
    BY <1>0
  <1>4. rec[td.e].flow = td.flow /\ idx[td.flow] \in {0, td.e}
    BY DEF Table, Command
  <1>5. Named'
    <2> SUFFICES ASSUME NEW g \in Flows, idx'[g] # 0
                 PROVE  rec'[idx'[g]].status = "Accept" /\ rec'[idx'[g]].flow = g
      BY DEF Named
    <2>1. idx'[g] = idx[g] /\ idx[g] # 0
      BY <1>3
    <2>2. idx[g] \in Entries /\ rec[idx[g]].status = "Accept" /\ rec[idx[g]].flow = g
      BY <2>1, Session DEF Table, Named
    <2> QED
      BY <2>1, <2>2
  <1>6. Owned'
    <2> SUFFICES ASSUME NEW d \in InTable
                 PROVE  /\ rec'[d].flow \in Flows
                        /\ \/ d \in ghost'.orphans
                           \/ idx'[rec'[d].flow] = d
                           \/ td'.pc \in {"free", "dec"} /\ td'.e = d
      BY <1>1 DEF Owned
    <2>1. rec'[d].flow = rec[d].flow /\ d # 0
      BY DEF InTable, Entries
    <2>2. /\ rec[d].flow \in Flows
          /\ \/ d \in ghost.orphans
             \/ idx[rec[d].flow] = d
             \/ td.pc \in {"free", "dec"} /\ td.e = d
      BY DEF Table, Owned
    <2> QED
      BY <1>3, <1>4, <2>1, <2>2
  <1>7. Command'
    BY <1>0, <1>3, <1>4 DEF Command
  <1> QED
    BY <1>2, <1>5, <1>6, <1>7 DEF Table

LEMMA TdRefreshTable ==
  ASSUME TInv, Table, TdRefresh
  PROVE  Table'
  <1> DEFINE c == Refresh(Ctx(td.flow, td.e))
  <1>1. td \in TdType /\ td.flow \in Flows /\ td.e \in Entries /\ td.pc = "refresh"
    BY Commanded DEF TdRefresh
  <1>2. c \in CtxType
    BY <1>1, CtxOK, RefreshKeeps
  <1>3. rec' = [rec EXCEPT ![td.e] = Entry(td.e, c)] /\ UNCHANGED <<idx, num, ghost>>
        /\ td' = [td EXCEPT !.pc = "section"]
    BY DEF TdRefresh
  <1>4. rec \in [Entries -> RecType]
    BY DEF TInv, TypesNoPool
  <1>5. /\ Entry(td.e, c).status = rec[td.e].status
        /\ Entry(td.e, c).flow = rec[td.e].flow
    BY <1>1, <1>2, EntryOK
  <1>6. \A d \in Entries : rec'[d].status = rec[d].status /\ rec'[d].flow = rec[d].flow
    BY <1>3, <1>4, <1>5
  <1>7. td'.pc = "section" /\ td'.flow = td.flow /\ td'.e = td.e
    BY <1>1, <1>3 DEF TdType
  <1>8. InTable' = InTable
    BY <1>6 DEF InTable, NoneEntries
  <1>9. Counted'
    BY <1>3, <1>8 DEF Table, Counted
  <1>10. Named'
    BY <1>3, <1>6, Session DEF Table, Named
  <1>11. Owned'
    BY <1>1, <1>3, <1>6, <1>8 DEF Table, Owned, InTable
  <1>12. Command'
    BY <1>1, <1>3, <1>6, <1>7 DEF Table, Command
  <1> QED
    BY <1>9, <1>10, <1>11, <1>12 DEF Table

LEMMA TdSectionTable ==
  ASSUME TInv, Table, TdSection
  PROVE  Table'
  <1>1. td \in TdType /\ td.pc # "idle"
    BY Commanded DEF TdSection
  <1>2. /\ rec' = [rec EXCEPT ![td.e].LastIndSeq = RESET, ![td.e].BAWinSize = 0]
        /\ idx' = [idx EXCEPT ![td.flow] = 0] /\ td' = [td EXCEPT !.pc = "free"]
        /\ UNCHANGED <<num, ghost>>
    BY DEF TdSection
  <1>3. rec \in [Entries -> RecType]
    BY DEF TInv, TypesNoPool
  <1>4. \A d \in Entries : rec'[d].status = rec[d].status /\ rec'[d].flow = rec[d].flow
    BY <1>2, <1>3 DEF RecType
  <1>5. td'.pc = "free" /\ td'.flow = td.flow /\ td'.e = td.e
    BY <1>1, <1>2 DEF TdType
  <1> QED
    BY <1>1, <1>2, <1>4, <1>5, CommandStep

LEMMA TdFreeTable ==
  ASSUME TInv, Table, TdFree
  PROVE  Table'
  <1>1. td \in TdType /\ td.e \in Entries /\ td.flow \in Flows /\ td.pc = "free"
    BY Commanded DEF TdFree
  <1>2. UNCHANGED <<rec, num, ghost>> /\ rec[td.e].flow = td.flow /\ idx[td.flow] = 0
    BY <1>1 DEF TdFree, Table, Command
  <1>3. CASE rec[td.e].status # "NONE"
    <2>1. idx' = [idx EXCEPT ![td.flow] = 0] /\ td' = [td EXCEPT !.pc = "dec"]
      BY <1>2, <1>3 DEF TdFree
    <2>2. td'.pc = "dec" /\ td'.flow = td.flow /\ td'.e = td.e
      BY <1>1, <2>1 DEF TdType
    <2>3. rec[td.e].status = "Accept"
      BY <1>1, <1>3 DEF TInv, TypesNoPool, RecType
    <2> QED
      BY <1>1, <1>2, <2>1, <2>2, <2>3, CommandStep
  <1>4. CASE rec[td.e].status = "NONE"
    <2>1. td' = Idle /\ UNCHANGED idx
      BY <1>4 DEF TdFree
    <2>2. InTable' = InTable /\ td.e \notin InTable
      BY <1>1, <1>2, <1>4 DEF InTable, NoneEntries
    <2>3. Counted' /\ Named'
      BY <1>2, <2>1, <2>2 DEF Table, Counted, Named
    <2>4. Owned'
      BY <1>2, <2>1, <2>2 DEF Table, Owned
    <2>5. Command'
      BY <2>1 DEF Command, Idle
    <2> QED
      BY <2>3, <2>4, <2>5 DEF Table
  <1> QED
    BY <1>3, <1>4

LEMMA TdDecTable ==
  ASSUME TInv, Table, TdDec
  PROVE  Table'
  <1> DEFINE e == td.e
  <1>1. e \in Entries /\ td.flow \in Flows /\ td.pc = "dec"
    BY Commanded DEF TdDec
  <1>2. /\ rec' = [rec EXCEPT ![e].status = "NONE"] /\ td' = Idle /\ num' = num - 1
        /\ UNCHANGED <<idx, ghost>>
    BY DEF TdDec
  <1>3. rec \in [Entries -> RecType] /\ rec[e] \in RecType
    BY <1>1 DEF TInv, TypesNoPool
  <1>4. rec[e].status = "Accept" /\ rec[e].flow = td.flow /\ idx[td.flow] = 0
    BY <1>1 DEF Table, Command
  <1>5. rec'[e].status = "NONE" /\ \A d \in Entries \ {e} : rec'[d] = rec[d]
    BY <1>1, <1>2, <1>3 DEF RecType
  <1>6. e \in InTable
    BY <1>1, <1>4 DEF InTable, NoneEntries
  <1>7. InTable' = InTable \ {e} /\ Counted'
    BY <1>2, <1>5, <1>6, TableShrinks
  <1>8. Named'
    <2> SUFFICES ASSUME NEW g \in Flows, idx[g] # 0
                 PROVE  rec'[idx[g]].status = "Accept" /\ rec'[idx[g]].flow = g
      BY <1>2 DEF Named
    <2>1. idx[g] \in Entries /\ rec[idx[g]].status = "Accept" /\ rec[idx[g]].flow = g
      BY Session DEF Table, Named
    <2>2. idx[g] # e
      BY <1>4, <2>1
    <2> QED
      BY <1>5, <2>1, <2>2
  <1>9. Owned'
    <2> SUFFICES ASSUME NEW d \in InTable \ {e}
                 PROVE  /\ rec'[d].flow \in Flows
                        /\ d \in ghost'.orphans \/ idx'[rec'[d].flow] = d
      BY <1>7 DEF Owned
    <2>1. rec'[d] = rec[d]
      BY <1>5 DEF InTable
    <2> QED
      BY <1>2, <2>1 DEF Table, Owned
  <1>10. Command'
    BY <1>2 DEF Command, Idle
  <1> QED
    BY <1>7, <1>8, <1>9, <1>10 DEF Table

LEMMA HandledTable ==
  ASSUME TInv, Table, NEW f \in Flows, NEW e \in Entries, NEW c \in CtxType, NEW new,
         Handled(f, e, c, new), UNCHANGED <<idx, num, td>>
  PROVE  Table'
  <1>1. rec' = [rec EXCEPT ![e] = Entry(e, c)]
    BY DEF Handled
  <1>2. Entry(e, c).status = rec[e].status /\ Entry(e, c).flow = rec[e].flow
    BY EntryOK
  <1>3. ghost'.orphans = ghost.orphans
    BY DEF Handled, TInv, TypesNoPool, GhostType
  <1> QED
    BY <1>1, <1>2, <1>3, HandlerKeepsTable

LEMMA ReceptionTable ==
  ASSUME TInv, Table, NEW f \in Flows,
         \/ \E n \in Frames, ack \in BOOLEAN : Indicate_AMPDU_Packet(f, n, ack)
         \/ CntlEnqueueForRecv(f)
  PROVE  Table'
  <1>1. idx[f] \in Entries /\ UNCHANGED <<idx, num, td>>
    BY Session DEF Indicate_AMPDU_Packet, CntlEnqueueForRecv
  <1>2. Ctx(f, idx[f]) \in CtxType
    BY <1>1, CtxOK
  <1>3. ASSUME NEW n \in Frames, NEW ack \in BOOLEAN, Indicate_AMPDU_Packet(f, n, ack)
        PROVE  Table'
    <2> DEFINE fr == [flow |-> f, n |-> n]
               c == Indicate_AMPDU(Arriving(f, n), fr, orig[f].base)
    <2>1. fr \in FrameType
      BY DEF FrameType
    <2>2. c \in CtxType
      <3>1. Arriving(f, n) \in CtxType
        BY <1>3, ArrivingOK DEF Indicate_AMPDU_Packet
      <3> QED
        BY <2>1, <3>1, IndicateAmpduKeeps DEF Keeps
    <2>3. Handled(f, idx[f], c, n = orig[f].next)
      BY <1>3 DEF Indicate_AMPDU_Packet
    <2> HIDE DEF c
    <2> QED
      BY <1>1, <2>2, <2>3, HandledTable
  <1>4. CASE CntlEnqueueForRecv(f)
    <2> DEFINE start == orig[f].base % M
               c == BlockAckReq(Ctx(f, idx[f]), start)
    <2>1. start \in 0 .. MAXSEQ
      <3>1. orig[f].base \in Int
        BY ConstantsAssumption
        DEF ConstantsAssumption, TInv, TypesNoPool, OrigType, Numbers
      <3> QED
        BY <3>1, SequenceNumbers
    <2>2. Handled(f, idx[f], c, FALSE)
      BY <1>4 DEF CntlEnqueueForRecv
    <2> HIDE DEF start
    <2>3. c \in CtxType
      BY <1>2, <2>1, BlockAckReqKeeps DEF Keeps
    <2> HIDE DEF c
    <2> QED
      BY <1>1, <2>2, <2>3, HandledTable
  <1> QED
    BY <1>3, <1>4

LEMMA SessionEndsTable ==
  ASSUME TInv, Table, NEW f \in Flows,
         \/ PeerDelBAAction(f)
         \/ \E fails \in BOOLEAN : PeerAuth(f, fails)
         \/ \E fails \in BOOLEAN : MacTableDeleteEntry(f, fails)
  PROVE  Table'
  <1>1. UNCHANGED td
    BY DEF PeerDelBAAction, PeerAuth, MacTableDeleteEntry
  <1>2. CASE PeerDelBAAction(f)
    BY <1>2, TearDownTable DEF PeerDelBAAction
  <1>3. ASSUME NEW fails \in BOOLEAN, BASessionTearDownALL(f, fails) PROVE Table'
    <2>1. CASE fails
      <3>1. UNCHANGED <<rec, idx, num>>
            /\ ghost' = [ghost EXCEPT !.upsets = ghost.upsets + 1]
        BY <1>3, <2>1 DEF BASessionTearDownALL
      <3>2. ghost'.orphans = ghost.orphans
        BY <3>1 DEF TInv, TypesNoPool, GhostType
      <3> QED
        BY <1>1, <3>1, <3>2, TableKept
    <2>2. CASE ~fails
      <3>1. BARecSessionTearDown(f) /\ UNCHANGED ghost
        BY <1>3, <2>2 DEF BASessionTearDownALL
      <3> QED
        BY <1>1, <3>1, TearDownTable
    <2> QED
      BY <2>1, <2>2
  <1>4. ASSUME NEW fails \in BOOLEAN, PeerAuth(f, fails) \/ MacTableDeleteEntry(f, fails)
        PROVE  BASessionTearDownALL(f, fails)
    BY <1>4 DEF PeerAuth, MacTableDeleteEntry
  <1> QED
    BY <1>2, <1>3, <1>4

\* A command that was raced stays so.
LEMMA RacedStays ==
  ASSUME TInv, [Next]_vars, ghost.raced
  PROVE  ghost'.raced
  <1>0. ghost \in GhostType
    BY DEF TInv, TypesNoPool
  <1>1. ASSUME NEW f, NEW e, NEW c, NEW new, Handled(f, e, c, new) PROVE ghost'.raced
    BY <1>0, <1>1 DEF Handled, GhostType
  <1>2. ASSUME NEW f \in Flows, Softirq(f) PROVE ghost'.raced
    <2>1. ASSUME NEW n \in Frames, NEW ack \in BOOLEAN, Indicate_AMPDU_Packet(f, n, ack)
          PROVE  ghost'.raced
      BY <1>1, <2>1 DEF Indicate_AMPDU_Packet
    <2>2. CASE CntlEnqueueForRecv(f)
      BY <1>1, <2>2 DEF CntlEnqueueForRecv
    <2>3. ASSUME NEW buf \in BufSizes, NEW heard \in BOOLEAN, PeerAddBAReqAction(f, buf, heard)
          PROVE  ghost'.raced
      BY <1>0, <2>3 DEF PeerAddBAReqAction, GhostType
    <2>4. CASE Indicate_TornDown(f) \/ PeerDelBAAction(f)
      BY <2>4 DEF Indicate_TornDown, PeerDelBAAction
    <2>5. ASSUME NEW fails \in BOOLEAN, PeerAuth(f, fails) \/ MacTableDeleteEntry(f, fails)
          PROVE  ghost'.raced
      <3>1. BASessionTearDownALL(f, fails)
        BY <2>5 DEF PeerAuth, MacTableDeleteEntry
      <3> QED
        BY <1>0, <3>1 DEF BASessionTearDownALL, GhostType
    <2>6. CASE MacTableInsertEntry(f)
      BY <1>0, <2>6 DEF MacTableInsertEntry, GhostType
    <2> QED
      BY <1>2, <2>1, <2>2, <2>3, <2>4, <2>5, <2>6 DEF Softirq
  <1>3. ASSUME NEW f \in Flows, LoseFrame(f) \/ GiveUp(f) PROVE ghost'.raced
    BY <1>0, <1>3 DEF LoseFrame, GiveUp, GhostType
  <1>4. ASSUME NEW f \in Flows, NEW heard \in BOOLEAN, TdEnter(f, heard) PROVE ghost'.raced
    BY <1>0, <1>4 DEF TdEnter, GhostType
  <1>5. CASE TdRefresh \/ TdSection \/ TdFree \/ TdDec
    BY <1>5 DEF TdRefresh, TdSection, TdFree, TdDec
  <1>6. ASSUME NEW e \in Entries, Tick(e) PROVE ghost'.raced
    BY <1>6 DEF Tick
  <1>7. CASE UNCHANGED vars
    BY <1>7 DEF vars
  <1> QED
    BY <1>2, <1>3, <1>4, <1>5, <1>6, <1>7 DEF Next

LEMMA TableNext ==
  ASSUME TInv, TableInv, [Next]_vars
  PROVE  TableInv'
  <1> SUFFICES ASSUME ~ghost'.raced PROVE Table'
    BY DEF TableInv
  <1>0. Table
    BY RacedStays DEF TableInv
  <1>1. ASSUME NEW f \in Flows, Softirq(f) PROVE Table'
    <2>1. CASE Indicate_TornDown(f)
      BY <1>0, <2>1, TableKept DEF Indicate_TornDown
    <2> QED
      BY <1>0, <1>1, <2>1, ReceptionTable, AddTable, SessionEndsTable, InsertTable DEF Softirq
  <1>2. ASSUME NEW f \in Flows, LoseFrame(f) \/ GiveUp(f) PROVE Table'
    <2>1. UNCHANGED <<rec, idx, num, td>> /\ ghost'.orphans = ghost.orphans
      BY <1>2 DEF LoseFrame, GiveUp, TInv, TypesNoPool, GhostType
    <2> QED
      BY <1>0, <2>1, TableKept
  <1>3. ASSUME NEW e \in Entries, Tick(e) PROVE Table'
    <2> DEFINE x == [rec[e] EXCEPT !.age = rec[e].age + 1]
    <2>1. rec' = [rec EXCEPT ![e] = x] /\ UNCHANGED <<idx, num, td, ghost>>
      BY <1>3 DEF Tick
    <2>2. x.status = rec[e].status /\ x.flow = rec[e].flow
      BY DEF TInv, TypesNoPool, RecType
    <2> HIDE DEF x
    <2> QED
      BY <1>0, <2>1, <2>2, HandlerKeepsTable
  <1>4. CASE UNCHANGED vars
    BY <1>0, <1>4, TableKept DEF vars
  <1> QED
    BY <1>0, <1>1, <1>2, <1>3, <1>4, TdEnterTable, TdRefreshTable, TdSectionTable,
       TdFreeTable, TdDecTable DEF Next

\* The table of recipient sessions is consistent in every reachable state:
\* numAsRecipient counts the entries in use, and indexes and entries name each
\* other, for every number of flows and entries, every order of ADDBA, DELBA,
\* tear-downs that fail and stations that come and go, and every cut of iwpriv
\* BARecTearDown; only an ADDBA for what the command is freeing voids it.
THEOREM TableIsConsistent == Spec => []TableConsistent
  <1>1. TInv /\ TableInv /\ [Next]_vars => (TInv /\ TableInv)'
    BY TNext, TableNext
  <1>2. TableInv => TableConsistent
    BY DEF TableInv, Table, Counted, Named, Owned, InTable, TableConsistent
  <1> QED
    BY <1>1, <1>2, TInvInit, TableInit, PTL DEF Spec
=============================================================================
