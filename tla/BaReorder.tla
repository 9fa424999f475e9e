----------------------------- MODULE BaReorder -----------------------------
(***************************************************************************)
(* The Block Ack recipient of the rt2860v2 driver (common/ba_action.c):    *)
(* the table of recipient sessions, the reordering list of each session    *)
(* and the pool of blocks that the lists share.                            *)
(*                                                                         *)
(* A flow is one TID of one station.  Its originator, which is not part of *)
(* this code, keeps the rules of IEEE 802.11: it numbers its frames 0, 1,  *)
(* 2, ... modulo MAXSEQ + 1, has at most one window of them outstanding,   *)
(* repeats a frame until it is acknowledged or given up, and may announce  *)
(* the start of its window with a BlockAckReq.  Frames, acknowledgements   *)
(* and BlockAckReqs may be lost.  The model names a frame by its flow and  *)
(* its unbounded number; the code sees the number modulo MAXSEQ + 1.       *)
(*                                                                         *)
(* Reception and driver timers run in softirq context on one processor,    *)
(* and so do MLME handlers but for those that an iwpriv command runs       *)
(* itself (AutoChannelSel and the like, through ApSiteSurvey), which are   *)
(* taken to do the same: each is one step.  iwpriv BARecTearDown runs in   *)
(* process context: softirqs run whenever it holds no spin_lock_bh, and it *)
(* is a sequence of steps (td.pc).                                         *)
(*                                                                         *)
(* The cast of BufSize to a byte is left out: the window that is granted   *)
(* and the one that is recorded are cast alike.  So is the comparison of   *)
(* the TID with the entry's in BARecSessionTearDown, which is true unless  *)
(* a command was raced or the entry is an orphan.                          *)
(***************************************************************************)
EXTENDS Integers, Sequences, FiniteSets, FiniteSetsExt, SequencesExt

CONSTANTS
    Flows,                    \* pairs of a station (Wcid) and a TID
    MAXSEQ,                   \* the largest sequence number, 2^n - 1
    MAX_LEN_OF_BA_REC_TABLE,  \* entry 0 is reserved
    MAX_REORDERING_MPDU_NUM,  \* blocks in the pool
    RxBAWinLimit,             \* BACapability.field.RxBAWinLimit
    DefaultWin,               \* the window for a request of 0 (64)
    BufSizes,                 \* buffer sizes that ADDBA requests ask for
    FirstFrame,               \* the number of the first frame of a session
    MaxFrames,                \* bound on the frames sent in all sessions
    EapFrames,                \* the frames that carry EAPOL (fRX_EAP)
    NoFlow,                   \* the owner of an entry never used
    MaxAdds,                  \* bound on ADDBA requests that are accepted
    MaxUpsets                 \* bound on iwpriv BARecTearDown commands and
                              \* failures of os_alloc_mem, together

ASSUME ConstantsAssumption ==
    /\ MAXSEQ \in Nat
    /\ MAXSEQ + 1 \in {2, 4, 8, 16, 32, 64, 128, 256, 512, 1024, 2048, 4096}
    /\ MAX_LEN_OF_BA_REC_TABLE \in Nat \ {0, 1}
    /\ MAX_REORDERING_MPDU_NUM \in Nat
    /\ RxBAWinLimit \in Nat /\ DefaultWin \in Nat \ {0} /\ BufSizes \subseteq Nat
    /\ FirstFrame \in Nat
    /\ \A w \in BufSizes \cup {RxBAWinLimit, DefaultWin} : 2 * (w + 1) <= MAXSEQ + 1
    /\ NoFlow \notin Flows
    /\ {MaxFrames, MaxAdds, MaxUpsets} \subseteq Nat

VARIABLES
    rec,      \* pAd->BATable.BARecEntry
    idx,      \* MacTab.Content[Wcid].BARecWcidArray[TID], 0: no session
    sta,      \* whether the MAC table entry of the station is in use
    num,      \* pAd->BATable.numAsRecipient
    pool,     \* length of mpdu_blk_pool.freelist
    td,       \* the iwpriv command that is under way
    orig,     \* the originators
    up,       \* per flow, the frames passed up since the session was added
              \* (seen) and whether one was passed up twice or after a later
              \* one while there was a session
    why,      \* per flow, what was done that may cost frames or their order
    ghost     \* leaked blocks, orphaned entries, whether a command was raced
              \* and the bounded counters

vars == <<rec, idx, sta, num, pool, td, orig, up, why, ghost>>

M == MAXSEQ + 1
RESET == -1            \* RESET_RCV_SEQ (0xFFFF): -1 modulo every 2^n <= 2^16
Entries == 1 .. MAX_LEN_OF_BA_REC_TABLE - 1
Frames == FirstFrame .. FirstFrame + MaxFrames - 1
Causes == {"first", "timeout", "refresh", "direct", "stuck", "again", "behind"}

SEQ_STEPONE(a, b) == a = (b + 1) % M
SEQ_SMALLER(a, b) == (a - b) % M >= M \div 2

(* The Sequence field of a frame's header. *)
Seq12(fr) == fr.n % M

-----------------------------------------------------------------------------
(***************************************************************************)
(* The reordering list of one session.  A handler works on a record c with *)
(* the fields of the session's entry that it uses (LastIndSeq, BAWinSize,  *)
(* list, age), the pool, the frames passed up so far (out) and the causes  *)
(* and leaks recorded for the properties.                                  *)
(***************************************************************************)

(* Mutant of Announce: the blocks are returned twice. *)
AnnounceFreesTwice(c, k) ==
    [c EXCEPT !.out = c.out \o SubSeq(c.list, 1, k),
              !.list = SubSeq(c.list, k + 1, Len(c.list)),
              !.pool = c.pool + 2 * k]

(* Pass the first k frames of the list up and return their blocks. *)
Announce(c, k) ==
    [c EXCEPT !.out = c.out \o SubSeq(c.list, 1, k),
              !.list = SubSeq(c.list, k + 1, Len(c.list)),
              !.pool = c.pool + k]

(* ba_indicate_reordering_mpdus_in_order: the frames that continue seq. *)
InOrder(c, seq) ==
    LET run == {k \in 0 .. Len(c.list) :
                    \A i \in 1 .. k : Seq12(c.list[i]) = (seq + i) % M}
        k == Max(run)
    IN  IF k = 0 THEN c
        ELSE [Announce(c, k) EXCEPT !.LastIndSeq = Seq12(c.list[k])]

(* ba_indicate_reordering_mpdus_le_seq: the frames up to seq. *)
LeSeq(c, seq) ==
    LET run == {k \in 0 .. Len(c.list) :
                    \A i \in 1 .. k : \/ Seq12(c.list[i]) = seq
                                      \/ SEQ_SMALLER(Seq12(c.list[i]), seq)}
    IN  Announce(c, Max(run))

(* ba_refresh_reordering_mpdus: everything, and forget the position. *)
Refresh(c) == [Announce(c, Len(c.list)) EXCEPT !.LastIndSeq = RESET]

(* ba_flush_reordering_timeout_mpdus: age 1 is more than 100 ms since the  *)
(* last frame of the session, age 2 more than 500 ms.                      *)
FlushTimeout(c) ==
    LET seq == (c.LastIndSeq + 1) % M IN
    IF c.age = 2 /\ Len(c.list) > 1
    THEN [Refresh(c) EXCEPT !.why = c.why \cup {"refresh"}]
    ELSE IF c.age >= 1 /\ Len(c.list) > 0
    THEN InOrder([LeSeq(c, seq) EXCEPT !.LastIndSeq = seq,
                                       !.why = c.why \cup {"timeout"}], seq)
    ELSE c

(* Mutants of InsertSorted: a repeated frame is inserted again; its block  *)
(* is not returned; frames are kept in the order of their arrival.         *)
InsertSortedTwice(c, fr) ==
    LET k == Max({j \in 0 .. Len(c.list) :
                    \A i \in 1 .. j : SEQ_SMALLER(Seq12(c.list[i]), Seq12(fr))})
    IN  [c EXCEPT !.list = InsertAt(c.list, k + 1, fr), !.pool = c.pool - 1]

InsertSortedLeaks(c, fr) ==
    IF \E i \in DOMAIN c.list : Seq12(c.list[i]) = Seq12(fr)
    THEN [c EXCEPT !.pool = c.pool - 1]
    ELSE InsertSortedTwice(c, fr)

InsertSortedAppends(c, fr) ==
    [c EXCEPT !.list = Append(c.list, fr), !.pool = c.pool - 1]

(* ba_reordering_mpdu_insertsorted: before the first frame that is neither *)
(* smaller nor the same; a frame that is in the list is not inserted.      *)
InsertSorted(c, fr) ==
    LET k == Max({j \in 0 .. Len(c.list) :
                    \A i \in 1 .. j : SEQ_SMALLER(Seq12(c.list[i]), Seq12(fr))})
    IN  IF k < Len(c.list) /\ Seq12(c.list[k + 1]) = Seq12(fr)
        THEN c
        ELSE [c EXCEPT !.list = InsertAt(c.list, k + 1, fr), !.pool = c.pool - 1]

(* INDICATE_LEGACY_OR_AMSDU: pass the received frame itself up. *)
Indicate(c, fr) == [c EXCEPT !.out = Append(c.out, fr)]

(* "again": the list holds seq, which is passed up with the list although  *)
(* it also arrives, or may still arrive, once more.                        *)
Again(c, seq) ==
    IF \E i \in DOMAIN c.list : Seq12(c.list[i]) = seq THEN {"again"} ELSE {}

(* ba_enqueue_reordering_packet: an EAPOL frame takes a block but is       *)
(* handled as if there were none, and its block is not returned.           *)
Enqueue(c, fr) ==
    IF c.pool > 0 /\ fr.n \notin EapFrames
    THEN InsertSorted(c, fr)
    ELSE LET leak == IF c.pool > 0 THEN 1 ELSE 0
             d == LeSeq([c EXCEPT !.pool = c.pool - leak,
                                  !.leaked = c.leaked + leak], Seq12(fr))
         IN  Indicate([d EXCEPT !.LastIndSeq = Seq12(fr),
                                !.why = d.why \cup {"direct"}
                                              \cup Again(c, Seq12(fr))], fr)

(* Mutant of WinStartSeq: the window ends one frame too early (TmpSeq). *)
WinStartSeqTmpSeq(c, fr) == (Seq12(fr) - c.BAWinSize - 1) % M

(* The window that case V of Indicate_AMPDU_Packet moves to. *)
WinStartSeq(c, fr) == (Seq12(fr) - c.BAWinSize) % M

(* Case IV, a frame inside the window.  "stuck": the frame was passed up   *)
(* directly and its successor stays in the list.                           *)
WithinWindow(c, fr) ==
    LET d == Enqueue(c, fr) IN
    IF d.list # <<>> /\ SEQ_STEPONE(Seq12(Head(d.list)), d.LastIndSeq)
    THEN [d EXCEPT !.why = d.why \cup {"stuck"}] ELSE d

(* Case V, a frame beyond the window: the window moves to end with it. *)
BeyondWindow(c, fr) ==
    LET s == WinStartSeq(c, fr)
        d == Enqueue([LeSeq(c, s) EXCEPT !.LastIndSeq = s], fr)
    IN  InOrder(d, d.LastIndSeq)

(* Indicate_AMPDU_Packet for a flow that has a session; base is the oldest *)
(* frame that the originator has outstanding.                              *)
Indicate_AMPDU(c0, fr, base) ==
    LET c == [FlushTimeout(c0) EXCEPT !.age = 0]
        s == Seq12(fr)
    IN  CASE c.LastIndSeq = RESET ->
                 Indicate([c EXCEPT !.LastIndSeq = s,
                                    !.why = IF fr.n = base THEN c.why
                                            ELSE c.why \cup {"first"}], fr)
          [] c.LastIndSeq # RESET /\ SEQ_STEPONE(s, c.LastIndSeq) ->
                 InOrder(Indicate([c EXCEPT !.LastIndSeq = s], fr), s)
          [] c.LastIndSeq # RESET /\ (s = c.LastIndSeq \/ SEQ_SMALLER(s, c.LastIndSeq)) ->
                 c
          [] OTHER ->
                 IF SEQ_SMALLER(s, (c.LastIndSeq + c.BAWinSize + 1) % M)
                 THEN WithinWindow(c, fr) ELSE BeyondWindow(c, fr)

(* Mutant of BlockAckReq: start is taken for passed up. *)
BlockAckReqPastStart(c, start) ==
    IF SEQ_SMALLER(c.LastIndSeq, start)
    THEN [LeSeq(c, start) EXCEPT !.LastIndSeq = start, !.why = c.why \cup Again(c, start)]
    ELSE c

(* CntlEnqueueForRecv, a BlockAckReq: the frames up to start are passed up,*)
(* start included, and start is the frame that is expected next.           *)
BlockAckReq(c, start) ==
    IF SEQ_SMALLER(c.LastIndSeq, start)
    THEN [LeSeq(c, start) EXCEPT
             !.LastIndSeq = IF start = 0 THEN MAXSEQ ELSE start - 1,
             !.why = c.why \cup Again(c, start)]
    ELSE c

-----------------------------------------------------------------------------
Idle == [pc |-> "idle", flow |-> NoFlow, e |-> 0]
NothingUp == [seen |-> {}, twice |-> FALSE, back |-> FALSE]
NoOrig == [open |-> FALSE, win |-> 0, base |-> FirstFrame, next |-> FirstFrame,
           acked |-> {}]
FreeEntry == [status |-> "NONE", flow |-> NoFlow, LastIndSeq |-> 0,
              BAWinSize |-> 0, list |-> <<>>, age |-> 0]

(* BATableInit and ba_reordering_resource_init. *)
Init ==
    /\ rec = [e \in Entries |-> FreeEntry]
    /\ idx = [f \in Flows |-> 0]
    /\ sta = [f \in Flows |-> TRUE]
    /\ num = 0
    /\ pool = MAX_REORDERING_MPDU_NUM
    /\ td = Idle
    /\ orig = [f \in Flows |-> NoOrig]
    /\ up = [f \in Flows |-> NothingUp]
    /\ why = [f \in Flows |-> {}]
    /\ ghost = [leaked |-> 0, orphans |-> {}, raced |-> FALSE,
                sent |-> 0, adds |-> 0, upsets |-> 0]

(* What a handler for flow f finds in entry e, and what it leaves behind. *)
Ctx(f, e) ==
    [LastIndSeq |-> rec[e].LastIndSeq, BAWinSize |-> rec[e].BAWinSize,
     list |-> rec[e].list, age |-> rec[e].age, pool |-> pool, out |-> <<>>,
     why |-> why[f], leaked |-> ghost.leaked]

Entry(e, c) == [rec[e] EXCEPT !.LastIndSeq = c.LastIndSeq, !.list = c.list,
                              !.age = c.age]

(* Whether a session still promises order: not once its whole list was     *)
(* flushed, a copy is stuck in it, its originator is half of the sequence  *)
(* numbers ahead of it or a command was raced.                             *)
Ordered(f) == /\ ~ghost.raced /\ idx[f] # 0
              /\ why[f] \cap {"refresh", "stuck", "behind"} = {}

(* The history of each flow, extended by the frames passed up; once a      *)
(* command was raced there is no promise left that it could decide.        *)
Passed(out) ==
    IF ghost.raced THEN up ELSE
    [f \in Flows |->
        LET ns == [i \in DOMAIN out |-> IF out[i].flow = f THEN {out[i].n} ELSE {}]
            before(i) == up[f].seen \cup UNION {ns[j] : j \in 1 .. i - 1}
        IN  [seen  |-> up[f].seen \cup UNION Range(ns),
             twice |-> \/ up[f].twice
                       \/ Ordered(f) /\ \E i \in DOMAIN ns : ns[i] \cap before(i) # {},
             back  |-> \/ up[f].back
                       \/ /\ Ordered(f)
                          /\ \E i \in DOMAIN ns : \E n \in ns[i], m \in before(i) : n < m]]

-----------------------------------------------------------------------------
(***************************************************************************)
(* The originators.                                                        *)
(***************************************************************************)
Outstanding(o) == (o.base .. o.next - 1) \ o.acked
MaySendNew(o) == ghost.sent < MaxFrames /\ o.next < o.base + o.win

(* The window starts at the oldest frame that is not acknowledged. *)
Slide(o) == [o EXCEPT !.base = Min({k \in o.base .. o.next : k \notin o.acked})]

Sent(o, n, ack) ==
    Slide([o EXCEPT !.next = IF n = o.next THEN n + 1 ELSE o.next,
                    !.acked = IF ack THEN o.acked \cup {n} ELSE o.acked])

(* "behind": so many frames were lost and given up that the number of the  *)
(* new frame n looks older than the session's position.                    *)
Behind(f, n) ==
    LET last == rec[idx[f]].LastIndSeq IN
    IF n = orig[f].next /\ last # RESET /\ SEQ_SMALLER(n % M, last)
    THEN {"behind"} ELSE {}

(* A new frame is lost on the air. *)
LoseFrame(f) ==
    /\ orig[f].open /\ idx[f] # 0 /\ MaySendNew(orig[f])
    /\ orig' = [orig EXCEPT ![f].next = orig[f].next + 1]
    /\ why' = IF ghost.raced THEN why
              ELSE [why EXCEPT ![f] = why[f] \cup Behind(f, orig[f].next)]
    /\ ghost' = [ghost EXCEPT !.sent = ghost.sent + 1]
    /\ UNCHANGED <<rec, idx, sta, num, pool, td, up>>

(* The originator gives its oldest frame up. *)
GiveUp(f) ==
    /\ orig[f].open /\ idx[f] # 0 /\ orig[f].base < orig[f].next
    /\ orig' = [orig EXCEPT ![f] = Slide([orig[f] EXCEPT !.base = orig[f].base + 1])]
    /\ UNCHANGED <<rec, idx, sta, num, pool, td, up, why, ghost>>

-----------------------------------------------------------------------------
(***************************************************************************)
(* Reception (softirq).                                                    *)
(***************************************************************************)

(* A softirq refills the list of a session between the flush and the       *)
(* removal of a command that tears it down.                                *)
Refilled(e, c) == td.pc = "section" /\ td.e = e /\ c.list # <<>>

Handled(f, e, c, new) ==
    /\ rec' = [rec EXCEPT ![e] = Entry(e, c)]
    /\ pool' = c.pool
    /\ up' = Passed(c.out)
    /\ why' = IF ghost.raced THEN why ELSE [why EXCEPT ![f] = c.why]
    /\ ghost' = [ghost EXCEPT !.leaked = c.leaked,
                              !.sent = IF new THEN ghost.sent + 1 ELSE ghost.sent,
                              !.raced = ghost.raced \/ Refilled(e, c)]

Arriving(f, n) == [Ctx(f, idx[f]) EXCEPT !.why = why[f] \cup Behind(f, n)]

(* Frame n arrives, for the first time or again.  The hardware has         *)
(* acknowledged it; the acknowledgement reaches the originator or not.     *)
Indicate_AMPDU_Packet(f, n, ack) ==
    /\ sta[f] /\ orig[f].open
    /\ n \in Outstanding(orig[f]) \/ (n = orig[f].next /\ MaySendNew(orig[f]))
    /\ idx[f] # 0
    /\ orig' = [orig EXCEPT ![f] = Sent(orig[f], n, ack)]
    /\ Handled(f, idx[f],
               Indicate_AMPDU(Arriving(f, n), [flow |-> f, n |-> n], orig[f].base),
               n = orig[f].next)
    /\ UNCHANGED <<idx, sta, num, td>>

(* "Rec BA Session had been torn down": the frame is passed up at once.    *)
(* The hardware sends no BlockAck for it and the originator, which did not *)
(* hear the DELBA, ends the session too.                                   *)
Indicate_TornDown(f) ==
    /\ sta[f] /\ orig[f].open /\ idx[f] = 0
    /\ orig' = [orig EXCEPT ![f] = NoOrig]
    /\ up' = [up EXCEPT ![f] = NothingUp]
    /\ why' = [why EXCEPT ![f] = {}]
    /\ UNCHANGED <<rec, idx, sta, num, pool, td, ghost>>

(* A BlockAckReq arrives.  Without a session it finds the reserved entry 0,*)
(* whose list is always empty.                                             *)
CntlEnqueueForRecv(f) ==
    /\ sta[f] /\ orig[f].open /\ idx[f] # 0
    /\ Handled(f, idx[f], BlockAckReq(Ctx(f, idx[f]), orig[f].base % M), FALSE)
    /\ UNCHANGED <<idx, sta, num, td, orig>>

(* Time passes without a frame for session e.  Only a list that is not     *)
(* empty looks at it, when the next frame arrives.                         *)
Tick(e) ==
    /\ rec[e].list # <<>> /\ rec[e].age < 2
    /\ rec' = [rec EXCEPT ![e].age = rec[e].age + 1]
    /\ UNCHANGED <<idx, sta, num, pool, td, orig, up, why, ghost>>

-----------------------------------------------------------------------------
(***************************************************************************)
(* Sessions (MLME handlers, softirq).                                      *)
(***************************************************************************)
BAWinSize(buf) ==
    LET w == Min({buf, RxBAWinLimit}) IN IF w = 0 THEN DefaultWin ELSE w

NoneEntries == {e \in Entries : rec[e].status = "NONE"}

(* The entry that BATableAllocRecEntry returns: the first one not in use,  *)
(* or the last of the table if its loop finds none.                        *)
AllocRecEntry ==
    IF NoneEntries = {} THEN MAX_LEN_OF_BA_REC_TABLE - 1 ELSE Min(NoneEntries)

(* BARecSessionAdd fills in the entry e; its list has been flushed to c.   *)
Accepted(f, e, c, buf) ==
    [Entry(e, c) EXCEPT !.status = "Accept", !.flow = f, !.LastIndSeq = RESET,
                        !.BAWinSize = BAWinSize(buf)]

Opened(buf) == [NoOrig EXCEPT !.open = TRUE, !.win = BAWinSize(buf)]

(* PeerAddBAReqAction and BARecSessionAdd.  The response, which grants the *)
(* window BAWinSize, may be lost.                                          *)
PeerAddBAReqAction(f, buf, heard) ==
    /\ sta[f] /\ ghost.adds < MaxAdds
    /\ IF idx[f] = 0 /\ num >= MAX_LEN_OF_BA_REC_TABLE - 1
       THEN UNCHANGED <<rec, idx, num, pool, orig, up, why, ghost>>
       ELSE LET new == idx[f] = 0
                e == IF new THEN AllocRecEntry ELSE idx[f]
                c == IF new THEN Ctx(f, e) ELSE Refresh(Ctx(f, e))
            IN  /\ rec' = [rec EXCEPT ![e] = Accepted(f, e, c, buf)]
                /\ idx' = [idx EXCEPT ![f] = IF new /\ NoneEntries = {} THEN 0 ELSE e]
                /\ num' = IF new /\ NoneEntries # {} THEN num + 1 ELSE num
                /\ pool' = c.pool
                /\ up' = [Passed(c.out) EXCEPT ![f] = NothingUp]
                /\ why' = [why EXCEPT ![f] = {}]
                /\ orig' = [orig EXCEPT ![f] = IF heard THEN Opened(buf) ELSE NoOrig]
                /\ ghost' = [ghost EXCEPT
                       !.adds = ghost.adds + 1,
                       !.raced = \/ ghost.raced
                                 \/ new /\ td.pc # "idle" /\ (td.flow = f \/ td.e = e)]
    /\ UNCHANGED <<sta, td>>

(* BARecSessionTearDown once its DELBA is sent or not needed, with         *)
(* BATableFreeRecEntry.  The originator takes part: the history ends.      *)
BARecSessionTearDown(f) ==
    LET e == idx[f]
        c == Refresh(Ctx(f, e))
    IN  IF e # 0 /\ rec[e].status = "Accept"
        THEN /\ rec' = [rec EXCEPT ![e] = [Entry(e, c) EXCEPT !.BAWinSize = 0,
                                                              !.status = "NONE"]]
             /\ idx' = [g \in Flows |-> IF g \in {f, rec[e].flow} THEN 0 ELSE idx[g]]
             /\ num' = num - 1
             /\ pool' = c.pool
             /\ up' = [Passed(c.out) EXCEPT ![f] = NothingUp]
             /\ why' = [why EXCEPT ![f] = {}]
        ELSE /\ up' = [up EXCEPT ![f] = NothingUp]
             /\ why' = [why EXCEPT ![f] = {}]
             /\ UNCHANGED <<rec, idx, num, pool>>

(* The originator ends the session. *)
PeerDelBAAction(f) ==
    /\ sta[f] /\ orig[f].open
    /\ BARecSessionTearDown(f)
    /\ orig' = [orig EXCEPT ![f] = NoOrig]
    /\ UNCHANGED <<sta, td, ghost>>

(* BASessionTearDownALL: for a session there is a DELBA to send; if the    *)
(* memory for it cannot be had, the session stays.                         *)
BASessionTearDownALL(f, fails) ==
    IF fails
    THEN /\ idx[f] # 0 /\ ghost.upsets < MaxUpsets
         /\ ghost' = [ghost EXCEPT !.upsets = ghost.upsets + 1]
         /\ UNCHANGED <<rec, idx, num, pool, up, why>>
    ELSE BARecSessionTearDown(f) /\ UNCHANGED ghost

(* The station authenticates again. *)
PeerAuth(f, fails) ==
    /\ sta[f] /\ (idx[f] # 0 \/ orig[f].open)
    /\ BASessionTearDownALL(f, fails)
    /\ orig' = [orig EXCEPT ![f] = NoOrig]
    /\ UNCHANGED <<sta, td>>

(* A station is deleted; one without a session has nothing to tear down. *)
MacTableDeleteEntry(f, fails) ==
    /\ sta[f] /\ (idx[f] # 0 \/ orig[f].open)
    /\ BASessionTearDownALL(f, fails)
    /\ sta' = [sta EXCEPT ![f] = FALSE]
    /\ orig' = [orig EXCEPT ![f] = NoOrig]
    /\ UNCHANGED td

(* MacTableInsertEntry zeroes the entry, with what the last user left. *)
MacTableInsertEntry(f) ==
    /\ ~sta[f]
    /\ sta' = [sta EXCEPT ![f] = TRUE]
    /\ idx' = [idx EXCEPT ![f] = 0]
    /\ ghost' = [ghost EXCEPT !.orphans = ghost.orphans \cup ({idx[f]} \ {0})]
    /\ UNCHANGED <<rec, num, pool, td, orig, up, why>>

-----------------------------------------------------------------------------
(***************************************************************************)
(* iwpriv BARecTearDown (process context): BARecSessionTearDown, cut where *)
(* it holds no lock.                                                       *)
(***************************************************************************)

(* The DELBA is sent, and heard or not. *)
TdEnter(f, heard) ==
    /\ td.pc = "idle" /\ sta[f] /\ ghost.upsets < MaxUpsets
    /\ idx[f] # 0 /\ rec[idx[f]].status = "Accept"
    /\ td' = [pc |-> "refresh", flow |-> f, e |-> idx[f]]
    /\ orig' = IF heard THEN [orig EXCEPT ![f] = NoOrig] ELSE orig
    /\ ghost' = [ghost EXCEPT !.upsets = ghost.upsets + 1]
    /\ UNCHANGED <<rec, idx, sta, num, pool, up, why>>

(* Under RxReRingLock. *)
TdRefresh ==
    /\ td.pc = "refresh"
    /\ LET c == Refresh(Ctx(td.flow, td.e)) IN
       /\ rec' = [rec EXCEPT ![td.e] = Entry(td.e, c)]
       /\ pool' = c.pool
       /\ up' = Passed(c.out)
       /\ why' = [why EXCEPT ![td.flow] = c.why \cup {"refresh"}]
    /\ td' = [td EXCEPT !.pc = "section"]
    /\ UNCHANGED <<idx, sta, num, orig, ghost>>

(* Under BATabLock.  RTMP_DEL_BA_SESSION_FROM_ASIC ends the session in the *)
(* hardware: what an originator that did not hear the DELBA has done in    *)
(* the session is of no account any more.                                  *)
TdSection ==
    /\ td.pc = "section"
    /\ rec' = [rec EXCEPT ![td.e].LastIndSeq = RESET, ![td.e].BAWinSize = 0]
    /\ idx' = [idx EXCEPT ![td.flow] = 0]
    /\ td' = [td EXCEPT !.pc = "free"]
    /\ orig' = [orig EXCEPT ![td.flow] = [NoOrig EXCEPT !.open = orig[td.flow].open]]
    /\ up' = [up EXCEPT ![td.flow] = NothingUp]
    /\ why' = [why EXCEPT ![td.flow] = {}]
    /\ UNCHANGED <<sta, num, pool, ghost>>

(* Mutant of TdFree: the entry is not freed. *)
TdFreeForgets ==
    /\ td.pc = "free"
    /\ td' = Idle
    /\ UNCHANGED <<rec, idx, sta, num, pool, orig, up, why, ghost>>

(* BATableFreeRecEntry before it takes BATabLock. *)
TdFree ==
    /\ td.pc = "free"
    /\ IF rec[td.e].status # "NONE"
       THEN /\ idx' = [idx EXCEPT ![rec[td.e].flow] = 0]
            /\ td' = [td EXCEPT !.pc = "dec"]
       ELSE td' = Idle /\ UNCHANGED idx
    /\ UNCHANGED <<rec, sta, num, pool, orig, up, why, ghost>>

TdDec ==
    /\ td.pc = "dec"
    /\ num' = num - 1
    /\ rec' = [rec EXCEPT ![td.e].status = "NONE"]
    /\ td' = Idle
    /\ UNCHANGED <<idx, sta, pool, orig, up, why, ghost>>

-----------------------------------------------------------------------------
Softirq(f) ==
    \/ \E n \in Frames, ack \in BOOLEAN : Indicate_AMPDU_Packet(f, n, ack)
    \/ Indicate_TornDown(f)
    \/ CntlEnqueueForRecv(f)
    \/ \E buf \in BufSizes, heard \in BOOLEAN : PeerAddBAReqAction(f, buf, heard)
    \/ PeerDelBAAction(f)
    \/ \E fails \in BOOLEAN : PeerAuth(f, fails)
    \/ \E fails \in BOOLEAN : MacTableDeleteEntry(f, fails)
    \/ MacTableInsertEntry(f)

Next ==
    \/ \E f \in Flows : Softirq(f) \/ LoseFrame(f) \/ GiveUp(f)
    \/ \E f \in Flows, heard \in BOOLEAN : TdEnter(f, heard)
    \/ TdRefresh \/ TdSection \/ TdFree \/ TdDec
    \/ \E e \in Entries : Tick(e)

Spec == Init /\ [][Next]_vars

-----------------------------------------------------------------------------
FrameType == [flow : Flows, n : Frames]
Windows == 0 .. Max({RxBAWinLimit, DefaultWin})
Numbers == FirstFrame .. FirstFrame + MaxFrames

RecType == [status : {"NONE", "Accept"}, flow : Flows \cup {NoFlow},
            LastIndSeq : {RESET} \cup 0 .. MAXSEQ, BAWinSize : Windows,
            list : Seq(FrameType), age : 0 .. 2]
OrigType == [open : BOOLEAN, win : Windows, base : Numbers, next : Numbers,
             acked : SUBSET Frames]
TdType == [pc : {"refresh", "section", "free", "dec"}, flow : Flows, e : Entries]
UpType == [seen : SUBSET Frames, twice : BOOLEAN, back : BOOLEAN]
GhostType == [leaked : Nat, orphans : SUBSET Entries, raced : BOOLEAN,
              sent : 0 .. MaxFrames, adds : 0 .. MaxAdds, upsets : 0 .. MaxUpsets]

(* Every variable has its type: a position is a sequence number or reset,  *)
(* a window is never larger than granted, and the pool never has more      *)
(* blocks than it was made with.                                           *)
TypeOK ==
    /\ rec \in [Entries -> RecType]
    /\ idx \in [Flows -> 0 .. MAX_LEN_OF_BA_REC_TABLE - 1]
    /\ sta \in [Flows -> BOOLEAN]
    /\ num \in Int
    /\ pool \in 0 .. MAX_REORDERING_MPDU_NUM
    /\ td \in TdType \cup {Idle}
    /\ orig \in [Flows -> OrigType]
    /\ up \in [Flows -> UpType]
    /\ why \in [Flows -> SUBSET Causes]
    /\ ghost \in GhostType

(* The blocks that hold a frame: one for each position of each list. *)
InUse == UNION {{e} \X DOMAIN rec[e].list : e \in Entries}

(* Every block of the pool is free or holds a frame of some list, except   *)
(* those that EAPOL frames took: ba_enqueue_reordering_packet does not     *)
(* return them.  This holds whatever is interrupted.                       *)
BlocksAccounted ==
    pool + ghost.leaked + Cardinality(InUse) = MAX_REORDERING_MPDU_NUM

(* The distance of frame fr from the last frame of session e passed up. *)
Distance(e, fr) == (Seq12(fr) - rec[e].LastIndSeq) % M

(* The list of a session is ordered, without duplicates, inside the window *)
(* and does not hold the next frame; a session without a position and an   *)
(* entry without a session hold nothing, which BARecSessionAdd and         *)
(* Indicate_AMPDU_Packet assert.  Two things break it: a frame passed up   *)
(* directly whose successor stays in the list, and a softirq that refills  *)
(* the list between the steps of iwpriv BARecTearDown.                     *)
ListInWindow ==
    \A e \in Entries \ ghost.orphans :
        LET r == rec[e] IN
        ~ghost.raced /\ r.list # <<>> =>
            /\ r.status = "Accept" /\ r.LastIndSeq # RESET
            /\ "stuck" \notin why[r.flow] =>
                 /\ \A i \in DOMAIN r.list :
                       Distance(e, r.list[i]) \in 2 .. r.BAWinSize
                 /\ \A i \in 1 .. Len(r.list) - 1 :
                       Distance(e, r.list[i]) < Distance(e, r.list[i + 1])

(* What BARecSessionAdd asserts of the entry that it takes for a session:  *)
(* ASSERT(pBAEntry->list.qlen == 0).  The frames that a softirq filed      *)
(* between the flush and the removal of iwpriv BARecTearDown are still in  *)
(* the list when the next ADDBA takes the entry.                           *)
TakenEmpty ==
    [][\A e \in Entries :
          rec[e].status = "NONE" /\ rec'[e].status = "Accept" => rec[e].list = <<>>]_vars

(* The BA table: numAsRecipient counts the entries in use, a flow's index  *)
(* names the entry of its session, and an entry in use is named by its     *)
(* flow.  Broken by an ADDBA in the middle of iwpriv BARecTearDown, and    *)
(* for the entries that MacTableInsertEntry forgets after a tear-down that *)
(* had no memory for its DELBA.                                            *)
TableConsistent ==
    ~ghost.raced =>
        /\ num = Cardinality(Entries \ NoneEntries)
        /\ \A f \in Flows : idx[f] # 0 =>
              rec[idx[f]].status = "Accept" /\ rec[idx[f]].flow = f
        /\ \A e \in Entries \ (NoneEntries \cup ghost.orphans) :
              idx[rec[e].flow] = e \/ (td.pc \in {"free", "dec"} /\ td.e = e)

(* Within a session no frame is passed up after a later one, unless the    *)
(* whole list was flushed after 500 ms (the position is forgotten), a      *)
(* stuck copy surfaces or the originator is half of the sequence numbers   *)
(* ahead.                                                                  *)
NoReorder ==
    \A f \in Flows :
        Ordered(f) => ~up[f].back

(* Within a session no frame is passed up twice ("Drop Duplicated          *)
(* Packet"), unless for the reasons above, or for a frame of the list that *)
(* a BlockAckReq starts at (it is passed up and then expected again) or    *)
(* that arrives again when the pool is empty.                              *)
NoDuplicate ==
    \A f \in Flows :
        Ordered(f) /\ "again" \notin why[f] => ~up[f].twice

(* A frame that the originator knows to be acknowledged has been passed up *)
(* or waits in the list: neither the moves of the window (cases IV and V)  *)
(* nor BlockAckReqs skip a frame that may still be repeated.  What does:   *)
(* the 100 ms timeout, the first frame after a reset not being the oldest, *)
(* frames passed up directly, and an originator so far ahead that its new  *)
(* frames look old and are dropped.                                        *)
AckedNotLost ==
    \A f \in Flows :
        ~ghost.raced /\ why[f] \cap {"first", "timeout", "direct", "behind"} = {} =>
            \A n \in orig[f].acked :
                \/ n \in up[f].seen
                \/ \E e \in Entries : \E i \in DOMAIN rec[e].list :
                        rec[e].list[i] = [flow |-> f, n |-> n]
=============================================================================
