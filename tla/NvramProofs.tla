----------------------------- MODULE NvramProofs -----------------------------
(***************************************************************************)
(* Theorems about the NVRAM for any number of blocks, processes and        *)
(* settings, and for any number of power cuts and failed flash writes.     *)
(***************************************************************************)
EXTENDS Nvram, TLAPS

W == write.block

\* The buffer that is being written holds the cache of its block, or it is all
\* ones and the cache is empty: nobody else touches either before the semaphore
\* is released.
BufferFixed ==
  Writing =>
    \/ /\ env[W] = fb[W].cache
       /\ Junk \notin DOMAIN env[W]
    \/ env[W] = Ones /\ fb[W].cache = Empty

\* What another block holds while the sector is written: what it held before,
\* or nothing once a call of ra_mtd_write_nm has failed.
Untouched(f, b) == Readable(f) = write.before[b]
Kept(f, b, failed) == Untouched(f, b) \/ (failed /\ f = ErasedBlock)

\* The block that is written, after the call for the CRC and the one for the
\* data.
CrcDone(f, failed) == f.crc = env[W] \/ (failed /\ Kept(f, W, TRUE))
DataWritten(f) == f.data = env[W] /\ (write.failed \/ f.crc = env[W])

\* The sector before the erase of the current call of ra_mtd_write_nm.
BeforeErase(s) ==
  /\ \A b \in Blocks \ {W} : Kept(s[b], b, write.failed)
  /\ IF write.part = "crc" THEN Untouched(s[W], W) /\ ~write.failed
     ELSE CrcDone(s[W], write.failed)

\* The sector that the current call is going to leave behind.
AfterProgram(s) ==
  /\ \A b \in Blocks \ {W} : Kept(s[b], b, write.failed)
  /\ IF write.part = "crc" THEN s[W].crc = env[W] /\ ~write.failed
     ELSE DataWritten(s[W])

SectorWritten ==
  Writing =>
    IF write.next = 0 THEN BeforeErase(flash)
    ELSE /\ AfterProgram(write.bak)
         /\ \A b \in Blocks : flash[b] = IF b < write.next THEN write.bak[b]
                                         ELSE ErasedBlock

\* No junk is ever on the flash: it cannot be committed.
FlashClean ==
  /\ \A b \in Blocks : flash[b].data # Ones => Junk \notin DOMAIN flash[b].data
  /\ Writing /\ write.next > 0 =>
       \A b \in Blocks : write.bak[b].data # Ones => Junk \notin DOMAIN write.bak[b].data

\* A block that is neither dirty nor lost is on the flash as in the cache.
Clean(b, content) ==
  fb[b].dirty \/ content = fb[b].cache \/ fb[b].cache = JunkCache

CleanSaved ==
  IF Writing
  THEN \A b \in Blocks \ (ghost.unsaved \cup {W}) : Clean(b, write.before[b])
  ELSE \A b \in Blocks \ ghost.unsaved : Clean(b, Readable(flash[b]))

KInv == TypeOK /\ BufferFixed /\ SectorWritten /\ FlashClean /\ CleanSaved

-----------------------------------------------------------------------------
(* The operators                                                           *)

LEMMA ContentsDef ==
  ASSUME NEW c
  PROVE  c \in Contents <=> \E S \in SUBSET (Names \cup {Junk}) : c \in [S -> Values]
  BY DEF Contents

LEMMA EmptyContents == Empty \in Contents /\ JunkCache \in Contents
  <1>1. Empty \in [{} -> Values] /\ JunkCache \in [{Junk} -> Values]
    BY DEF Empty, JunkCache, Values
  <1> QED
    BY <1>1, ContentsDef

LEMMA ContentOf ==
  ASSUME NEW c \in Contents
  PROVE  /\ DOMAIN c \subseteq Names \cup {Junk}
         /\ \A n \in DOMAIN c : c[n] \in Values
         /\ c # Ones
  <1>1. PICK S \in SUBSET (Names \cup {Junk}) : c \in [S -> Values]
    BY ContentsDef
  <1>2. c # Ones
    BY ConstantsAssumption DEF ConstantsAssumption
  <1> QED
    BY <1>1, <1>2

LEMMA WithContent ==
  ASSUME NEW c \in Contents, NEW n \in Names, NEW v \in Values
  PROVE  With(c, n, v) \in Contents /\ DOMAIN With(c, n, v) = DOMAIN c \cup {n}
  <1>1. With(c, n, v) \in [DOMAIN c \cup {n} -> Values]
    BY ContentOf DEF With
  <1>2. DOMAIN c \cup {n} \in SUBSET (Names \cup {Junk})
    BY ContentOf
  <1> QED
    BY <1>1, <1>2, ContentsDef

LEMMA FlashContent ==
  ASSUME NEW f \in FlashRecord
  PROVE  /\ Readable(f) \in Contents
         /\ \A c \in Parse(f) : c \in Contents
         /\ ErasedBlock \in FlashRecord
  BY EmptyContents DEF FlashRecord, Readable, Parse, ErasedBlock

\* One holder of the semaphore at a time.
LEMMA Holders == (Semaphore => ~Writing) /\ (sem = Oops => ~Writing /\ ~Semaphore)
  BY ConstantsAssumption DEF ConstantsAssumption, Semaphore, Writing

LEMMA NewLibType == NewLib \in LibRecord
  BY ConstantsAssumption DEF ConstantsAssumption, NewLib, LibRecord, Calls, Values

LEMMA NoLoadType == NoLoad \in LoadRecord
  BY DEF NoLoad, LoadRecord

LEMMA LibParsed ==
  ASSUME NEW l \in LibRecord, NEW names \in SUBSET (Names \cup {Junk})
  PROVE  Parsed(l, names) \in LibRecord
  BY DEF Parsed, LibRecord

LEMMA LibReturns ==
  ASSUME NEW l \in LibRecord
  PROVE  Returned(l) \in LibRecord /\ Committed(l) \in LibRecord
  <1>1. ASSUME NEW m \in LibRecord PROVE Returned(m) \in LibRecord
    BY NewLibType DEF Returned, NewLib, LibRecord
  <1>2. [l EXCEPT !.dirty = FALSE] \in LibRecord
    BY DEF LibRecord
  <1> QED
    BY <1>1, <1>2, NewLibType DEF Committed

LEMMA FreedType ==
  ASSUME NEW l \in [All -> LibRecord], NEW block, NEW names
  PROVE  Freed(l, block, names) \in [All -> LibRecord]
  <1>1. ASSUME NEW q \in All PROVE [l[q] EXCEPT !.ptr = "freed"] \in LibRecord
    BY DEF LibRecord
  <1> QED
    BY <1>1 DEF Freed

LEMMA NoWriteType == NoWrite \in WriteRecord
  <1>1. [b \in Blocks |-> ErasedBlock] \in [Blocks -> FlashRecord]
    BY DEF ErasedBlock, FlashRecord
  <1>2. [b \in Blocks |-> Empty] \in [Blocks -> Contents]
    BY EmptyContents
  <1> QED
    BY <1>1, <1>2, ConstantsAssumption DEF ConstantsAssumption, NoWrite, WriteRecord

-----------------------------------------------------------------------------
(* Type correctness                                                        *)

LEMMA TypeInit == Init => TypeOK
  <1> SUFFICES ASSUME Init PROVE TypeOK
    OBVIOUS
  <1> USE DEF Init
  <1>1. flash \in [Blocks -> FlashRecord]
    <2>1. ASSUME NEW b \in Blocks, Factory[b] # Ones
          PROVE  [crc |-> Factory[b], data |-> Factory[b]] \in FlashRecord
      BY <2>1, ConstantsAssumption DEF ConstantsAssumption, FlashRecord
    <2> QED
      BY <2>1 DEF ErasedBlock, FlashRecord
  <1>2. fb \in [Blocks -> [cache : Contents, dirty : BOOLEAN]]
    BY <1>1, FlashContent
  <1>3. env \in [Blocks -> Contents \cup {Ones}]
    BY <1>2
  <1>4. lib \in [All -> LibRecord]
    BY NewLibType
  <1>5. budget \in [uses : Nat, faults : Nat]
    BY ConstantsAssumption DEF ConstantsAssumption
  <1>6. load \in [All -> LoadRecord]
    BY NoLoadType
  <1>7. ghost \in [spoilt : BOOLEAN, unsaved : SUBSET Blocks]
    OBVIOUS
  <1> QED
    BY <1>1, <1>2, <1>3, <1>4, <1>5, <1>6, <1>7, NoWriteType DEF TypeOK

\* The sector after a flash write that has stopped: no block is a new one.
LEMMA StoppedBlocks ==
  ASSUME TypeOK, NEW s \in Stopped
  PROVE  /\ s \in [Blocks -> FlashRecord]
         /\ \A b \in Blocks : s[b] = flash[b] \/ s[b] = ErasedBlock
  <1>0. ErasedBlock \in FlashRecord
    BY DEF ErasedBlock, FlashRecord
  <1>1. CASE write.next = 0
    <2>1. PICK wiped \in SUBSET Blocks :
            s = [b \in Blocks |-> IF b \in wiped THEN ErasedBlock ELSE flash[b]]
      BY <1>1 DEF Stopped
    <2> QED
      BY <1>0, <2>1 DEF TypeOK
  <1>2. CASE write.next # 0
    BY <1>2 DEF Stopped, TypeOK
  <1> QED
    BY <1>1, <1>2

LEMMA BootFlash ==
  ASSUME TypeOK, Boot
  PROVE  /\ flash' \in [Blocks -> FlashRecord]
         /\ \A b \in Blocks : flash'[b] = flash[b] \/ (Writing /\ flash'[b] = ErasedBlock)
         /\ \A b \in Blocks : fb'[b].cache \in Parse(flash'[b])
  <1>1. flash' \in IF Writing THEN Stopped ELSE {flash}
    BY DEF Boot
  <1>2. \A b \in Blocks : fb'[b].cache \in Parse(flash'[b])
    BY DEF Boot
  <1> QED
    BY <1>1, <1>2, StoppedBlocks DEF TypeOK

LEMMA TypeBoot == ASSUME TypeOK, Boot, budget' \in [uses : Nat, faults : Nat]
                  PROVE  TypeOK'
  <1>1. PICK c \in [Blocks -> UNION {Parse(flash'[b]) : b \in Blocks}] :
           /\ \A b \in Blocks : c[b] \in Parse(flash'[b])
           /\ fb' = [b \in Blocks |-> [cache |-> c[b], dirty |-> FALSE]]
           /\ env' = c
    BY DEF Boot
  <1>2. \A b \in Blocks : c[b] \in Contents
    BY <1>1, BootFlash, FlashContent
  <1>3. fb' \in [Blocks -> [cache : Contents, dirty : BOOLEAN]]
        /\ env' \in [Blocks -> Contents \cup {Ones}]
    BY <1>1, <1>2
  <1>4. lib' \in [All -> LibRecord]
    BY NewLibType DEF Boot
  <1>5. load' \in [All -> LoadRecord]
    BY NoLoadType DEF Boot
  <1>6. ghost' \in [spoilt : BOOLEAN, unsaved : SUBSET Blocks]
    BY DEF Boot, TypeOK
  <1> QED
    BY <1>3, <1>4, <1>5, <1>6, BootFlash, NoWriteType DEF Boot, TypeOK

LEMMA TypeCall ==
  ASSUME TypeOK, NEW p \in All, NEW call \in Calls, NEW n \in Names, NEW v \in Values,
         Call(p, call, n, v)
  PROVE  lib' \in [All -> LibRecord]
  <1> DEFINE at == IF lib[p].valid \/ call \in {"close", "clear"} THEN call ELSE "init"
             l == [lib[p] EXCEPT !.at = at, !.call = call, !.name = n, !.value = v]
  <1>1. lib' = [lib EXCEPT ![p] = l]
    BY DEF Call
  <1>2. lib[p] \in LibRecord /\ at \in Calls \cup {"init"}
    BY DEF TypeOK
  <1>3. l \in LibRecord
    BY <1>2 DEF LibRecord
  <1> QED
    BY <1>1, <1>3 DEF TypeOK

\* The write of a flash block begins, or a call of ra_mtd_write_nm returns.
LEMMA TypeBegin ==
  ASSUME TypeOK, NEW p \in All, NEW data \in Contents \cup {Ones}, BeginWrite(p, data)
  PROVE  /\ env' \in [Blocks -> Contents \cup {Ones}]
         /\ sem' \in All \cup {None, Oops} /\ write' \in WriteRecord
  <1>1. BlockOf[p] \in Blocks
    BY ConstantsAssumption DEF ConstantsAssumption
  <1>2. [b \in Blocks |-> Readable(flash[b])] \in [Blocks -> Contents]
    BY FlashContent DEF TypeOK
  <1>3. write' \in WriteRecord
    BY <1>1, <1>2, NoWriteType DEF BeginWrite, WriteRecord
  <1>4. env' \in [Blocks -> Contents \cup {Ones}]
    BY <1>1 DEF BeginWrite, TypeOK
  <1> QED
    BY <1>3, <1>4 DEF BeginWrite

LEMMA TypeWriteReturns ==
  ASSUME TypeOK, Writing, NEW failed \in BOOLEAN, WriteReturns(failed)
  PROVE  /\ fb' \in [Blocks -> [cache : Contents, dirty : BOOLEAN]]
         /\ sem' \in All \cup {None, Oops} /\ write' \in WriteRecord
         /\ lib' \in [All -> LibRecord]
         /\ ghost' \in [spoilt : BOOLEAN, unsaved : SUBSET Blocks]
  <1> USE DEF TypeOK
  <1>0. sem \in All /\ write.block \in Blocks
    BY DEF Writing, WriteRecord
  <1>1. CASE write.part = "crc"
    <2>1. write' = [write EXCEPT !.part = "data", !.next = 0, !.failed = failed]
      BY <1>1 DEF WriteReturns
    <2>2. 0 \in 0 .. FLASH_BLOCK_NUM
      BY ConstantsAssumption DEF ConstantsAssumption
    <2>3. write' \in WriteRecord
      BY <2>1, <2>2 DEF WriteRecord
    <2> QED
      BY <1>1, <2>3 DEF WriteReturns
  <1>2. CASE write.part # "crc"
    <2>1. fb' \in [Blocks -> [cache : Contents, dirty : BOOLEAN]]
      <3>1. fb' = [fb EXCEPT ![write.block].dirty = FALSE]
        BY <1>2 DEF WriteReturns
      <3> QED
        BY <1>0, <3>1
    <2>2. lib' \in [All -> LibRecord]
      BY <1>0, <1>2, LibReturns DEF WriteReturns
    <2>3. ghost' \in [spoilt : BOOLEAN, unsaved : SUBSET Blocks]
      BY <1>0, <1>2 DEF WriteReturns
    <2> QED
      BY <1>2, <2>1, <2>2, <2>3, NoWriteType DEF WriteReturns
  <1> QED
    BY <1>1, <1>2

LEMMA TypeFlash == TypeOK /\ FlashStep => TypeOK'
  <1> SUFFICES ASSUME TypeOK, FlashStep PROVE TypeOK'
    OBVIOUS
  <1> USE DEF TypeOK, daemon, loader
  <1>0. write.block \in Blocks /\ write.failed \in BOOLEAN /\ write.bak \in [Blocks -> FlashRecord]
    BY DEF WriteRecord
  <1>1. CASE Erase
    <2>1. flash' \in [Blocks -> FlashRecord]
      BY <1>1 DEF Erase, ErasedBlock, FlashRecord
    <2>2. Patch(flash[write.block]) \in FlashRecord
      <3>1. flash[write.block] \in FlashRecord /\ env[write.block] \in Contents \cup {Ones}
        BY <1>0
      <3> QED
        BY <3>1 DEF Patch, FlashRecord
    <2>3. 1 \in 0 .. FLASH_BLOCK_NUM
      BY ConstantsAssumption DEF ConstantsAssumption, Blocks
    <2>4. write' \in WriteRecord
      BY <1>1, <2>2, <2>3 DEF Erase, WriteRecord
    <2> QED
      BY <1>1, <2>1, <2>4 DEF Erase
  <1>2. CASE Program
    <2>1. write.next \in Blocks
      BY <1>2 DEF Program, WriteRecord, Blocks
    <2>2. flash' \in [Blocks -> FlashRecord]
      BY <1>0, <1>2, <2>1 DEF Program
    <2>3. CASE write.next < FLASH_BLOCK_NUM
      <3>1. write.next + 1 \in 0 .. FLASH_BLOCK_NUM
        BY <2>3, ConstantsAssumption DEF ConstantsAssumption, WriteRecord
      <3>2. write' \in WriteRecord
        BY <1>2, <2>3, <3>1 DEF Program, WriteRecord
      <3> QED
        BY <1>2, <2>2, <2>3, <3>2 DEF Program
    <2>4. CASE ~(write.next < FLASH_BLOCK_NUM)
      <3>1. WriteReturns(write.failed) /\ Writing
        BY <1>2, <2>4 DEF Program
      <3> QED
        BY <1>0, <1>2, <2>2, <3>1, TypeWriteReturns DEF Program
    <2> QED
      BY <2>3, <2>4
  <1>3. CASE WriteFails
    <2>1. WriteReturns(TRUE) /\ Writing
      BY <1>3 DEF WriteFails
    <2>2. budget' \in [uses : Nat, faults : Nat]
      BY <1>3 DEF WriteFails
    <2> QED
      BY <1>3, <2>1, <2>2, TypeWriteReturns, StoppedBlocks DEF WriteFails
  <1> QED
    BY <1>1, <1>2, <1>3 DEF FlashStep

LEMMA TypeLib == ASSUME TypeOK, NEW p \in All, LibStep(p) PROVE TypeOK'
  <1> USE DEF TypeOK, daemon, loader, kernel
  <1>0. /\ BlockOf[p] \in Blocks /\ lib[p] \in LibRecord
        /\ fb[BlockOf[p]].cache \in Contents
    BY ConstantsAssumption DEF ConstantsAssumption
  <1>1. CASE GetAll(p)
    <2>1. env' \in [Blocks -> Contents \cup {Ones}]
      BY <1>0, <1>1 DEF GetAll
    <2>2. lib' \in [All -> LibRecord]
      BY <1>0, <1>1 DEF GetAll, LibRecord
    <2> QED
      BY <1>1, <2>1, <2>2 DEF GetAll
  <1>2. CASE ParseAll(p)
    <2> DEFINE data == env[BlockOf[p]]
    <2>1. PICK names \in IF data = Ones THEN {{}, {Junk}} ELSE {DOMAIN data} :
            lib' = [lib EXCEPT ![p] = Parsed(lib[p], names)]
      BY <1>2 DEF ParseAll
    <2>2. names \in SUBSET (Names \cup {Junk})
      BY <1>0, <2>1, ContentOf
    <2>3. lib' \in [All -> LibRecord]
      BY <1>0, <2>1, <2>2, LibParsed
    <2> QED
      BY <1>2, <2>3 DEF ParseAll
  <1>3. CASE Get(p)
    <2> DEFINE cache == fb[BlockOf[p]].cache
               ptr == IF lib[p].name \in DOMAIN cache THEN cache[lib[p].name] ELSE ""
    <2>1. ptr \in Values \cup {""}
      BY <1>0, ContentOf
    <2>2. lib' = [lib EXCEPT ![p] = [lib[p] EXCEPT !.at = "copy", !.ptr = ptr]]
      BY <1>3 DEF Get
    <2>3. lib' \in [All -> LibRecord]
      BY <1>0, <2>1, <2>2 DEF LibRecord
    <2> QED
      BY <1>3, <2>3 DEF Get
  <1>4. CASE Set(p)
    <2> DEFINE b == BlockOf[p]
               n == lib[p].name
               own == lib[p].cache
               r == IF n \notin own /\ Full(own) THEN Returned(lib[p])
                    ELSE Returned([lib[p] EXCEPT !.cache = own \cup {n}, !.dirty = TRUE])
    <2>1. NvramSet(fb[b], n, lib[p].value) \in [cache : Contents, dirty : BOOLEAN]
      BY <1>0, WithContent DEF NvramSet, LibRecord
    <2>2. fb' \in [Blocks -> [cache : Contents, dirty : BOOLEAN]]
      BY <1>0, <1>4, <2>1 DEF Set
    <2>3. [lib[p] EXCEPT !.cache = own \cup {n}, !.dirty = TRUE] \in LibRecord
      BY <1>0 DEF LibRecord
    <2>4. r \in LibRecord
      BY <1>0, <2>3, LibReturns
    <2>5. lib' = Freed([lib EXCEPT ![p] = r], b, {n})
      BY <1>4 DEF Set
    <2>6. lib' \in [All -> LibRecord]
      BY <2>4, <2>5, FreedType
    <2>7. ghost' \in [spoilt : BOOLEAN, unsaved : SUBSET Blocks]
      BY <1>4 DEF Set
    <2> QED
      BY <1>4, <2>2, <2>6, <2>7 DEF Set
  <1>5. CASE CommitClean(p)
    BY <1>0, <1>5, LibReturns DEF CommitClean
  <1>6. CASE CommitDirty(p)
    <2>1. lib' \in [All -> LibRecord]
      BY <1>0, <1>6 DEF CommitDirty, LibRecord
    <2>2. ghost' \in [spoilt : BOOLEAN, unsaved : SUBSET Blocks]
      BY <1>6 DEF CommitDirty
    <2>3. BeginWrite(p, fb[BlockOf[p]].cache)
      BY <1>6 DEF CommitDirty
    <2> QED
      BY <1>0, <1>6, <2>1, <2>2, <2>3, TypeBegin DEF CommitDirty, BeginWrite
  <1>7. CASE Close(p)
    <2>1. [lib[p] EXCEPT !.at = "commit"] \in LibRecord
      BY <1>0 DEF LibRecord, Calls
    <2> QED
      BY <1>0, <1>7, <2>1, LibReturns DEF Close
  <1>8. CASE Clear(p)
    <2>1. [lib EXCEPT ![p].at = "flash"] \in [All -> LibRecord]
      BY <1>0 DEF LibRecord
    <2>2. lib' \in [All -> LibRecord]
      BY <1>8, <2>1, FreedType DEF Clear
    <2>3. fb' \in [Blocks -> [cache : Contents, dirty : BOOLEAN]]
      BY <1>0, <1>8, EmptyContents DEF Clear
    <2>4. BeginWrite(p, Ones)
      BY <1>8 DEF Clear
    <2>5. ghost' \in [spoilt : BOOLEAN, unsaved : SUBSET Blocks]
      BY <1>8 DEF Clear
    <2> QED
      BY <1>8, <2>2, <2>3, <2>4, <2>5, TypeBegin DEF Clear, BeginWrite
  <1>9. CASE GetAllFails(p)
    <2>1. PICK names \in SUBSET (Names \cup {Junk}) :
            lib' = [lib EXCEPT ![p] = Parsed(lib[p], names)]
      BY <1>9 DEF GetAllFails
    <2>2. lib' \in [All -> LibRecord]
      BY <1>0, <2>1, LibParsed
    <2>3. env' \in [Blocks -> Contents \cup {Ones}]
      BY <1>0, <1>9 DEF GetAllFails
    <2> QED
      BY <1>9, <2>2, <2>3 DEF GetAllFails
  <1>10. CASE CommitFails(p)
    <2>1. env' \in [Blocks -> Contents \cup {Ones}]
      BY <1>0, <1>10 DEF CommitFails
    <2> QED
      BY <1>0, <1>10, <2>1, LibReturns DEF CommitFails
  <1>11. CASE Overrun(p)
    <2>1. env' \in [Blocks -> Contents \cup {Ones}]
      BY <1>0, <1>11 DEF Overrun
    <2>2. lib' \in [All -> LibRecord]
      BY <1>0, <1>11 DEF Overrun, LibRecord
    <2> QED
      BY <1>11, <2>1, <2>2 DEF Overrun
  <1> QED
    BY <1>1, <1>2, <1>3, <1>4, <1>5, <1>6, <1>7, <1>8, <1>9, <1>10, <1>11 DEF LibStep

LEMMA TypeStartLoad ==
  ASSUME TypeOK, NEW p \in All, NEW file \in Seq(Names), NEW upload \in BOOLEAN,
         StartLoad(p, file, upload)
  PROVE  lib' \in [All -> LibRecord] /\ load' \in [All -> LoadRecord]
         /\ rebooting' \in BOOLEAN
  <1>1. [NewLib EXCEPT !.at = "clear", !.call = "clear"] \in LibRecord
    BY NewLibType DEF LibRecord, Calls
  <1>2. [at |-> "renew", file |-> file, done |-> 0, upload |-> upload] \in LoadRecord
    BY DEF LoadRecord
  <1> QED
    BY <1>1, <1>2 DEF TypeOK, StartLoad

LEMMA TypeLoad == ASSUME TypeOK, NEW p \in All, LoadStep(p) PROVE TypeOK'
  <1> USE DEF kernel, daemon, loader
  <1>0. /\ WebInit \in Names /\ "1" \in Values /\ load[p] \in LoadRecord
        /\ load \in [All -> LoadRecord]
    BY ConstantsAssumption DEF ConstantsAssumption, TypeOK, Values
  <1>1. ASSUME load' = [load EXCEPT ![p].at = "end"] PROVE load' \in [All -> LoadRecord]
    BY <1>0, <1>1 DEF LoadRecord
  <1>2. CASE RenewSet(p)
    <2> DEFINE n == load[p].file[load[p].done + 1]
    <2>1. n \in Names
      BY <1>0, <1>2 DEF RenewSet, LoadRecord
    <2> HIDE DEF n
    <2>2. PICK v \in Values : Call(p, "set", n, v)
      BY <1>0, <1>2 DEF RenewSet, n
    <2>3. lib' \in [All -> LibRecord]
      BY <2>1, <2>2, TypeCall DEF Calls
    <2>4. load' \in [All -> LoadRecord]
      <3>1. load[p].done + 1 \in Nat
        BY <1>0 DEF LoadRecord
      <3>2. [load[p] EXCEPT !.done = load[p].done + 1] \in LoadRecord
        BY <1>0, <3>1 DEF LoadRecord
      <3>3. load' = [load EXCEPT ![p] = [load[p] EXCEPT !.done = load[p].done + 1]]
        BY <1>0, <1>2 DEF RenewSet
      <3> QED
        BY <1>0, <3>2, <3>3
    <2> QED
      BY <1>2, <2>3, <2>4 DEF TypeOK, RenewSet
  <1>3. CASE RenewCommit(p)
    <2>1. lib' \in [All -> LibRecord]
      BY <1>0, <1>3, TypeCall DEF RenewCommit, Calls
    <2>2. load' \in [All -> LoadRecord]
      BY <1>1, <1>3 DEF RenewCommit
    <2> QED
      BY <1>3, <2>1, <2>2 DEF TypeOK, RenewCommit
  <1>4. CASE RenewFails(p)
    <2>1. load' \in [All -> LoadRecord]
      BY <1>1, <1>4 DEF RenewFails
    <2> QED
      BY <1>4, <2>1 DEF TypeOK, RenewFails
  <1>5. CASE LoadEnds(p)
    BY <1>0, <1>5, NoLoadType, NewLibType DEF TypeOK, LoadEnds
  <1> QED
    BY <1>2, <1>3, <1>4, <1>5 DEF LoadStep

LEMMA TypeDaemon == TypeOK /\ (DaemonStep \/ Restore \/ Reboot \/ PowerCut) => TypeOK'
  <1> SUFFICES ASSUME TypeOK, DaemonStep \/ Restore \/ Reboot \/ PowerCut PROVE TypeOK'
    OBVIOUS
  <1>0. /\ Daemon \in All /\ WebInit \in Names /\ "1" \in Values
        /\ lib[Daemon] \in LibRecord /\ Defaults \in Seq(Names)
    BY ConstantsAssumption DEF ConstantsAssumption, TypeOK, All, Values
  <1> USE DEF kernel, daemon, loader
  <1>1. CASE Check
    <2>1. lib' \in [All -> LibRecord]
      BY <1>0, <1>1, TypeCall DEF Check, Calls
    <2> QED
      BY <1>1, <2>1 DEF TypeOK, Check
  <1>2. CASE TestPasses
    BY <1>0, <1>2, LibReturns DEF TypeOK, TestPasses, GetReturns
  <1>3. CASE LoadDefault
    <2>1. lib' \in [All -> LibRecord] /\ load' \in [All -> LoadRecord] /\ rebooting' \in BOOLEAN
      BY <1>0, <1>3, TypeStartLoad DEF LoadDefault
    <2> QED
      BY <1>3, <2>1 DEF TypeOK, LoadDefault
  <1>4. CASE LoadStep(Daemon)
    BY <1>0, <1>4, TypeLoad
  <1>5. CASE InitGpio
    BY <1>5 DEF TypeOK, InitGpio
  <1>6. CASE DaemonClose
    <2>1. lib' \in [All -> LibRecord]
      BY <1>0, <1>6, TypeCall DEF DaemonClose, Calls
    <2> QED
      BY <1>6, <2>1 DEF TypeOK, DaemonClose
  <1>7. CASE WritePid
    BY <1>7 DEF TypeOK, WritePid
  <1>8. CASE Reboot
    BY <1>8, TypeBoot DEF TypeOK, Reboot
  <1>9. CASE Restore
    <2>1. lib' \in [All -> LibRecord] /\ load' \in [All -> LoadRecord] /\ rebooting' \in BOOLEAN
      BY <1>0, <1>9, TypeStartLoad DEF Restore
    <2>2. budget' \in [uses : Nat, faults : Nat]
      BY <1>9 DEF TypeOK, Restore
    <2> QED
      BY <1>9, <2>1, <2>2 DEF TypeOK, Restore
  <1>10. CASE PowerCut
    <2>1. budget' \in [uses : Nat, faults : Nat]
      BY <1>10 DEF TypeOK, PowerCut
    <2> QED
      BY <1>10, <2>1, TypeBoot DEF PowerCut
  <1> QED
    BY <1>1, <1>2, <1>3, <1>4, <1>5, <1>6, <1>7, <1>8, <1>9, <1>10 DEF DaemonStep

LEMMA TypeProc == ASSUME TypeOK, NEW p \in Procs, ProcStep(p) PROVE TypeOK'
  <1> USE DEF kernel, daemon, loader
  <1>0. /\ p \in All /\ WebInit \in Names /\ "1" \in Values /\ UserValues \subseteq Values
        /\ Defaults \in Seq(Names) /\ UserFiles \subseteq Seq(Names)
    BY ConstantsAssumption DEF ConstantsAssumption, All, Values
  <1>a. ASSUME NEW call \in Calls, NEW n \in Names, NEW v \in Values, ProcCalls(p, call, n, v)
        PROVE  lib' \in [All -> LibRecord]
    BY <1>0, <1>a, TypeCall DEF ProcCalls
  <1>b. ASSUME NEW file \in Seq(Names), NEW upload \in BOOLEAN, ProcLoads(p, file, upload),
               ghost' \in [spoilt : BOOLEAN, unsaved : SUBSET Blocks]
        PROVE  TypeOK'
    <2>1. lib' \in [All -> LibRecord] /\ load' \in [All -> LoadRecord] /\ rebooting' \in BOOLEAN
      BY <1>0, <1>b, TypeStartLoad DEF ProcLoads
    <2>2. budget' \in [uses : Nat, faults : Nat]
      BY <1>b DEF TypeOK, ProcLoads
    <2> QED
      BY <1>b, <2>1, <2>2 DEF TypeOK, ProcLoads
  <1>1. CASE ProcGets(p)
    <2>1. lib' \in [All -> LibRecord]
      <3>1. CASE GetReturns(p)
        BY <1>0, <3>1, LibReturns DEF TypeOK, GetReturns
      <3>2. CASE \E n \in Names : ProcCalls(p, "get", n, "1")
        BY <1>0, <3>2, <1>a DEF Calls
      <3> QED
        BY <1>1, <3>1, <3>2 DEF ProcGets
    <2> QED
      BY <1>1, <2>1 DEF TypeOK, ProcGets
  <1>2. CASE ProcSets(p)
    <2>1. lib' \in [All -> LibRecord]
      BY <1>0, <1>2, <1>a DEF ProcSets, Calls
    <2>2. budget' \in [uses : Nat, faults : Nat]
      BY <1>2 DEF TypeOK, ProcSets
    <2> QED
      BY <1>2, <2>1, <2>2 DEF TypeOK, ProcSets
  <1>3. CASE ProcCommits(p)
    <2>1. lib' \in [All -> LibRecord]
      BY <1>0, <1>3, <1>a DEF ProcCommits, Calls
    <2> QED
      BY <1>3, <2>1 DEF TypeOK, ProcCommits
  <1>4. CASE ProcCloses(p)
    <2>1. lib' \in [All -> LibRecord]
      BY <1>0, <1>4, <1>a DEF ProcCloses, Calls
    <2> QED
      BY <1>4, <2>1 DEF TypeOK, ProcCloses
  <1>5. CASE ProcExits(p)
    <2>1. lib' \in [All -> LibRecord]
      BY <1>5, NewLibType DEF ProcExits, TypeOK
    <2> QED
      BY <1>5, <2>1 DEF TypeOK, ProcExits
  <1>6. CASE ProcResets(p)
    <2>1. ghost' \in [spoilt : BOOLEAN, unsaved : SUBSET Blocks]
      BY <1>6 DEF ProcResets, TypeOK
    <2> QED
      BY <1>0, <1>6, <1>b, <2>1 DEF ProcResets
  <1>7. CASE ProcUploads(p)
    <2>1. PICK file \in UserFiles :
            /\ ProcLoads(p, file, TRUE)
            /\ ghost' = [ghost EXCEPT !.spoilt = @ \/ ~HasDefaults(file)]
      BY <1>7 DEF ProcUploads
    <2>2. ghost' \in [spoilt : BOOLEAN, unsaved : SUBSET Blocks]
      BY <2>1 DEF TypeOK
    <2> QED
      BY <1>0, <1>b, <2>1, <2>2
  <1>8. CASE LoadStep(p)
    BY <1>0, <1>8, TypeLoad
  <1> QED
    BY <1>1, <1>2, <1>3, <1>4, <1>5, <1>6, <1>7, <1>8 DEF ProcStep

LEMMA TypeNext == TypeOK /\ [Next]_vars => TypeOK'
  <1>1. TypeOK /\ UNCHANGED vars => TypeOK'
    BY DEF TypeOK, vars, kernel, daemon, loader
  <1> QED
    BY <1>1, TypeFlash, TypeDaemon, TypeLib, TypeProc DEF Next

\* Every variable keeps its type, for any number of blocks, processes, settings
\* and faults.
THEOREM TypeCorrect == Spec => []TypeOK
  BY TypeInit, TypeNext, PTL DEF Spec

-----------------------------------------------------------------------------
(* The kernel's cache, its buffer and the flash                            *)

\* What the kernel finds in a block at boot is what is readable in it, or the
\* junk of a block that reads as empty.
LEMMA ParseReadable ==
  ASSUME NEW f \in FlashRecord, NEW c \in Parse(f)
  PROVE  c = Readable(f) \/ (c = JunkCache /\ f.crc = Ones /\ f.data = Ones)
  BY DEF Parse, Readable, FlashRecord

\* A block whose CRC and data are both those of the buffer reads as the cache.
LEMMA WrittenReadable ==
  ASSUME KInv, Writing, NEW f \in FlashRecord, f.crc = env[W], f.data = env[W]
  PROVE  Readable(f) = fb[W].cache
  <1>1. W \in Blocks /\ fb[W].cache \in Contents
    BY DEF KInv, TypeOK, WriteRecord, W
  <1> QED
    BY <1>1, ContentOf DEF KInv, BufferFixed, Readable

\* The calls that use the kernel's cache and do not write the flash.
CacheStep(p) ==
  GetAll(p) \/ GetAllFails(p) \/ Set(p) \/ CommitFails(p) \/ Overrun(p)

\* The steps that touch the kernel's state.
LEMMA KernelSteps ==
  ASSUME TypeOK, [Next]_vars
  PROVE  \/ Boot \/ Erase \/ Program \/ WriteFails
         \/ \E p \in All : CacheStep(p) \/ CommitDirty(p) \/ Clear(p)
         \/ UNCHANGED <<kernel, ghost.unsaved>>
  <1>1. CASE UNCHANGED vars
    BY <1>1 DEF vars
  <1>2. CASE FlashStep
    BY <1>2 DEF FlashStep
  <1>a. ASSUME NEW p \in All, LoadStep(p) PROVE UNCHANGED <<kernel, ghost.unsaved>>
    BY <1>a DEF LoadStep, RenewSet, RenewCommit, RenewFails, LoadEnds
  <1>3. CASE DaemonStep \/ Restore \/ Reboot \/ PowerCut
    <2>1. Daemon \in All
      BY DEF All
    <2> QED
      BY <1>3, <1>a, <2>1 DEF DaemonStep, Check, TestPasses, LoadDefault, DaemonClose,
         InitGpio, WritePid, Reboot, Restore, PowerCut
  <1>4. ASSUME NEW p \in All, LibStep(p)
        PROVE  CacheStep(p) \/ CommitDirty(p) \/ Clear(p) \/ UNCHANGED <<kernel, ghost.unsaved>>
    BY <1>4 DEF LibStep, CacheStep, ParseAll, Get, CommitClean, Close
  <1>5. ASSUME NEW p \in Procs, ProcStep(p) PROVE UNCHANGED <<kernel, ghost.unsaved>>
    <2>1. CASE ProcUploads(p)
      BY <2>1 DEF ProcUploads, ProcLoads, TypeOK
    <2>2. CASE LoadStep(p)
      BY <1>a, <2>2 DEF All
    <2> QED
      BY <1>5, <2>1, <2>2 DEF ProcStep, ProcGets, ProcSets, ProcCommits, ProcCloses,
         ProcExits, ProcResets, ProcLoads
  <1> QED
    BY <1>1, <1>2, <1>3, <1>4, <1>5 DEF Next

KRest == BufferFixed /\ SectorWritten /\ FlashClean /\ CleanSaved

LEMMA KInit == Init => KRest
  <1> SUFFICES ASSUME Init PROVE KRest
    OBVIOUS
  <1>1. ~Writing
    BY Holders DEF Init, Semaphore
  <1>2. FlashClean
    BY <1>1, ConstantsAssumption
    DEF ConstantsAssumption, FlashClean, Init, ErasedBlock
  <1>3. CleanSaved
    BY <1>1 DEF CleanSaved, Clean, Init
  <1> QED
    BY <1>1, <1>2, <1>3 DEF KRest, BufferFixed, SectorWritten

LEMMA KBoot == KInv /\ Boot => KRest'
  <1> SUFFICES ASSUME KInv, Boot PROVE KRest'
    OBVIOUS
  <1>1. ~Writing' /\ ghost'.unsaved = {}
    BY ConstantsAssumption DEF ConstantsAssumption, Boot, Writing, KInv, TypeOK
  <1>2. /\ flash' \in [Blocks -> FlashRecord]
        /\ \A b \in Blocks : flash'[b] = flash[b] \/ flash'[b] = ErasedBlock
        /\ \A b \in Blocks : fb'[b].cache \in Parse(flash'[b])
    BY BootFlash DEF KInv
  <1>3. \A b \in Blocks : Clean(b, Readable(flash[b]))'
    BY <1>2, ParseReadable DEF Clean
  <1>4. CleanSaved'
    BY <1>1, <1>3 DEF CleanSaved
  <1>5. FlashClean'
    BY <1>1, <1>2 DEF FlashClean, KInv, ErasedBlock
  <1> QED
    BY <1>1, <1>4, <1>5 DEF KRest, BufferFixed, SectorWritten

LEMMA KCalls ==
  ASSUME KInv, NEW p \in All, CacheStep(p)
  PROVE  KRest'
  <1>0. BlockOf[p] \in Blocks
    BY ConstantsAssumption DEF ConstantsAssumption
  <1>1. ~Writing /\ ~Writing' /\ UNCHANGED flash /\ ghost'.unsaved = ghost.unsaved
    BY ConstantsAssumption DEF ConstantsAssumption, CacheStep, GetAll, GetAllFails, Set,
       CommitFails, Overrun, Semaphore, Writing, KInv, TypeOK
  <1>2. \A b \in Blocks : fb'[b] = fb[b] \/ fb'[b].dirty
    <2>1. CASE Set(p)
      BY <1>0, <2>1 DEF Set, NvramSet, KInv, TypeOK
    <2> QED
      BY <2>1 DEF CacheStep, GetAll, GetAllFails, CommitFails, Overrun
  <1>3. CleanSaved'
    BY <1>1, <1>2 DEF CleanSaved, Clean, KInv
  <1> QED
    BY <1>1, <1>3 DEF KInv, KRest, BufferFixed, SectorWritten, FlashClean

LEMMA KBegin ==
  ASSUME KInv, NEW p \in All, CommitDirty(p) \/ Clear(p)
  PROVE  KRest'
  <1> DEFINE b0 == BlockOf[p]
  <1>0. b0 \in Blocks /\ p # None
    BY ConstantsAssumption DEF ConstantsAssumption
  <1>1. PICK data \in {fb[b0].cache, Ones} : BeginWrite(p, data)
    BY DEF CommitDirty, Clear
  <1>2. /\ ~Writing /\ Writing' /\ UNCHANGED flash /\ W' = b0
        /\ write'.next = 0 /\ write'.part = "crc" /\ write'.failed = FALSE
        /\ write'.before = [b \in Blocks |-> Readable(flash[b])]
    BY <1>0, <1>1, Holders DEF CommitDirty, Clear, BeginWrite, NoWrite, Writing, W
  <1>3. /\ \A b \in Blocks \ {b0} : fb'[b] = fb[b]
        /\ ghost'.unsaved = ghost.unsaved
    BY DEF CommitDirty, Clear, KInv, TypeOK
  <1>4. BufferFixed'
    <2>1. CASE CommitDirty(p)
      BY <1>0, <1>2, <2>1 DEF CommitDirty, BeginWrite, BufferFixed, KInv, TypeOK
    <2>2. CASE Clear(p)
      BY <1>0, <1>2, <2>2 DEF Clear, BeginWrite, BufferFixed, KInv, TypeOK
    <2> QED
      BY <2>1, <2>2
  <1>5. SectorWritten'
    BY <1>0, <1>2 DEF SectorWritten, BeforeErase, Untouched, Kept
  <1>6. FlashClean'
    BY <1>2 DEF FlashClean, KInv
  <1>7. CleanSaved'
    BY <1>2, <1>3 DEF CleanSaved, Clean, KInv
  <1> QED
    BY <1>4, <1>5, <1>6, <1>7 DEF KRest

LEMMA KErase == KInv /\ Erase => KRest'
  <1> SUFFICES ASSUME KInv, Erase PROVE KRest'
    OBVIOUS
  <1>0. W \in Blocks /\ Writing /\ flash \in [Blocks -> FlashRecord] /\ write.next = 0
    BY DEF KInv, TypeOK, WriteRecord, W, Erase
  <1>1. /\ flash' = [b \in Blocks |-> ErasedBlock]
        /\ UNCHANGED <<fb, env, sem, ghost>>
        /\ write'.next = 1 /\ write'.bak = [flash EXCEPT ![W] = Patch(flash[W])]
        /\ write'.block = write.block /\ write'.part = write.part
        /\ write'.before = write.before /\ write'.failed = write.failed
    BY DEF Erase, W, KInv, TypeOK, WriteRecord
  <1>2. /\ \A b \in Blocks \ {W} : write'.bak[b] = flash[b]
        /\ write'.bak[W] = Patch(flash[W]) /\ flash[W] \in FlashRecord
    BY <1>0, <1>1
  <1>3. BeforeErase(flash)
    BY <1>0 DEF KInv, SectorWritten
  <1>4. AfterProgram(write.bak)'
    <2>1. \A b \in Blocks \ {W} : Kept(write.bak[b], b, write.failed)'
      BY <1>1, <1>2, <1>3 DEF BeforeErase, Untouched, Kept
    <2>2. CASE write.part = "crc"
      <3>1. Patch(flash[W]).crc = env[W]
        BY <1>2, <2>2 DEF Patch, W, FlashRecord
      <3>2. ~write.failed
        BY <1>3, <2>2 DEF BeforeErase
      <3>3. write'.bak[W].crc = env[W] /\ W' = W
        BY <1>1, <1>2, <3>1 DEF W
      <3> QED
        BY <1>1, <2>1, <2>2, <3>2, <3>3 DEF AfterProgram
    <2>3. CASE write.part # "crc"
      <3>1. Patch(flash[W]).data = env[W] /\ Patch(flash[W]).crc = flash[W].crc
        BY <1>2, <2>3 DEF Patch, W, FlashRecord
      <3>2. write.failed \/ flash[W].crc = env[W]
        BY <1>3, <2>3 DEF BeforeErase, CrcDone
      <3>3. /\ W' = W /\ write'.bak[W].data = env[W]
            /\ write.failed \/ write'.bak[W].crc = env[W]
        BY <1>1, <1>2, <3>1, <3>2 DEF W
      <3> QED
        BY <1>1, <2>1, <2>3, <3>3 DEF AfterProgram, DataWritten
    <2> QED
      BY <2>2, <2>3
  <1>5. SectorWritten'
    BY <1>1, <1>4 DEF SectorWritten, Blocks
  <1>6. BufferFixed' /\ CleanSaved'
    BY <1>0, <1>1 DEF KInv, BufferFixed, CleanSaved, Clean, W, Writing
  <1>7. write'.bak[W].data # Ones => Junk \notin DOMAIN write'.bak[W].data
    <2>1. write'.bak[W].data \in {flash[W].data, env[W]}
      BY <1>2 DEF Patch, W, FlashRecord
    <2>2. env[W] # Ones => Junk \notin DOMAIN env[W]
      BY <1>0 DEF KInv, BufferFixed
    <2> QED
      BY <1>0, <2>1, <2>2 DEF KInv, FlashClean
  <1>8. FlashClean'
    BY <1>1, <1>2, <1>7 DEF KInv, FlashClean, ErasedBlock
  <1> QED
    BY <1>5, <1>6, <1>8 DEF KRest

\* ra_mtd_write_nm returns: for the CRC, or for the data and with it the whole
\* write.
LEMMA KReturns ==
  ASSUME KInv, Writing, NEW failed \in BOOLEAN, WriteReturns(failed), UNCHANGED env,
         flash' \in [Blocks -> FlashRecord],
         \A b \in Blocks : flash'[b].data # Ones => Junk \notin DOMAIN flash'[b].data,
         \A b \in Blocks \ {W} : Kept(flash'[b], b, failed),
         write.part = "crc" => CrcDone(flash'[W], failed),
         write.part # "crc" /\ ~failed =>
           flash'[W].crc = env[W] /\ flash'[W].data = env[W]
  PROVE  KRest'
  <1>0. W \in Blocks /\ write \in WriteRecord
    BY DEF KInv, TypeOK, WriteRecord, W
  <1>1. CASE write.part = "crc"
    <2>1. /\ UNCHANGED <<fb, sem, ghost>> /\ write'.part = "data" /\ write'.next = 0
          /\ write'.failed = failed /\ write'.block = write.block
          /\ write'.before = write.before
      BY <1>0, <1>1 DEF WriteReturns, WriteRecord
    <2>2. SectorWritten'
      BY <1>1, <2>1 DEF SectorWritten, BeforeErase, CrcDone, Kept, Untouched, W
    <2>3. BufferFixed' /\ CleanSaved' /\ FlashClean'
      BY <2>1 DEF KInv, BufferFixed, CleanSaved, FlashClean, Clean, W, Writing
    <2> QED
      BY <2>2, <2>3 DEF KRest
  <1>2. CASE write.part # "crc"
    <2>1. /\ ~Writing'
          /\ fb' = [fb EXCEPT ![W].dirty = FALSE]
          /\ ghost'.unsaved =
               IF failed
               THEN ghost.unsaved \cup {W} \cup
                    {b \in Blocks : Readable(flash'[b]) # write.before[b]}
               ELSE ghost.unsaved \ {W}
      BY <1>2, ConstantsAssumption
      DEF ConstantsAssumption, WriteReturns, Writing, W, KInv, TypeOK
    <2>2. ASSUME NEW b \in Blocks \ ghost'.unsaved PROVE Clean(b, Readable(flash[b]))'
      <3>1. CASE b = W
        <4>1. ~failed
          BY <2>1, <3>1
        <4>2. Readable(flash'[W]) = fb[W].cache
          BY <1>0, <1>2, <4>1, WrittenReadable
        <4>3. fb'[W].cache = fb[W].cache
          BY <1>0, <2>1 DEF KInv, TypeOK
        <4> QED
          BY <3>1, <4>2, <4>3 DEF Clean
      <3>2. CASE b # W
        <4>1. fb'[b] = fb[b] /\ b \notin ghost.unsaved
          BY <2>1, <3>2 DEF KInv, TypeOK
        <4>2. Clean(b, write.before[b])
          BY <3>2, <4>1 DEF KInv, CleanSaved
        <4>3. Readable(flash'[b]) = write.before[b]
          BY <2>1, <3>2 DEF Kept, Untouched
        <4> QED
          BY <4>1, <4>2, <4>3 DEF Clean
      <3> QED
        BY <3>1, <3>2
    <2>3. CleanSaved' /\ FlashClean'
      BY <2>1, <2>2 DEF CleanSaved, FlashClean
    <2> QED
      BY <2>1, <2>3 DEF KRest, BufferFixed, SectorWritten
  <1> QED
    BY <1>1, <1>2

LEMMA KProgram == KInv /\ Program => KRest'
  <1> SUFFICES ASSUME KInv, Program PROVE KRest'
    OBVIOUS
  <1>0. /\ W \in Blocks /\ Writing /\ write \in WriteRecord /\ write.next > 0
        /\ write.next \in Blocks
        /\ flash \in [Blocks -> FlashRecord] /\ write.bak \in [Blocks -> FlashRecord]
    BY DEF KInv, TypeOK, WriteRecord, W, Program, Blocks
  <1>1. /\ flash' = [flash EXCEPT ![write.next] = write.bak[write.next]]
        /\ UNCHANGED env
    BY DEF Program
  <1>2. /\ AfterProgram(write.bak)
        /\ \A b \in Blocks : flash[b] = IF b < write.next THEN write.bak[b] ELSE ErasedBlock
        /\ \A b \in Blocks : flash'[b] = IF b < write.next + 1 THEN write.bak[b] ELSE ErasedBlock
    <2>1. /\ AfterProgram(write.bak)
          /\ \A b \in Blocks : flash[b] = IF b < write.next THEN write.bak[b] ELSE ErasedBlock
      BY <1>0 DEF KInv, SectorWritten
    <2> QED
      BY <1>0, <1>1, <2>1 DEF Blocks
  <1>3. /\ \A b \in Blocks : write.bak[b].data # Ones => Junk \notin DOMAIN write.bak[b].data
        /\ \A b \in Blocks : flash'[b].data # Ones => Junk \notin DOMAIN flash'[b].data
    BY <1>0, <1>2 DEF KInv, FlashClean, ErasedBlock
  <1>4. CASE write.next < FLASH_BLOCK_NUM
    <2>1. /\ UNCHANGED <<fb, sem, ghost>> /\ write' = [write EXCEPT !.next = write.next + 1]
      BY <1>4 DEF Program
    <2>2. /\ write'.next = write.next + 1 /\ write'.bak = write.bak
          /\ write'.block = write.block /\ write'.part = write.part
          /\ write'.before = write.before /\ write'.failed = write.failed
      BY <1>0, <2>1 DEF WriteRecord
    <2>3. SectorWritten'
      BY <1>0, <1>1, <1>2, <2>2
      DEF SectorWritten, AfterProgram, Kept, Untouched, DataWritten, W, Blocks
    <2>4. BufferFixed' /\ CleanSaved'
      BY <1>0, <1>1, <2>1, <2>2 DEF KInv, BufferFixed, CleanSaved, Clean, W, Writing
    <2>5. FlashClean'
      BY <1>3, <2>2 DEF FlashClean
    <2> QED
      BY <2>3, <2>4, <2>5 DEF KRest
  <1>5. CASE ~(write.next < FLASH_BLOCK_NUM)
    <2>1. \A b \in Blocks : flash'[b] = write.bak[b]
      <3>1. \A b \in Blocks : b < write.next + 1
        BY <1>0, <1>5, ConstantsAssumption DEF ConstantsAssumption, Blocks
      <3> QED
        BY <1>2, <3>1
    <2>2. WriteReturns(write.failed) /\ write.failed \in BOOLEAN
      BY <1>0, <1>5 DEF Program, WriteRecord
    <2>3. flash' \in [Blocks -> FlashRecord]
      BY <1>0, <1>1
    <2>4. \A b \in Blocks \ {W} : Kept(flash'[b], b, write.failed)
      BY <1>2, <2>1 DEF AfterProgram
    <2>5. write.part = "crc" => CrcDone(flash'[W], write.failed)
      <3>1. write.part = "crc" => write.bak[W].crc = env[W]
        BY <1>2 DEF AfterProgram
      <3>2. flash'[W] = write.bak[W]
        BY <1>0, <2>1
      <3> QED
        BY <3>1, <3>2 DEF CrcDone
    <2>6. write.part # "crc" /\ ~write.failed =>
            flash'[W].crc = env[W] /\ flash'[W].data = env[W]
      BY <1>0, <1>2, <2>1 DEF AfterProgram, DataWritten
    <2> QED
      BY <1>0, <1>1, <1>3, <2>2, <2>3, <2>4, <2>5, <2>6, KReturns
  <1> QED
    BY <1>4, <1>5

\* A flash write that stops leaves every block as it was, erased, or, the block
\* that is written, with the CRC or the data of the buffer.
LEMMA StoppedSector ==
  ASSUME KInv, Writing, NEW s \in Stopped
  PROVE  /\ s \in [Blocks -> FlashRecord]
         /\ \A b \in Blocks : s[b].data # Ones => Junk \notin DOMAIN s[b].data
         /\ \A b \in Blocks \ {W} : Kept(s[b], b, TRUE)
         /\ Kept(s[W], W, TRUE) \/ s[W].crc = env[W] \/ s[W].data = env[W]
         /\ write.part = "crc" => CrcDone(s[W], TRUE)
  <1>0. W \in Blocks
    BY DEF KInv, TypeOK, WriteRecord, W
  <1>1. /\ s \in [Blocks -> FlashRecord]
        /\ \A b \in Blocks : s[b] = flash[b] \/ s[b] = ErasedBlock
    BY StoppedBlocks DEF KInv
  <1>2. \A b \in Blocks : s[b].data # Ones => Junk \notin DOMAIN s[b].data
    BY <1>1 DEF KInv, FlashClean, ErasedBlock
  <1>3. CASE write.next = 0
    <2>1. BeforeErase(flash)
      BY <1>3 DEF KInv, SectorWritten
    <2> QED
      BY <1>0, <1>1, <1>2, <2>1 DEF BeforeErase, CrcDone, Kept
  <1>4. CASE write.next # 0
    <2>1. AfterProgram(write.bak) /\ \A b \in Blocks : flash[b] \in {write.bak[b], ErasedBlock}
      BY <1>4 DEF KInv, SectorWritten
    <2>2. \A b \in Blocks : s[b] = write.bak[b] \/ s[b] = ErasedBlock
      BY <1>1, <2>1
    <2> QED
      BY <1>0, <1>1, <1>2, <2>1, <2>2 DEF AfterProgram, DataWritten, CrcDone, Kept
  <1> QED
    BY <1>3, <1>4

LEMMA KFails == KInv /\ WriteFails => KRest'
  <1> SUFFICES ASSUME KInv, WriteFails PROVE KRest'
    OBVIOUS
  <1>1. Writing /\ WriteReturns(TRUE) /\ UNCHANGED env /\ flash' \in Stopped
    BY DEF WriteFails
  <1> QED
    BY <1>1, StoppedSector, KReturns

LEMMA KNext == KInv /\ [Next]_vars => KInv'
  <1> SUFFICES ASSUME KInv, [Next]_vars PROVE KRest'
    BY TypeNext DEF KInv, KRest
  <1>1. CASE UNCHANGED <<kernel, ghost.unsaved>>
    <2> USE <1>1 DEF KInv, KRest, kernel, Writing, W
    <2>1. BufferFixed' /\ FlashClean'
      BY DEF BufferFixed, FlashClean
    <2>2. SectorWritten'
      <3>1. BeforeErase(flash) => BeforeErase(flash)'
        BY DEF BeforeErase, Kept, Untouched, CrcDone
      <3>2. AfterProgram(write.bak) => AfterProgram(write.bak)'
        BY DEF AfterProgram, Kept, Untouched, DataWritten
      <3> QED
        BY <3>1, <3>2 DEF SectorWritten
    <2>3. CleanSaved'
      BY DEF CleanSaved, Clean
    <2> QED
      BY <2>1, <2>2, <2>3
  <1> QED
    BY <1>1, KernelSteps, KBoot, KErase, KProgram, KFails, KCalls, KBegin DEF KInv

LEMMA KInductive == Spec => []KInv
  BY TypeInit, KInit, KNext, PTL DEF Spec, KInv, KRest

\* The "nothing to be committed" of nvram_commit never drops a setting: a block
\* that is not dirty is on the flash as it is in the cache, after any number of
\* power cuts, clears, loads and failed writes, unless a failed write was for that
\* block or has wiped it and it has not been written again.
THEOREM CleanIsSaved == Spec => []CleanMeansSaved
  <1>1. KInv => CleanMeansSaved
    BY DEF KInv, CleanSaved, Clean, CleanMeansSaved
  <1> QED
    BY <1>1, KInductive, PTL

-----------------------------------------------------------------------------
(***************************************************************************)
(* The NVRAM implements SettingsStore.  A set is Set, the start of a       *)
(* commit or a clear is BeginSave, the return of its second flash write is *)
(* EndSave, a power cut or a reboot is Restart; all else, the erase and    *)
(* the programming of the sector included, changes nothing of the store.   *)
(***************************************************************************)
live == [b \in Blocks |-> fb[b].cache]
saved == IF Writing THEN write.before ELSE [b \in Blocks |-> Readable(flash[b])]
saving == IF Writing THEN {write.block} ELSE {}
storeVars == <<live, saved, saving, ghost.unsaved>>

LEMMA StoreInit == Init => Store!Init
  <1> SUFFICES ASSUME Init PROVE Store!Init
    OBVIOUS
  <1>1. ~Writing /\ ghost.unsaved = {}
    BY Holders DEF Init, Semaphore
  <1>2. [b \in Blocks |-> fb[b].cache] = [b \in Blocks |-> Readable(flash[b])]
    BY DEF Init
  <1> QED
    BY <1>1, <1>2 DEF Store!Init

\* A block of which the CRC or the data has been written reads as the cache or
\* as empty: old and new never mix.
LEMMA HalfWritten ==
  ASSUME KInv, Writing, NEW f \in FlashRecord, f.crc = env[W] \/ f.data = env[W]
  PROVE  /\ Readable(f) \in {Empty, fb[W].cache}
         /\ f.crc = Ones /\ f.data = Ones => fb[W].cache = Empty
  <1>1. W \in Blocks /\ fb[W].cache \in Contents
    BY DEF KInv, TypeOK, WriteRecord, W
  <1> QED
    BY <1>1, ContentOf DEF KInv, BufferFixed, Readable

LEMMA StoreRestart == KInv /\ Boot => Store!Restart
  <1> SUFFICES ASSUME KInv, Boot PROVE Store!Restart
    OBVIOUS
  <1>0. /\ flash' \in [Blocks -> FlashRecord]
        /\ \A b \in Blocks : fb'[b].cache \in Parse(flash'[b])
    BY BootFlash DEF KInv
  <1>1. ~Writing' /\ ghost'.unsaved = {}
    BY ConstantsAssumption DEF ConstantsAssumption, Boot, Writing, KInv, TypeOK
  <1>2. ~Writing => flash' = flash
    BY DEF Boot
  <1>3. Junk \in DOMAIN JunkCache /\ DOMAIN Empty = {}
    BY DEF JunkCache, Empty
  <1>4. ASSUME NEW b \in Blocks PROVE fb'[b].cache \in Store!Outcomes(b)
    <2> DEFINE f == flash'[b]
               c == fb'[b].cache
    <2>0. f \in FlashRecord
      BY <1>0
    <2>1. c = Readable(f) \/ (c = JunkCache /\ f.crc = Ones /\ f.data = Ones)
      BY <1>0, <2>0, ParseReadable
    <2>2. f.crc = Ones /\ f.data = Ones => Readable(f) = Empty
      BY DEF Readable
    <2>3. CASE ~Writing
      BY <1>2, <2>1, <2>2, <2>3 DEF Store!Outcomes
    <2>4. CASE Writing /\ f = ErasedBlock
      <3>1. f.crc # f.data
        BY <2>4, ConstantsAssumption DEF ConstantsAssumption, ErasedBlock
      <3>2. c = Empty
        BY <2>1, <3>1 DEF Readable
      <3> QED
        BY <2>4, <3>2 DEF Store!Outcomes
    <2>5. CASE Writing /\ Untouched(f, b)
      BY <2>1, <2>2, <2>5 DEF Store!Outcomes, Untouched
    <2>6. CASE Writing /\ b = W /\ (f.crc = env[W] \/ f.data = env[W])
      <3>1. /\ Readable(f) \in {Empty, fb[b].cache}
            /\ f.crc = Ones /\ f.data = Ones => fb[b].cache = Empty
        BY <2>0, <2>6, HalfWritten
      <3> QED
        BY <2>1, <2>6, <3>1 DEF Store!Outcomes, W
    <2>7. Writing => flash' \in Stopped
      BY DEF Boot
    <2> QED
      BY <2>3, <2>4, <2>5, <2>6, <2>7, StoppedSector DEF Kept
  <1>5. ASSUME NEW b \in Blocks
        PROVE  Readable(flash'[b]) =
                 IF fb'[b].cache = JunkCache THEN Empty ELSE fb'[b].cache
    <2>1. \/ fb'[b].cache = Readable(flash'[b])
          \/ fb'[b].cache = JunkCache /\ flash'[b].crc = Ones /\ flash'[b].data = Ones
      BY <1>0, ParseReadable
    <2>2. Readable(flash'[b]) # JunkCache
      BY <1>3, KBoot DEF KRest, FlashClean, Readable
    <2> QED
      BY <2>1, <2>2 DEF Readable
  <1> QED
    BY <1>1, <1>4, <1>5 DEF Store!Restart

LEMMA StoreSet ==
  ASSUME KInv, NEW p \in All, Set(p)
  PROVE  Store!Set \/ UNCHANGED storeVars
  <1> DEFINE b0 == BlockOf[p]
             n == lib[p].name
             v == lib[p].value
  <1>0. b0 \in Blocks /\ n \in Names /\ v \in Values
    BY ConstantsAssumption DEF ConstantsAssumption, KInv, TypeOK, LibRecord
  <1>1. /\ ~Writing /\ ~Writing' /\ UNCHANGED <<flash, write>>
        /\ ghost'.unsaved = ghost.unsaved
    BY Holders DEF Set, Writing, KInv, TypeOK
  <1>2. CASE fb' = fb
    BY <1>1, <1>2 DEF storeVars, live, saved, saving
  <1>3. CASE fb' # fb
    <2>1. fb' = [fb EXCEPT ![b0] = NvramSet(fb[b0], n, v)]
      BY DEF Set
    <2>2. NvramSet(fb[b0], n, v) # fb[b0]
      BY <1>3, <2>1 DEF KInv, TypeOK
    <2>3. fb' = [fb EXCEPT ![b0] = [cache |-> With(fb[b0].cache, n, v), dirty |-> TRUE]]
      BY <2>1, <2>2 DEF NvramSet
    <2>4. live' = [live EXCEPT ![b0] = With(live[b0], n, v)]
      BY <1>0, <2>3 DEF live, KInv, TypeOK
    <2>5. With(live[b0], n, v) =
            [m \in DOMAIN live[b0] \cup {n} |-> IF m = n THEN v ELSE live[b0][m]]
      BY DEF With
    <2>6. live' = [live EXCEPT ![b0] =
            [m \in DOMAIN @ \cup {n} |-> IF m = n THEN v ELSE @[m]]]
      BY <2>4, <2>5
    <2>7. \E b \in Blocks, k \in Names, w \in Values :
            live' = [live EXCEPT ![b] =
                       [m \in DOMAIN @ \cup {k} |-> IF m = k THEN w ELSE @[m]]]
      BY <1>0, <2>6
    <2> HIDE DEF b0, n, v
    <2>8. UNCHANGED <<saved, saving, ghost.unsaved>> /\ saving = {}
      BY <1>1 DEF saved, saving
    <2> QED
      BY <2>7, <2>8 DEF Store!Set, live, saved, saving
  <1> QED
    BY <1>2, <1>3

LEMMA StoreBegin ==
  ASSUME KInv, NEW p \in All, CommitDirty(p) \/ Clear(p)
  PROVE  Store!BeginSave
  <1> DEFINE b0 == BlockOf[p]
  <1>0. b0 \in Blocks /\ p # None
    BY ConstantsAssumption DEF ConstantsAssumption
  <1>1. PICK data \in {fb[b0].cache, Ones} : BeginWrite(p, data)
    BY DEF CommitDirty, Clear
  <1>2. /\ ~Writing /\ Writing' /\ write'.block = b0
        /\ write'.before = [b \in Blocks |-> Readable(flash[b])]
        /\ ghost'.unsaved = ghost.unsaved
    BY <1>0, <1>1, Holders DEF CommitDirty, Clear, BeginWrite, NoWrite, Writing, KInv, TypeOK
  <1>3. live' \in {live, [live EXCEPT ![b0] = Empty]}
    <2>1. CASE CommitDirty(p)
      BY <2>1 DEF CommitDirty, live
    <2>2. CASE Clear(p)
      <3>1. fb' = [fb EXCEPT ![b0].cache = Empty]
        BY <2>2 DEF Clear
      <3>2. \A b \in Blocks : fb'[b].cache = IF b = b0 THEN Empty ELSE fb[b].cache
        BY <1>0, <3>1 DEF KInv, TypeOK
      <3> QED
        BY <1>0, <3>2 DEF live
    <2> QED
      BY <2>1, <2>2
  <1> QED
    BY <1>0, <1>2, <1>3 DEF Store!BeginSave, live

\* ra_mtd_write_nm returns for the data: the store's save ends.
LEMMA StoreEnd ==
  ASSUME KInv, Writing, write.part = "data", NEW failed \in BOOLEAN,
         WriteReturns(failed),
         flash' \in [Blocks -> FlashRecord],
         \A b \in Blocks \ {W} : Kept(flash'[b], b, failed),
         ~failed => flash'[W].crc = env[W] /\ flash'[W].data = env[W],
         \/ Kept(flash'[W], W, TRUE)
         \/ flash'[W].crc = env[W] \/ flash'[W].data = env[W]
  PROVE  Store!EndSave
  <1> DEFINE r == Readable(flash'[W])
  <1>0. /\ W \in Blocks /\ write.before \in [Blocks -> Contents]
        /\ flash'[W] \in FlashRecord
    BY DEF KInv, TypeOK, WriteRecord, W
  <1>1. /\ ~Writing'
        /\ fb' = [fb EXCEPT ![W].dirty = FALSE]
        /\ ghost'.unsaved =
             IF failed
             THEN ghost.unsaved \cup {W} \cup
                  {b \in Blocks : Readable(flash'[b]) # write.before[b]}
             ELSE ghost.unsaved \ {W}
    BY ConstantsAssumption DEF ConstantsAssumption, WriteReturns, Writing, W, KInv, TypeOK
  <1>2. live' = live
    <2>1. \A b \in Blocks : fb'[b].cache = fb[b].cache
      BY <1>0, <1>1 DEF KInv, TypeOK
    <2> QED
      BY <2>1 DEF live
  <1>3. saved = write.before /\ saving = {W} /\ saving' = {}
    BY <1>1 DEF saved, saving, W
  <1>4. saved' = [b \in Blocks |-> Readable(flash'[b])]
    BY <1>1 DEF saved
  <1>5. live[W] = fb[W].cache
    BY <1>0 DEF live
  <1>6. CASE ~failed
    <2>1. r = live[W]
      BY <1>0, <1>5, <1>6, WrittenReadable
    <2>2. \A b \in Blocks \ {W} : Readable(flash'[b]) = saved[b]
      BY <1>3, <1>6 DEF Kept, Untouched
    <2>3. saved' = [saved EXCEPT ![W] = live[W]] /\ ghost'.unsaved = ghost.unsaved \ {W}
      BY <1>0, <1>1, <1>3, <1>4, <1>6, <2>1, <2>2
    <2> QED
      BY <1>2, <1>3, <2>3 DEF Store!EndSave, live, saved, saving
  <1>7. CASE failed
    <2> DEFINE gone == {b \in Blocks \ {W} : Readable(flash'[b]) # saved[b]}
    <2>0. Readable(ErasedBlock) = Empty
      BY DEF Readable, ErasedBlock
    <2>1. r \in {saved[W], live[W], Empty}
      BY <1>0, <1>3, <1>5, <2>0, HalfWritten DEF Kept, Untouched
    <2>2. \A b \in gone : Readable(flash'[b]) = Empty
      BY <1>3, <2>0 DEF Kept, Untouched
    <2>3. saved' = [b \in Blocks |-> IF b = W THEN r
                                    ELSE IF b \in gone THEN Empty ELSE saved[b]]
      BY <1>0, <1>3, <1>4, <2>2
    <2>4. ghost'.unsaved = ghost.unsaved \cup gone \cup {W}
      BY <1>0, <1>1, <1>3, <1>7
    <2>5. gone \in SUBSET (Blocks \ {W})
      OBVIOUS
    <2> HIDE DEF gone, r
    <2>6. \E g \in SUBSET (Blocks \ {W}), end \in {saved[W], live[W], Empty} :
            /\ saved' = [c \in Blocks |-> IF c = W THEN end
                                         ELSE IF c \in g THEN Empty ELSE saved[c]]
            /\ ghost'.unsaved = ghost.unsaved \cup g \cup {W}
      BY <2>1, <2>3, <2>4, <2>5
    <2>7. \E b \in saving :
            /\ \E g \in SUBSET (Blocks \ {b}), end \in {saved[b], live[b], Empty} :
                 /\ saved' = [c \in Blocks |-> IF c = b THEN end
                                              ELSE IF c \in g THEN Empty ELSE saved[c]]
                 /\ ghost'.unsaved = ghost.unsaved \cup g \cup {b}
            /\ saving' = {}
            /\ live' = live
      BY <1>2, <1>3, <2>6
    <2> QED
      BY <2>7 DEF Store!EndSave, live, saved, saving
  <1> QED
    BY <1>6, <1>7

\* The steps of a flash write but the last one leave the store alone.
LEMMA StoreGoesOn ==
  ASSUME KInv, Writing, Writing', UNCHANGED fb, UNCHANGED ghost,
         write'.block = write.block, write'.before = write.before
  PROVE  UNCHANGED storeVars
  BY DEF storeVars, live, saved, saving

LEMMA StoreProgram == KInv /\ Program => Store!EndSave \/ UNCHANGED storeVars
  <1> SUFFICES ASSUME KInv, Program PROVE Store!EndSave \/ UNCHANGED storeVars
    OBVIOUS
  <1>0. /\ W \in Blocks /\ Writing /\ write \in WriteRecord /\ write.next > 0
        /\ write.next \in Blocks /\ write.part \in {"crc", "data"}
        /\ flash \in [Blocks -> FlashRecord] /\ write.bak \in [Blocks -> FlashRecord]
    BY DEF KInv, TypeOK, WriteRecord, W, Program, Blocks
  <1>1. CASE write.next < FLASH_BLOCK_NUM
    <2>1. UNCHANGED <<fb, sem, ghost>> /\ write' = [write EXCEPT !.next = write.next + 1]
      BY <1>1 DEF Program
    <2>2. write'.block = write.block /\ write'.before = write.before
      BY <1>0, <2>1 DEF WriteRecord
    <2> QED
      BY <1>0, <2>1, <2>2, StoreGoesOn DEF Writing
  <1>2. CASE ~(write.next < FLASH_BLOCK_NUM) /\ write.part = "crc"
    <2>1. /\ UNCHANGED <<fb, sem, ghost>>
          /\ write' = [write EXCEPT !.part = "data", !.next = 0, !.failed = write.failed]
      BY <1>2 DEF Program, WriteReturns
    <2>2. write'.block = write.block /\ write'.before = write.before
      BY <1>0, <2>1 DEF WriteRecord
    <2> QED
      BY <1>0, <2>1, <2>2, StoreGoesOn DEF Writing
  <1>3. CASE ~(write.next < FLASH_BLOCK_NUM) /\ write.part = "data"
    <2>1. WriteReturns(write.failed) /\ write.failed \in BOOLEAN
      BY <1>0, <1>3 DEF Program, WriteRecord
    <2>2. /\ AfterProgram(write.bak)
          /\ \A b \in Blocks : flash[b] = IF b < write.next THEN write.bak[b] ELSE ErasedBlock
      BY <1>0 DEF KInv, SectorWritten
    <2>3. flash' = [flash EXCEPT ![write.next] = write.bak[write.next]]
      BY DEF Program
    <2>4. \A b \in Blocks : b < write.next \/ b = write.next
      BY <1>0, <1>3, ConstantsAssumption DEF ConstantsAssumption, Blocks
    <2>5. flash' \in [Blocks -> FlashRecord] /\ \A b \in Blocks : flash'[b] = write.bak[b]
      BY <1>0, <2>2, <2>3, <2>4
    <2>6. /\ \A b \in Blocks \ {W} : Kept(flash'[b], b, write.failed)
          /\ flash'[W].data = env[W]
          /\ ~write.failed => flash'[W].crc = env[W]
      BY <1>0, <1>3, <2>2, <2>5 DEF AfterProgram, DataWritten
    <2> QED
      BY <1>0, <1>3, <2>1, <2>5, <2>6, StoreEnd
  <1> QED
    BY <1>0, <1>1, <1>2, <1>3

LEMMA StoreFails == KInv /\ WriteFails => Store!EndSave \/ UNCHANGED storeVars
  <1> SUFFICES ASSUME KInv, WriteFails PROVE Store!EndSave \/ UNCHANGED storeVars
    OBVIOUS
  <1>0. /\ W \in Blocks /\ Writing /\ write \in WriteRecord
        /\ write.part \in {"crc", "data"} /\ WriteReturns(TRUE) /\ flash' \in Stopped
    BY DEF KInv, TypeOK, WriteRecord, W, WriteFails
  <1>1. CASE write.part = "crc"
    <2>1. /\ UNCHANGED <<fb, sem, ghost>>
          /\ write' = [write EXCEPT !.part = "data", !.next = 0, !.failed = TRUE]
      BY <1>0, <1>1 DEF WriteReturns
    <2>2. write'.block = write.block /\ write'.before = write.before
      BY <1>0, <2>1 DEF WriteRecord
    <2> QED
      BY <1>0, <2>1, <2>2, StoreGoesOn DEF Writing
  <1>2. CASE write.part = "data"
    BY <1>0, <1>2, StoppedSector, StoreEnd
  <1> QED
    BY <1>0, <1>1, <1>2

LEMMA StoreErase == KInv /\ Erase => UNCHANGED storeVars
  <1> SUFFICES ASSUME KInv, Erase PROVE UNCHANGED storeVars
    OBVIOUS
  <1>1. Writing /\ Writing' /\ UNCHANGED <<fb, ghost>>
    BY DEF Erase, Writing
  <1>2. write'.block = write.block /\ write'.before = write.before
    BY DEF Erase, KInv, TypeOK, WriteRecord
  <1> QED
    BY <1>1, <1>2, StoreGoesOn

LEMMA StoreNext == KInv /\ [Next]_vars => [Store!Next]_storeVars
  <1> SUFFICES ASSUME KInv, [Next]_vars PROVE Store!Next \/ UNCHANGED storeVars
    OBVIOUS
  <1>1. CASE UNCHANGED <<kernel, ghost.unsaved>>
    BY <1>1 DEF kernel, storeVars, live, saved, saving, Writing
  <1>2. ASSUME NEW p \in All, CacheStep(p), ~Set(p) PROVE UNCHANGED storeVars
    <2>1. ~Writing /\ ~Writing' /\ UNCHANGED <<flash, fb, ghost>>
      BY <1>2, ConstantsAssumption
      DEF ConstantsAssumption, CacheStep, GetAll, GetAllFails, CommitFails, Overrun,
          Semaphore, Writing
    <2> QED
      BY <2>1 DEF storeVars, live, saved, saving
  <1> QED
    BY <1>1, <1>2, KernelSteps, StoreRestart, StoreErase, StoreProgram, StoreFails,
       StoreSet, StoreBegin DEF Store!Next, KInv

\* Whatever is cut, cleared or fails, a block comes up with what was saved, with
\* what was being saved, or empty; a save that succeeds has changed no other
\* block, and one that fails has at worst emptied others: the kernel's cache, its
\* semaphore and the erase of the sector that all blocks share implement
\* SettingsStore, for every instance.
THEOREM StoreImplemented == Spec => ImplementsStore
  <1>1. KInv /\ [Next]_vars => [Store!Next]_(Store!storeVars)
    BY StoreNext DEF storeVars, Store!storeVars, live, saved, saving
  <1> QED
    BY <1>1, StoreInit, KInductive, PTL DEF Spec, ImplementsStore, Store!Spec
=============================================================================
