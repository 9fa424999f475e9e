-------------------------------- MODULE Nvram --------------------------------
(***************************************************************************)
(* The settings of the router: the kernel's NVRAM module (arch/mips/       *)
(* rt2880/nvram.c) with its cache of every flash block and its semaphore,  *)
(* the read-erase-write of the erase sector that all blocks share          *)
(* (ra_mtd_write_nm), libnvram in every process that uses it (a cache of   *)
(* its own), nvram_daemon, which loads the defaults at boot and when the   *)
(* reset button is held, and the processes that load them, or a settings   *)
(* file that a user has uploaded, and reboot.                              *)
(*                                                                         *)
(* The kernel does not preempt itself and ioctl runs under the big kernel  *)
(* lock, so processes interleave where they are in user space, wait for    *)
(* nvram_sem, write the flash or may fault in copy_to_user.  Power may go  *)
(* at any moment.                                                          *)
(*                                                                         *)
(* Abstracted data: a block's content is a function from the names that    *)
(* are set to their values; the CRC of a content is the content itself (no *)
(* two contents collide).  A block erased or programmed in part reads as   *)
(* one that is erased: its CRC is wrong.  Left out: a content too long for *)
(* its block.                                                              *)
(*                                                                         *)
(* The entry of junk that is parsed out of a cleared block does not fit    *)
(* env.data: a GETALL or a commit of it overruns the buffer while it holds *)
(* nvram_sem.  Two outcomes are modelled: the overrun hits nothing, or the *)
(* process dies there and nvram_sem is never released.                     *)
(***************************************************************************)
EXTENDS Naturals, Sequences, FiniteSets

CONSTANTS
  FLASH_BLOCK_NUM,  \* the blocks 1 .. FLASH_BLOCK_NUM, in flash order
  RT2860_NVRAM,     \* the block of the router's settings
  MAX_CACHE_ENTRY,
  Procs,            \* processes using libnvram, the daemon excepted
  BlockOf,          \* the block a process uses: one that uses two counts twice
  Daemon,           \* nvram_daemon and the ralink_init it waits for
  WebInit,          \* the name whose value "1" says that defaults are loaded
  Names,
  UserValues,       \* the values that processes set; the defaults are all "1"
  Defaults,         \* the names of the defaults file, in its order, WAN_MAC_ADDR last
  UserFiles,        \* the names of uploaded files, up to a line without a value
  Junk,             \* the name parsed out of a block of all ones
  Ones,             \* the data of a cleared or erased block
  ErasedCrc,        \* four bytes of all ones: not the CRC of Ones
  None,
  Oops,             \* who holds nvram_sem once its holder has died
  Factory,          \* the settings in every block before the first boot, or Ones
  MaxUses,          \* bound on the settings that processes make and the files
                    \*   they or SIGUSR2 load, and
  MaxFaults         \*   on power cuts and failed flash writes

Blocks == 1 .. FLASH_BLOCK_NUM
All == Procs \cup {Daemon}
Values == UserValues \cup {"1"}
Empty == [n \in {} |-> "1"]
JunkCache == [n \in {Junk} |-> "1"]
Contents == UNION {[S -> Values] : S \in SUBSET (Names \cup {Junk})}

\* A cache in which WebInit stands for all of the defaults, as nvram_daemon takes
\* it to do.
Complete(c) ==
  WebInit \in DOMAIN c => \A i \in DOMAIN Defaults : Defaults[i] \in DOMAIN c

ASSUME ConstantsAssumption ==
  /\ FLASH_BLOCK_NUM \in Nat /\ RT2860_NVRAM \in Blocks
  /\ MAX_CACHE_ENTRY \in Nat \ {0}
  /\ BlockOf \in [All -> Blocks] /\ BlockOf[Daemon] = RT2860_NVRAM
  /\ Daemon \notin Procs /\ None \notin All /\ Oops \notin All \cup {None}
  /\ WebInit \in Names /\ Junk \notin Names
  /\ Defaults \in Seq(Names) /\ Len(Defaults) > 0
  /\ Defaults[1] = WebInit /\ UserFiles \subseteq Seq(Names)
  /\ Ones \notin Contents /\ Ones # ErasedCrc
  /\ Factory \in [Blocks -> Contents \cup {Ones}]
  /\ \A b \in Blocks : Factory[b] # Ones => Junk \notin DOMAIN Factory[b]
  /\ Factory[RT2860_NVRAM] # Ones => Complete(Factory[RT2860_NVRAM])
  /\ {MaxUses, MaxFaults} \subseteq Nat

VARIABLES
  flash,    \* what the flash holds: crc and data of every block
  fb,       \* the kernel's fb[]: cache and dirty flag
  env,      \* fb[].env.data, the buffer that GETALL, commit and clear share
  sem,      \* who holds nvram_sem over a flash write
  write,    \* the nvram_commit or nvram_clear that holds it
  lib,      \* libnvram in every process, and the call it is in
  script,   \* where nvram_daemon is
  load,     \* the `ralink_init clear' and `renew' that a process runs
  rebooting, \* somebody has called reboot
  pidfile,  \* /var/run/nvramd.pid exists
  budget,   \* what may still happen
  ghost     \* history, read by properties only

kernel == <<flash, fb, env, sem, write>>
loader == <<load, rebooting>>
daemon == <<script, pidfile>>
vars == <<kernel, lib, loader, daemon, budget, ghost>>

-----------------------------------------------------------------------------
ErasedBlock == [crc |-> ErasedCrc, data |-> Ones]

Calls == {"get", "set", "commit", "close", "clear"}
LibRecord == [at : Calls \cup {"idle", "init", "parse", "copy", "flash", "dead"},
              call : Calls, name : Names, value : Values,
              ptr : Values \cup {"", "freed"},
              cache : SUBSET (Names \cup {Junk}),
              valid : BOOLEAN, dirty : BOOLEAN]

\* A process that has not used libnvram yet.
NewLib == [at |-> "idle", call |-> "get", name |-> WebInit, value |-> "1",
           ptr |-> "", cache |-> {}, valid |-> FALSE, dirty |-> FALSE]

\* at: "renew" until the last name of file is set, then "end".  done: how many
\* are set.  upload: the file is a user's.
LoadRecord == [at : {"none", "renew", "end"}, file : Seq(Names), done : Nat,
               upload : BOOLEAN]
NoLoad == [at |-> "none", file |-> <<>>, done |-> 0, upload |-> FALSE]

FlashRecord == [crc : Contents \cup {Ones, ErasedCrc}, data : Contents \cup {Ones}]

\* part: which of the two calls of ra_mtd_write_nm is under way; next: 0 before
\* the sector is erased, then the block to be programmed from bak.  before and
\* failed are history: what was readable when the write began, and whether a
\* call of ra_mtd_write_nm returned an error.
WriteRecord == [block : Blocks, part : {"crc", "data"}, next : 0 .. FLASH_BLOCK_NUM,
                bak : [Blocks -> FlashRecord], before : [Blocks -> Contents],
                failed : BOOLEAN]
NoWrite == [block |-> RT2860_NVRAM, part |-> "crc", next |-> 0,
            bak |-> [b \in Blocks |-> ErasedBlock],
            before |-> [b \in Blocks |-> Empty], failed |-> FALSE]

TypeOK ==
  /\ flash \in [Blocks -> FlashRecord]
  /\ fb \in [Blocks -> [cache : Contents, dirty : BOOLEAN]]
  /\ env \in [Blocks -> Contents \cup {Ones}]
  /\ sem \in All \cup {None, Oops}
  /\ write \in WriteRecord
  /\ lib \in [All -> LibRecord]
  /\ load \in [All -> LoadRecord]
  /\ script \in {"check", "test", "load", "close", "gpio", "pid", "pause", "exited"}
  /\ rebooting \in BOOLEAN /\ pidfile \in BOOLEAN
  /\ budget \in [uses : Nat, faults : Nat]
  /\ ghost \in [spoilt : BOOLEAN, unsaved : SUBSET Blocks]

-----------------------------------------------------------------------------
(* init_nvram_block: what the kernel makes of a block at boot.  A cleared   *)
(* block has a good CRC but no terminator: strchr runs past the buffer and  *)
(* finds nothing, or an entry of junk.                                      *)

\* Mutant: the CRC is not compared.
ParseUnchecked(f) == IF f.data = Ones THEN {Empty, JunkCache} ELSE {f.data}

Parse(f) ==
  IF f.crc # f.data THEN {Empty}
  ELSE IF f.data = Ones THEN {Empty, JunkCache} ELSE {f.data}

\* What is saved in a block, for the properties.
Readable(f) == IF f.crc # f.data \/ f.data = Ones THEN Empty ELSE f.data

Semaphore == sem = None
Writing == sem \in All

\* What a flash write that stops now leaves of the sector: an erase has wiped
\* some of the blocks (or was not begun), or blocks from write.next on are not
\* programmed.
Stopped ==
  IF write.next = 0
  THEN {[b \in Blocks |-> IF b \in wiped THEN ErasedBlock ELSE flash[b]]
          : wiped \in SUBSET Blocks}
  ELSE {flash}

\* ra_nvram_init, and every process starts anew.
Boot ==
  /\ flash' \in IF Writing THEN Stopped ELSE {flash}
  /\ \E c \in [Blocks -> UNION {Parse(flash'[b]) : b \in Blocks}] :
       /\ \A b \in Blocks : c[b] \in Parse(flash'[b])
       /\ fb' = [b \in Blocks |-> [cache |-> c[b], dirty |-> FALSE]]
       /\ env' = c
  /\ sem' = None /\ write' = NoWrite
  /\ lib' = [p \in All |-> NewLib]
  /\ load' = [p \in All |-> NoLoad] /\ rebooting' = FALSE
  /\ script' = "check" /\ pidfile' = FALSE
  /\ ghost' = [ghost EXCEPT !.unsaved = {}]

Init ==
  /\ flash = [b \in Blocks |-> IF Factory[b] = Ones THEN ErasedBlock
                ELSE [crc |-> Factory[b], data |-> Factory[b]]]
  /\ fb = [b \in Blocks |-> [cache |-> Readable(flash[b]), dirty |-> FALSE]]
  /\ env = [b \in Blocks |-> fb[b].cache]
  /\ sem = None /\ write = NoWrite
  /\ lib = [p \in All |-> NewLib]
  /\ load = [p \in All |-> NoLoad] /\ rebooting = FALSE
  /\ script = "check" /\ pidfile = FALSE
  /\ budget = [uses |-> MaxUses, faults |-> MaxFaults]
  /\ ghost = [spoilt |-> FALSE, unsaved |-> {}]

-----------------------------------------------------------------------------
(* libnvram.  A call first makes the process's cache valid (nvram_init);    *)
(* nvram_close and the nvram_clear of a fresh ralink_init do not.           *)
At(p, place) == lib[p].at = place
Returned(l) == [NewLib EXCEPT !.cache = l.cache, !.valid = l.valid,
                              !.dirty = l.dirty]

Call(p, call, n, v) ==
  /\ At(p, "idle")
  /\ lib' = [lib EXCEPT ![p] = [@ EXCEPT
        !.at = IF lib[p].valid \/ call \in {"close", "clear"} THEN call ELSE "init",
        !.call = call, !.name = n, !.value = v]]

\* RALINK_NVRAM_IOCTL_GETALL: nvram_getall fills env.data under the semaphore,
\* copy_to_user reads it after the semaphore is released.
GetAll(p) ==
  /\ At(p, "init") /\ Semaphore
  /\ LET cache == fb[BlockOf[p]].cache IN
       /\ Junk \in DOMAIN cache => cache = JunkCache
       /\ env' = [env EXCEPT ![BlockOf[p]] = IF cache = JunkCache THEN Ones ELSE cache]
  /\ lib' = [lib EXCEPT ![p].at = "parse"]
  /\ UNCHANGED <<flash, fb, sem, write, loader, daemon, budget, ghost>>

Parsed(l, names) ==
  [l EXCEPT !.at = l.call, !.cache = names, !.valid = TRUE, !.dirty = FALSE]

\* An entry that follows the junk finds env.data full: nvram_getall returns -1,
\* nothing is copied, the ioctl returns 0, and libnvram parses the buffer that
\* it has just allocated.
GetAllFails(p) ==
  /\ At(p, "init") /\ Semaphore
  /\ LET cache == fb[BlockOf[p]].cache
     IN Junk \in DOMAIN cache /\ cache # JunkCache
  /\ env' = [env EXCEPT ![BlockOf[p]] = Ones]
  /\ \E names \in SUBSET (Names \cup {Junk}) :
       lib' = [lib EXCEPT ![p] = Parsed(@, names)]
  /\ UNCHANGED <<flash, fb, sem, write, loader, daemon, budget, ghost>>

ParseAll(p) ==
  /\ At(p, "parse")
  /\ LET data == env[BlockOf[p]] IN
     \E names \in IF data = Ones THEN {{}, {Junk}} ELSE {DOMAIN data} :
       lib' = [lib EXCEPT ![p] = Parsed(@, names)]
  /\ UNCHANGED <<kernel, loader, daemon, budget, ghost>>

\* Mutant: a name that is not set is not turned into an empty string.
GetNull(p) ==
  /\ At(p, "get") /\ Semaphore
  /\ LET cache == fb[BlockOf[p]].cache
         n == lib[p].name
     IN lib' = [lib EXCEPT ![p] = [@ EXCEPT !.at = "copy",
                  !.ptr = IF n \in DOMAIN cache THEN cache[n] ELSE "NULL"]]
  /\ UNCHANGED <<kernel, loader, daemon, budget, ghost>>

\* RALINK_NVRAM_IOCTL_GET: nvram_get returns a pointer into the cache, which is
\* read after the semaphore is released.
Get(p) ==
  /\ At(p, "get") /\ Semaphore
  /\ LET cache == fb[BlockOf[p]].cache
         n == lib[p].name
     IN lib' = [lib EXCEPT ![p] = [@ EXCEPT !.at = "copy",
                  !.ptr = IF n \in DOMAIN cache THEN cache[n] ELSE ""]]
  /\ UNCHANGED <<kernel, loader, daemon, budget, ghost>>

\* nvram_bufget returns what the kernel gave only for a name that is in the
\* process's own cache.
GetResult(p) == IF lib[p].name \in lib[p].cache THEN lib[p].ptr ELSE ""

GetReturns(p) ==
  /\ At(p, "copy")
  /\ lib' = [lib EXCEPT ![p] = Returned(@)]

\* kfree of a value that somebody has a pointer to.
Freed(l, block, names) ==
  [q \in All |-> IF l[q].at = "copy" /\ BlockOf[q] = block /\ l[q].ptr # ""
                    /\ l[q].name \in names
                 THEN [l[q] EXCEPT !.ptr = "freed"] ELSE l[q]]

Full(names) == Cardinality(names) >= MAX_CACHE_ENTRY

With(cache, n, v) ==
  [m \in DOMAIN cache \cup {n} |-> IF m = n THEN v ELSE cache[m]]

\* Mutant: a value that replaces another does not make the block dirty.
NvramSetKeepsClean(f, n, v) ==
  IF n \in DOMAIN f.cache THEN [f EXCEPT !.cache = With(f.cache, n, v)]
  ELSE IF Full(DOMAIN f.cache) THEN f
  ELSE [cache |-> With(f.cache, n, v), dirty |-> TRUE]

\* The kernel's nvram_set.  A full cache makes it return -1, and the ioctl
\* returns 0 all the same.
NvramSet(f, n, v) ==
  IF n \notin DOMAIN f.cache /\ Full(DOMAIN f.cache) THEN f
  ELSE [cache |-> With(f.cache, n, v), dirty |-> TRUE]

\* nvram_bufset: the ioctl, then the process's own cache, unless that is full.
Set(p) ==
  /\ At(p, "set") /\ Semaphore
  /\ LET b == BlockOf[p]
         n == lib[p].name
         refused == NvramSet(fb[b], n, lib[p].value) = fb[b] /\ n \notin DOMAIN fb[b].cache
         own == lib[p].cache
         l == [lib EXCEPT ![p] =
                 IF n \notin own /\ Full(own) THEN Returned(@)
                 ELSE Returned([@ EXCEPT !.cache = own \cup {n}, !.dirty = TRUE])]
     IN /\ fb' = [fb EXCEPT ![b] = NvramSet(fb[b], n, lib[p].value)]
        /\ lib' = Freed(l, b, {n})
        /\ ghost' = [ghost EXCEPT !.spoilt = @ \/ (refused /\ load[p].at # "none")]
  /\ UNCHANGED <<flash, env, sem, write, loader, daemon, budget>>

\* What nvram_commit leaves of the process's state; nvram_close then frees it.
Committed(l) ==
  IF l.call = "close" THEN NewLib ELSE Returned([l EXCEPT !.dirty = FALSE])

\* The flash write of nvram_commit or nvram_clear begins.
BeginWrite(p, data) ==
  /\ sem' = p
  /\ env' = [env EXCEPT ![BlockOf[p]] = data]
  /\ write' = [NoWrite EXCEPT !.block = BlockOf[p],
                              !.before = [b \in Blocks |-> Readable(flash[b])]]
  /\ UNCHANGED <<flash, loader, daemon, budget>>

\* p has cleared the block of the settings and not set all of its file yet.
Renewing(p) == load[p].at = "renew" /\ ~At(p, "clear")

\* A renew of another process is under way in p's block.
Disturbs(p) == BlockOf[p] = RT2860_NVRAM /\ \E q \in All \ {p} : Renewing(q)

\* RALINK_NVRAM_IOCTL_COMMIT
CommitClean(p) ==
  /\ At(p, "commit") /\ Semaphore
  /\ ~fb[BlockOf[p]].dirty
  /\ lib' = [lib EXCEPT ![p] = Committed(@)]
  /\ UNCHANGED <<kernel, loader, daemon, budget, ghost>>

CommitDirty(p) ==
  /\ At(p, "commit") /\ Semaphore
  /\ fb[BlockOf[p]].dirty /\ Junk \notin DOMAIN fb[BlockOf[p]].cache
  /\ BeginWrite(p, fb[BlockOf[p]].cache)
  /\ lib' = [lib EXCEPT ![p].at = "flash"]
  /\ ghost' = [ghost EXCEPT !.spoilt = @ \/ Disturbs(p)]
  /\ UNCHANGED fb

\* What was set beside the junk finds env.data full: nvram_commit returns -1,
\* the block stays dirty and the ioctl returns 0.
CommitFails(p) ==
  /\ At(p, "commit") /\ Semaphore
  /\ fb[BlockOf[p]].dirty /\ Junk \in DOMAIN fb[BlockOf[p]].cache
  /\ env' = [env EXCEPT ![BlockOf[p]] = Ones]
  /\ lib' = [lib EXCEPT ![p] = Committed(@)]
  /\ UNCHANGED <<flash, fb, sem, write, loader, daemon, budget, ghost>>

\* snprintf of the junk overruns env.data and the process dies of it.
Overrun(p) ==
  /\ At(p, "init") \/ (At(p, "commit") /\ fb[BlockOf[p]].dirty)
  /\ Semaphore /\ Junk \in DOMAIN fb[BlockOf[p]].cache
  /\ sem' = Oops
  /\ env' = [env EXCEPT ![BlockOf[p]] = Ones]
  /\ lib' = [lib EXCEPT ![p].at = "dead"]
  /\ UNCHANGED <<flash, fb, write, loader, daemon, budget, ghost>>

\* nvram_close
Close(p) ==
  /\ At(p, "close")
  /\ lib' = [lib EXCEPT ![p] = IF lib[p].valid /\ lib[p].dirty
                               THEN [@ EXCEPT !.at = "commit"] ELSE Committed(@)]
  /\ UNCHANGED <<kernel, loader, daemon, budget, ghost>>

\* RALINK_NVRAM_IOCTL_CLEAR: ra_nvram_close frees the cache, then all ones are
\* written with their CRC.
Clear(p) ==
  /\ At(p, "clear") /\ Semaphore
  /\ fb' = [fb EXCEPT ![BlockOf[p]].cache = Empty]
  /\ BeginWrite(p, Ones)
  /\ lib' = Freed([lib EXCEPT ![p].at = "flash"], BlockOf[p], Names)
  /\ ghost' = [ghost EXCEPT !.spoilt = @ \/ Disturbs(p)]

-----------------------------------------------------------------------------
(* ra_mtd_write_nm, called for the CRC and then for the data: the whole     *)
(* sector is read, patched, erased and programmed.  Each of these may fail. *)

Patch(f) ==
  IF write.part = "crc" THEN [f EXCEPT !.crc = env[write.block]]
  ELSE [f EXCEPT !.data = env[write.block]]

\* Mutant: the semaphore is not released.
WriteReturnsNoUp(failed) ==
  IF write.part = "crc"
  THEN /\ write' = [write EXCEPT !.part = "data", !.next = 0, !.failed = failed]
       /\ UNCHANGED <<fb, sem, lib, ghost>>
  ELSE /\ fb' = [fb EXCEPT ![write.block].dirty = FALSE]
       /\ write' = NoWrite
       /\ UNCHANGED <<sem, lib, ghost>>

\* ra_mtd_write_nm has returned; its result is not looked at.
WriteReturns(failed) ==
  IF write.part = "crc"
  THEN /\ write' = [write EXCEPT !.part = "data", !.next = 0, !.failed = failed]
       /\ UNCHANGED <<fb, sem, lib, ghost>>
  ELSE /\ fb' = [fb EXCEPT ![write.block].dirty = FALSE]
       /\ sem' = None /\ write' = NoWrite
       /\ lib' = [lib EXCEPT ![sem] = Committed(@)]
       /\ ghost' = [ghost EXCEPT !.unsaved =
                      IF failed
                      THEN @ \cup {write.block} \cup
                           {b \in Blocks : Readable(flash'[b]) # write.before[b]}
                      ELSE @ \ {write.block}]

Erase ==
  /\ Writing /\ write.next = 0
  /\ flash' = [b \in Blocks |-> ErasedBlock]
  /\ write' = [write EXCEPT !.next = 1,
                 !.bak = [flash EXCEPT ![write.block] = Patch(@)]]
  /\ UNCHANGED <<fb, env, sem, lib, loader, daemon, budget, ghost>>

Program ==
  /\ Writing /\ write.next > 0
  /\ flash' = [flash EXCEPT ![write.next] = write.bak[write.next]]
  /\ IF write.next < FLASH_BLOCK_NUM
     THEN /\ write' = [write EXCEPT !.next = @ + 1]
          /\ UNCHANGED <<fb, sem, lib, ghost>>
     ELSE WriteReturns(write.failed)
  /\ UNCHANGED <<env, loader, daemon, budget>>

\* No memory for the sector's copy, or the sector cannot be read; the erase
\* fails; or the write of the copy does.
WriteFails ==
  /\ Writing /\ budget.faults > 0
  /\ budget' = [budget EXCEPT !.faults = @ - 1]
  /\ flash' \in Stopped
  /\ WriteReturns(TRUE)
  /\ UNCHANGED <<env, loader, daemon>>

FlashStep == Erase \/ Program \/ WriteFails

LibStep(p) ==
  \/ GetAll(p) \/ GetAllFails(p) \/ ParseAll(p) \/ Get(p) \/ Set(p)
  \/ CommitClean(p) \/ CommitDirty(p) \/ CommitFails(p) \/ Overrun(p)
  \/ Close(p) \/ Clear(p)

-----------------------------------------------------------------------------
(* `ralink_init clear 2860' and then `renew', each a process with a         *)
(* libnvram of its own that the caller waits for; what the caller has in    *)
(* its own cache is not looked at again.                                    *)
StartLoad(p, file, upload) ==
  /\ load[p].at = "none"
  /\ lib' = [lib EXCEPT ![p] = [NewLib EXCEPT !.at = "clear", !.call = "clear"]]
  /\ load' = [load EXCEPT ![p] = [at |-> "renew", file |-> file, done |-> 0,
                                  upload |-> upload]]
  /\ UNCHANGED rebooting

\* renew_nvram sets the names in the order of the file and commits once.
RenewSet(p) ==
  /\ load[p].at = "renew" /\ load[p].done < Len(load[p].file)
  /\ \E v \in IF load[p].upload THEN Values ELSE {"1"} :
       Call(p, "set", load[p].file[load[p].done + 1], v)
  /\ load' = [load EXCEPT ![p].done = @ + 1]
  /\ UNCHANGED <<kernel, rebooting, daemon, budget, ghost>>

\* Mutant: the last line of the file is not read.
RenewCommitEarly(p) ==
  /\ load[p].at = "renew" /\ load[p].file # <<>>
  /\ load[p].done = Len(load[p].file) - 1
  /\ Call(p, "commit", WebInit, "1")
  /\ load' = [load EXCEPT ![p].at = "end"]
  /\ UNCHANGED <<kernel, rebooting, daemon, budget, ghost>>

RenewCommit(p) ==
  /\ load[p].at = "renew" /\ load[p].file # <<>>
  /\ load[p].done = Len(load[p].file)
  /\ Call(p, "commit", WebInit, "1")
  /\ load' = [load EXCEPT ![p].at = "end"]
  /\ UNCHANGED <<kernel, rebooting, daemon, budget, ghost>>

\* The file cannot be opened, or has no setting to begin with: nothing is set,
\* nothing is committed, and the caller does not notice.
RenewFails(p) ==
  /\ load[p].at = "renew" /\ load[p].file = <<>> /\ At(p, "idle")
  /\ load' = [load EXCEPT ![p].at = "end"]
  /\ UNCHANGED <<kernel, lib, rebooting, daemon, budget, ghost>>

\* main of nvram_daemon goes on to nvram_close; whoever else loads a file calls
\* reboot.
LoadEnds(p) ==
  /\ load[p].at = "end" /\ At(p, "idle")
  /\ load' = [load EXCEPT ![p] = NoLoad]
  /\ lib' = [lib EXCEPT ![p] = NewLib]
  /\ IF p = Daemon /\ script = "load"
     THEN script' = "close" /\ UNCHANGED rebooting
     ELSE rebooting' = TRUE /\ UNCHANGED script
  /\ UNCHANGED <<kernel, pidfile, budget, ghost>>

LoadStep(p) == RenewSet(p) \/ RenewCommit(p) \/ RenewFails(p) \/ LoadEnds(p)

\* The processes are killed; ra_nvram_exit, which would commit what is dirty, is
\* never called.
Reboot ==
  /\ rebooting
  /\ Boot
  /\ UNCHANGED budget

-----------------------------------------------------------------------------
(* nvram_daemon                                                             *)

\* main: nvram_bufget(RT2860_NVRAM, "WebInit"), and loadDefault if it is not "1".
Check ==
  /\ script = "check" /\ Call(Daemon, "get", WebInit, "1")
  /\ script' = "test"
  /\ UNCHANGED <<kernel, loader, pidfile, budget, ghost>>

TestPasses ==
  /\ script = "test" /\ GetReturns(Daemon)
  /\ GetResult(Daemon) \in {"1", "freed"}
  /\ script' = "close"
  /\ UNCHANGED <<kernel, loader, pidfile, budget, ghost>>

LoadDefault ==
  /\ script = "test" /\ At(Daemon, "copy") /\ GetResult(Daemon) # "1"
  /\ StartLoad(Daemon, Defaults, FALSE)
  /\ script' = "load"
  /\ UNCHANGED <<kernel, pidfile, budget, ghost>>

DaemonClose ==
  /\ script = "close" /\ Call(Daemon, "close", WebInit, "1")
  /\ script' = "gpio"
  /\ UNCHANGED <<kernel, loader, pidfile, budget, ghost>>

\* initGpio, which installs the handler of SIGUSR2; if the device or one of its
\* ioctls fails, main exits.
InitGpio ==
  /\ script = "gpio" /\ At(Daemon, "idle")
  /\ script' \in {"pid", "exited"}
  /\ UNCHANGED <<kernel, lib, loader, pidfile, budget, ghost>>

\* pidfile_acquire, pidfile_write_release, then pause for ever.
WritePid ==
  /\ script = "pid" /\ load[Daemon].at = "none"
  /\ script' = "pause" /\ pidfile' = TRUE
  /\ UNCHANGED <<kernel, lib, loader, budget, ghost>>

\* nvramIrqHandler(SIGUSR2): loadDefault and reboot, and main goes on where it
\* was.
Restore ==
  /\ script \in {"pid", "pause"} /\ budget.uses > 0
  /\ budget' = [budget EXCEPT !.uses = @ - 1]
  /\ StartLoad(Daemon, Defaults, FALSE)
  /\ UNCHANGED <<kernel, daemon, ghost>>

DaemonStep ==
  \/ Check \/ TestPasses \/ LoadDefault \/ LoadStep(Daemon)
  \/ DaemonClose \/ InitGpio \/ WritePid

-----------------------------------------------------------------------------
(* The other processes: the web server, scripts calling nvram_get and       *)
(* nvram_set, the 3G dialler.  They read, set, commit and close as they     *)
(* like, and may exit without closing.  They set WebInit only by loading a  *)
(* file.                                                                    *)
ProcCalls(p, call, n, v) == load[p].at = "none" /\ Call(p, call, n, v)

ProcGets(p) ==
  /\ GetReturns(p) \/ \E n \in Names : ProcCalls(p, "get", n, "1")
  /\ UNCHANGED <<kernel, loader, daemon, budget, ghost>>

ProcSets(p) ==
  /\ budget.uses > 0
  /\ \E n \in Names \ {WebInit}, v \in UserValues : ProcCalls(p, "set", n, v)
  /\ budget' = [budget EXCEPT !.uses = @ - 1]
  /\ UNCHANGED <<kernel, loader, daemon, ghost>>

ProcCommits(p) ==
  /\ ProcCalls(p, "commit", WebInit, "1")
  /\ UNCHANGED <<kernel, loader, daemon, budget, ghost>>

ProcCloses(p) ==
  /\ lib[p].valid /\ ProcCalls(p, "close", WebInit, "1")
  /\ UNCHANGED <<kernel, loader, daemon, budget, ghost>>

ProcExits(p) ==
  /\ At(p, "idle") /\ load[p].at = "none"
  /\ lib' = [lib EXCEPT ![p] = NewLib]
  /\ UNCHANGED <<kernel, loader, daemon, budget, ghost>>

\* A process that uses the block of the settings loads a file into it.
ProcLoads(p, file, upload) ==
  /\ At(p, "idle") /\ BlockOf[p] = RT2860_NVRAM /\ budget.uses > 0
  /\ budget' = [budget EXCEPT !.uses = @ - 1]
  /\ StartLoad(p, file, upload)
  /\ UNCHANGED <<kernel, daemon>>

\* "Load factory defaults" of the web server, of its signal handler, of the
\* remote management, of the application interface and of the 3G dialler.
ProcResets(p) == ProcLoads(p, Defaults, FALSE) /\ UNCHANGED ghost

HasDefaults(file) ==
  \A i \in DOMAIN Defaults : \E j \in DOMAIN file : file[j] = Defaults[i]

\* import of upload_settings.cgi: nothing is known of the file.
ProcUploads(p) ==
  \E file \in UserFiles :
    /\ ProcLoads(p, file, TRUE)
    /\ ghost' = [ghost EXCEPT !.spoilt = @ \/ ~HasDefaults(file)]

ProcStep(p) ==
  \/ ProcGets(p) \/ ProcSets(p) \/ ProcCommits(p) \/ ProcCloses(p)
  \/ ProcExits(p) \/ ProcResets(p) \/ ProcUploads(p) \/ LoadStep(p)

\* The power goes and comes back: by accident, or because nvram_sem is never
\* released and nothing that needs it answers any more.
PowerCut ==
  /\ \/ budget.faults > 0 /\ budget' = [budget EXCEPT !.faults = @ - 1]
     \/ sem = Oops /\ UNCHANGED budget
  /\ Boot

Next ==
  \/ FlashStep \/ DaemonStep \/ Restore \/ Reboot \/ PowerCut
  \/ \E p \in All : LibStep(p)
  \/ \E p \in Procs : ProcStep(p)

Spec == Init /\ [][Next]_vars

\* A flash write runs on.  down() queues the daemon behind the processes that
\* hold or wait for nvram_sem, so it gets its turn however busy they are.
Fairness ==
  /\ WF_vars(Erase \/ Program)
  /\ SF_vars(DaemonStep \/ LibStep(Daemon))

FairSpec == Spec /\ Fairness
-----------------------------------------------------------------------------
(* Properties                                                               *)

\* The kernel module and the flash keep the promise of SettingsStore: power
\* may go between any two steps of a commit, a clear or the erase and write of
\* the sector, and every block comes up with what was saved, what was being
\* saved, or empty, and never with a mixture.
Store == INSTANCE SettingsStore WITH
           live <- [b \in Blocks |-> fb[b].cache],
           saved <- IF Writing THEN write.before
                    ELSE [b \in Blocks |-> Readable(flash[b])],
           saving <- IF Writing THEN {write.block} ELSE {},
           lost <- ghost.unsaved

ImplementsStore == Store!Spec

\* A block that is not dirty is on the flash as it is in the cache, so that
\* the "nothing to be committed" of nvram_commit never drops a setting.  Two
\* exceptions: a block that a failed write was for or has wiped, which neither
\* nvram_commit nor nvram_clear notices, until it is written again; and the
\* junk of a cleared block.
CleanMeansSaved ==
  ~Writing => \A b \in Blocks \ ghost.unsaved :
    fb[b].dirty \/ Readable(flash[b]) = fb[b].cache \/ fb[b].cache = JunkCache

\* The web server waits for the pid file because "Set Default should be done by
\* nvram_daemon" (setDefault in goahead.c): while the file is there and nobody
\* is loading settings anew, every default has a value, whatever power cuts and
\* failed writes hit an earlier commit or load.  Three things can spoil that,
\* for ever: a commit or a clear by another process in the middle of a renew
\* (WebInit comes first in the file), a full cache, and an uploaded file in which
\* a default is missing.
PidMeansDefaults ==
  pidfile /\ (\A p \in All : ~Renewing(p)) => ghost.spoilt \/
    \A i \in DOMAIN Defaults : Defaults[i] \in DOMAIN fb[RT2860_NVRAM].cache

\* nvram_daemon finishes: from every state in which a power cut can leave the
\* flash, and however others use the NVRAM, it gets to pause, or exits because
\* it cannot have its button, unless a process has died with nvram_sem.
Finished == script \in {"pause", "exited"} \/ sem = Oops
DaemonFinishes == ~Finished ~> Finished

\* What the comment in nvram_get says: "Get the fresh value from Kernel NVRAM
\* moduel, so there is no need to do nvram_close() and nvram_init() again".
\* A name that another process has added since is reported as not set.
GetIsFresh ==
  \A p \in Procs : At(p, "copy") /\ GetResult(p) = "" => lib[p].ptr = ""
=============================================================================
