-------------------------- MODULE NvramDaemonProofs --------------------------
(***************************************************************************)
(* nvram_daemon and the defaults.  That every default has a value while    *)
(* the pid file is there rests on what WebInit stands for, on the flash    *)
(* and in the cache, through every power cut, failed write and load: a     *)
(* load commits after the last name of its file, so that only a cache that *)
(* is being renewed can have WebInit and lack another default.             *)
(***************************************************************************)
EXTENDS NvramProofs

cache == fb[RT2860_NVRAM].cache
me == lib[Daemon]

\* Whoever writes the flash waits for it in its commit or clear.
Holder == Writing => At(sem, "flash")

\* The call of libnvram in which a process can be, by what it loads: without a
\* load it clears nothing and does not set WebInit.
InPlace(p) ==
  /\ load[p].at = "none" =>
       /\ lib[p].call # "clear" /\ lib[p].at # "clear"
       /\ lib[p].at = "set" => lib[p].call = "set"
       /\ lib[p].call = "set" => lib[p].name # WebInit
  /\ load[p].at = "renew" =>
       \/ lib[p].at \in {"idle", "dead"}
       \/ lib[p].at \in {"init", "parse", "set"} /\ lib[p].call = "set"
       \/ lib[p].at \in {"clear", "flash"} /\ load[p].done = 0
  /\ load[p].at = "end" =>
       \/ lib[p].at \in {"idle", "dead"}
       \/ lib[p].at \in {"init", "parse", "commit", "flash"} /\ lib[p].call = "commit"
  /\ load[p].at # "none" => BlockOf[p] = RT2860_NVRAM

\* The same for the daemon, by the point that its main has reached.
DaemonInPlace ==
  /\ script \in {"check", "close"} => me.at = "idle"
  /\ script = "test" => /\ me.at \in {"init", "parse", "get", "copy", "dead"}
                        /\ me.call = "get" /\ me.name = WebInit
  /\ script = "gpio" => \/ me.at = "idle"
                        \/ me.at \in {"close", "commit", "flash", "dead"} /\ me.call = "close"
  /\ script \in {"check", "test", "close", "gpio"} => load[Daemon].at = "none"
  /\ script \in {"pid", "pause", "exited"} /\ load[Daemon].at = "none" => me.at = "idle"
  /\ script = "load" => load[Daemon].at # "none"
  /\ pidfile => script = "pause"

Places == Holder /\ DaemonInPlace /\ \A p \in All : InPlace(p)

-----------------------------------------------------------------------------
\* Nobody has begun to renew the settings and not finished.
Calm == \A q \in All : ~Renewing(q)

SetSoFar(file, k) == \A i \in 1 .. k : file[i] \in DOMAIN cache

\* The names before the one that is being set have a value.
Progress(q) ==
  Renewing(q) =>
    /\ load[q].done <= Len(load[q].file)
    /\ lib[q].at = "idle" => SetSoFar(load[q].file, load[q].done)
    /\ lib[q].at \in {"init", "parse", "set"} =>
         /\ load[q].done >= 1 /\ lib[q].name = load[q].file[load[q].done]
         /\ SetSoFar(load[q].file, load[q].done - 1)

FileComplete(q) == load[q].at # "none" => HasDefaults(load[q].file)

Loads == \A q \in All : Progress(q) /\ FileComplete(q)

\* WebInit stands for all defaults in the cache, unless they are being set...
CacheComplete == Calm => Complete(cache)

\* ... in what is on the flash, and in what is on its way there.
SavedComplete ==
  /\ Complete(saved[RT2860_NVRAM])
  /\ RT2860_NVRAM \in saving => Complete(cache)

\* The daemon has found WebInit, or has loaded the defaults.
Trusted ==
  \/ script \in {"close", "gpio", "pid", "pause", "exited"}
  \/ script = "load" /\ load[Daemon].at = "end"
  \/ script = "test" /\ me.at = "copy" /\ me.ptr # ""

WebInitSet == Trusted /\ Calm => WebInit \in DOMAIN cache

Loaded == CacheComplete /\ SavedComplete /\ WebInitSet /\ Loads

DInv == KInv /\ Places /\ (ghost.spoilt \/ Loaded)

-----------------------------------------------------------------------------
(* Where a step leaves a process: in the same call, one place further, or  *)
(* returned from it.                                                       *)
Stays(q) ==
  lib'[q].at = lib[q].at /\ lib'[q].call = lib[q].call /\ lib'[q].name = lib[q].name
Moves(p, from, to) ==
  /\ lib[p].at = from /\ lib'[p].at = to
  /\ lib'[p].call = lib[p].call /\ lib'[p].name = lib[p].name
Ends(p, from) == lib[p].at = from /\ lib'[p].at = "idle" /\ lib'[p].call = "get"

LEMMA ReturnedIdle ==
  ASSUME NEW l
  PROVE  /\ Returned(l).at = "idle" /\ Returned(l).call = "get"
         /\ Committed(l).at = "idle" /\ Committed(l).call = "get"
  BY DEF Returned, Committed, NewLib

LEMMA ParsedPlace ==
  ASSUME NEW l \in LibRecord, NEW names
  PROVE  /\ Parsed(l, names).at = l.call /\ Parsed(l, names).call = l.call
         /\ Parsed(l, names).name = l.name
  BY DEF Parsed, LibRecord

LEMMA LibPlace ==
  ASSUME TypeOK, NEW p \in All, LibStep(p)
  PROVE  /\ \A q \in All \ {p} : Stays(q)
         /\ UNCHANGED <<loader, daemon>>
         /\ \/ /\ sem' = sem
               /\ \/ Moves(p, "init", "parse") \/ Moves(p, "init", lib[p].call)
                  \/ Moves(p, "parse", lib[p].call)
                  \/ Moves(p, "get", "copy") \/ Moves(p, "close", "commit")
                  \/ Ends(p, "set") \/ Ends(p, "commit") \/ Ends(p, "close")
            \/ /\ sem = None /\ sem' = p
               /\ Moves(p, "commit", "flash") \/ Moves(p, "clear", "flash")
            \/ /\ sem = None /\ sem' = Oops
               /\ Moves(p, "init", "dead") \/ Moves(p, "commit", "dead")
  <1>0. lib \in [All -> LibRecord] /\ lib[p] \in LibRecord
    BY DEF TypeOK
  <1> USE DEF Stays, Moves, Ends
  <1>1. CASE GetAll(p)
    BY <1>0, <1>1 DEF GetAll, At, LibRecord
  <1>2. CASE ParseAll(p)
    <2>1. PICK names : lib' = [lib EXCEPT ![p] = Parsed(lib[p], names)]
      BY <1>2 DEF ParseAll
    <2> QED
      BY <1>0, <1>2, <2>1, ParsedPlace DEF ParseAll, At, kernel
  <1>3. CASE Get(p)
    BY <1>0, <1>3 DEF Get, At, LibRecord, kernel
  <1>4. CASE Set(p)
    <2> DEFINE own == lib[p].cache
               m == IF lib[p].name \notin own /\ Full(own) THEN Returned(lib[p])
                    ELSE Returned([lib[p] EXCEPT !.cache = own \cup {lib[p].name},
                                                 !.dirty = TRUE])
               l == [lib EXCEPT ![p] = m]
    <2>1. lib' = Freed(l, BlockOf[p], {lib[p].name}) /\ UNCHANGED <<sem, loader, daemon>>
          /\ lib[p].at = "set"
      BY <1>4 DEF Set, At
    <2>2. m \in LibRecord /\ m.at = "idle" /\ m.call = "get"
      <3>1. [lib[p] EXCEPT !.cache = own \cup {lib[p].name}, !.dirty = TRUE] \in LibRecord
        BY <1>0 DEF LibRecord
      <3> QED
        BY <1>0, <3>1, LibReturns, ReturnedIdle
    <2> HIDE DEF m
    <2>3. l \in [All -> LibRecord] /\ l[p] = m /\ \A q \in All \ {p} : l[q] = lib[q]
      BY <1>0, <2>2
    <2> HIDE DEF l
    <2>4. \A q \in All : lib'[q].at = l[q].at /\ lib'[q].call = l[q].call
                           /\ lib'[q].name = l[q].name
      BY <2>1, <2>3 DEF Freed, LibRecord
    <2> QED
      BY <2>1, <2>2, <2>3, <2>4
  <1>5. CASE CommitClean(p)
    BY <1>0, <1>5, ReturnedIdle DEF CommitClean, At, kernel
  <1>6. CASE CommitDirty(p)
    BY <1>0, <1>6 DEF CommitDirty, BeginWrite, Semaphore, At, LibRecord
  <1>7. CASE Close(p)
    BY <1>0, <1>7, ReturnedIdle DEF Close, At, kernel, LibRecord
  <1>8. CASE Clear(p)
    <2> DEFINE l == [lib EXCEPT ![p].at = "flash"]
    <2>1. lib' = Freed(l, BlockOf[p], Names) /\ sem = None /\ sem' = p
          /\ UNCHANGED <<loader, daemon>> /\ lib[p].at = "clear"
      BY <1>8 DEF Clear, BeginWrite, Semaphore, At
    <2>2. /\ l \in [All -> LibRecord] /\ \A q \in All \ {p} : l[q] = lib[q]
          /\ l[p].at = "flash" /\ l[p].call = lib[p].call /\ l[p].name = lib[p].name
      BY <1>0 DEF LibRecord
    <2> HIDE DEF l
    <2>3. \A q \in All : lib'[q].at = l[q].at /\ lib'[q].call = l[q].call
                           /\ lib'[q].name = l[q].name
      BY <2>1, <2>2 DEF Freed, LibRecord
    <2> QED
      BY <2>1, <2>2, <2>3
  <1>9. CASE GetAllFails(p)
    <2>1. PICK names : lib' = [lib EXCEPT ![p] = Parsed(lib[p], names)]
      BY <1>9 DEF GetAllFails
    <2> QED
      BY <1>0, <1>9, <2>1, ParsedPlace DEF GetAllFails, At
  <1>10. CASE CommitFails(p)
    BY <1>0, <1>10, ReturnedIdle DEF CommitFails, At
  <1>11. CASE Overrun(p)
    BY <1>0, <1>11 DEF Overrun, Semaphore, At, LibRecord
  <1> QED
    BY <1>1, <1>2, <1>3, <1>4, <1>5, <1>6, <1>7, <1>8, <1>9, <1>10, <1>11 DEF LibStep

\* A flash step goes on, or ends the call of the process that waits for it.
LEMMA FlashPlace ==
  ASSUME TypeOK, Holder, FlashStep
  PROVE  /\ UNCHANGED <<loader, daemon>>
         /\ \/ UNCHANGED <<sem, lib>>
            \/ /\ sem \in All /\ sem' = None /\ Ends(sem, "flash")
               /\ \A q \in All \ {sem} : lib'[q] = lib[q]
  <1>1. sem \in All /\ lib[sem].at = "flash"
    BY DEF FlashStep, Erase, Program, WriteFails, Holder, Writing, At
  <1>2. ASSUME NEW failed, WriteReturns(failed)
        PROVE  \/ UNCHANGED <<sem, lib>>
               \/ sem' = None /\ lib' = [lib EXCEPT ![sem] = Committed(lib[sem])]
    BY <1>2 DEF WriteReturns
  <1>3. /\ UNCHANGED <<loader, daemon>>
        /\ \/ UNCHANGED <<sem, lib>>
           \/ sem' = None /\ lib' = [lib EXCEPT ![sem] = Committed(lib[sem])]
    BY <1>2 DEF FlashStep, Erase, Program, WriteFails
  <1> QED
    BY <1>1, <1>3, ReturnedIdle DEF Ends, TypeOK

\* The calls that a process can make.
LEMMA CallPlace ==
  ASSUME TypeOK, NEW p \in All, NEW call, NEW n, NEW v, Call(p, call, n, v)
  PROVE  /\ lib[p].at = "idle" /\ lib'[p].call = call /\ lib'[p].name = n
         /\ lib'[p].at \in {call, "init"}
         /\ call \in {"close", "clear"} => lib'[p].at = call
         /\ \A q \in All \ {p} : lib'[q] = lib[q]
  BY DEF Call, At, TypeOK, LibRecord

\* A load begins with the clear.
LEMMA StartPlace ==
  ASSUME TypeOK, NEW p \in All, NEW file, NEW upload, StartLoad(p, file, upload)
  PROVE  /\ load[p].at = "none"
         /\ lib'[p].at = "clear"
         /\ load'[p].at = "renew" /\ load'[p].file = file /\ load'[p].done = 0
         /\ \A q \in All \ {p} : lib'[q] = lib[q] /\ load'[q] = load[q]
  BY DEF StartLoad, TypeOK, NewLib

\* The steps of a load.
LEMMA LoadPlace ==
  ASSUME TypeOK, NEW p \in All, LoadStep(p)
  PROVE  /\ UNCHANGED <<kernel, pidfile, ghost>>
         /\ \A q \in All \ {p} : lib'[q] = lib[q] /\ load'[q] = load[q]
         /\ lib[p].at = "idle"
         /\ \/ /\ load[p].at = "renew" /\ load'[p].at = "renew" /\ script' = script
               /\ load'[p].file = load[p].file /\ load'[p].done = load[p].done + 1
               /\ load[p].done < Len(load[p].file)
               /\ lib'[p].at \in {"set", "init"} /\ lib'[p].call = "set"
               /\ lib'[p].name = load[p].file[load[p].done + 1]
            \/ /\ load[p].at = "renew" /\ load'[p].at = "end" /\ script' = script
               /\ load'[p].file = load[p].file
               /\ load[p].done = Len(load[p].file) \/ load[p].file = <<>>
               /\ \/ lib'[p].at \in {"commit", "init"} /\ lib'[p].call = "commit"
                  \/ lib'[p].at = "idle"
            \/ /\ load[p].at = "end" /\ load'[p] = NoLoad /\ lib'[p] = NewLib
               /\ script' = IF p = Daemon /\ script = "load" THEN "close" ELSE script
  <1>0. load \in [All -> LoadRecord] /\ load[p] \in LoadRecord
    BY DEF TypeOK
  <1>1. CASE RenewSet(p)
    <2> DEFINE n == load[p].file[load[p].done + 1]
    <2>1. PICK v : Call(p, "set", n, v)
      BY <1>1 DEF RenewSet
    <2>2. /\ lib[p].at = "idle" /\ lib'[p].call = "set" /\ lib'[p].name = n
          /\ lib'[p].at \in {"set", "init"}
          /\ \A q \in All \ {p} : lib'[q] = lib[q]
      BY <2>1, CallPlace
    <2> HIDE DEF n
    <2>3. /\ load[p].at = "renew" /\ load'[p].at = "renew" /\ load'[p].file = load[p].file
          /\ load'[p].done = load[p].done + 1 /\ load[p].done < Len(load[p].file)
          /\ \A q \in All \ {p} : load'[q] = load[q]
      BY <1>0, <1>1 DEF RenewSet, LoadRecord
    <2> QED
      BY <1>1, <2>2, <2>3 DEF RenewSet, daemon, n
  <1>2. CASE RenewCommit(p)
    <2>1. /\ lib[p].at = "idle" /\ lib'[p].call = "commit" /\ lib'[p].at \in {"commit", "init"}
          /\ \A q \in All \ {p} : lib'[q] = lib[q]
      BY <1>2, CallPlace DEF RenewCommit
    <2>2. /\ load[p].at = "renew" /\ load'[p].at = "end" /\ load'[p].file = load[p].file
          /\ load[p].done = Len(load[p].file)
          /\ \A q \in All \ {p} : load'[q] = load[q]
      BY <1>0, <1>2 DEF RenewCommit, LoadRecord
    <2> QED
      BY <1>2, <2>1, <2>2 DEF RenewCommit, daemon
  <1>3. CASE RenewFails(p)
    <2>1. /\ load[p].at = "renew" /\ load'[p].at = "end" /\ load'[p].file = load[p].file
          /\ load[p].file = <<>> /\ lib' = lib /\ lib[p].at = "idle"
          /\ \A q \in All \ {p} : load'[q] = load[q]
      BY <1>0, <1>3 DEF RenewFails, LoadRecord, At
    <2> QED
      BY <1>3, <2>1 DEF RenewFails, daemon
  <1>4. CASE LoadEnds(p)
    BY <1>0, <1>4 DEF LoadEnds, At, TypeOK
  <1> QED
    BY <1>1, <1>2, <1>3, <1>4 DEF LoadStep

\* The other steps of a process: calls of libnvram, and the start of a load.
ProcFile(p, file) ==
  /\ lib[p].at = "idle" /\ BlockOf[p] = RT2860_NVRAM /\ \E upload : StartLoad(p, file, upload)
  /\ ghost'.spoilt \/ HasDefaults(file)
  /\ UNCHANGED <<kernel, daemon>>

LEMMA ProcPlace ==
  ASSUME TypeOK, NEW p \in Procs, ProcStep(p), ~LoadStep(p)
  PROVE  \/ \E file : ProcFile(p, file)
         \/ /\ UNCHANGED <<kernel, loader, daemon, ghost>>
            /\ \A q \in All \ {p} : lib'[q] = lib[q]
            /\ lib[p].at = "copy" \/ (lib[p].at = "idle" /\ load[p].at = "none")
            /\ \/ lib'[p].at = "idle" /\ lib'[p].call = "get"
               \/ /\ lib'[p].at \in {lib'[p].call, "init"}
                  /\ lib'[p].call \in {"get", "set", "commit", "close"}
                  /\ lib'[p].call = "set" => lib'[p].name # WebInit
  <1>0. p \in All
    BY DEF All
  <1>1. CASE ProcGets(p)
    <2>1. CASE GetReturns(p)
      BY <1>0, <1>1, <2>1, ReturnedIdle DEF ProcGets, GetReturns, At, TypeOK
    <2>2. CASE \E n \in Names : ProcCalls(p, "get", n, "1")
      BY <1>0, <1>1, <2>2, CallPlace DEF ProcGets, ProcCalls
    <2> QED
      BY <1>1, <2>1, <2>2 DEF ProcGets
  <1>2. CASE ProcSets(p)
    BY <1>0, <1>2, CallPlace DEF ProcSets, ProcCalls
  <1>3. CASE ProcCommits(p)
    BY <1>0, <1>3, CallPlace DEF ProcCommits, ProcCalls
  <1>4. CASE ProcCloses(p)
    BY <1>0, <1>4, CallPlace DEF ProcCloses, ProcCalls
  <1>5. CASE ProcExits(p)
    BY <1>0, <1>5 DEF ProcExits, NewLib, At, TypeOK
  <1>6. CASE ProcResets(p)
    <2>1. HasDefaults(Defaults)
      BY DEF HasDefaults
    <2>2. ProcFile(p, Defaults)
      BY <1>6, <2>1 DEF ProcResets, ProcLoads, ProcFile, At
    <2> QED
      BY <2>2
  <1>7. CASE ProcUploads(p)
    <2>1. PICK file \in UserFiles :
            /\ ProcLoads(p, file, TRUE)
            /\ ghost' = [ghost EXCEPT !.spoilt = @ \/ ~HasDefaults(file)]
      BY <1>7 DEF ProcUploads
    <2>2. ghost'.spoilt \/ HasDefaults(file)
      BY <2>1 DEF TypeOK
    <2>3. ProcFile(p, file)
      BY <2>1, <2>2 DEF ProcLoads, ProcFile, At
    <2> QED
      BY <2>3
  <1> QED
    BY <1>1, <1>2, <1>3, <1>4, <1>5, <1>6, <1>7 DEF ProcStep

-----------------------------------------------------------------------------
(* Places is inductive                                                     *)

LEMMA Actors ==
  /\ Daemon \in All /\ Procs \subseteq All /\ None \notin All /\ Oops \notin All
  /\ Daemon \notin Procs /\ BlockOf[Daemon] = RT2860_NVRAM
  BY ConstantsAssumption DEF ConstantsAssumption, All

LEMMA PlacesBoot ==
  ASSUME sem' = None, lib' = [p \in All |-> NewLib], load' = [p \in All |-> NoLoad],
         script' = "check", pidfile' = FALSE
  PROVE  Places'
  <1>1. \A p \in All : lib'[p].at = "idle" /\ lib'[p].call = "get" /\ load'[p].at = "none"
    BY DEF NewLib, NoLoad
  <1>2. Holder' /\ DaemonInPlace'
    BY <1>1, Actors DEF Holder, Writing, DaemonInPlace, me
  <1> QED
    BY <1>1, <1>2 DEF Places, InPlace

LEMMA PlacesInit == Init => Places
  <1> SUFFICES ASSUME Init PROVE Places
    OBVIOUS
  <1>1. \A p \in All : lib[p].at = "idle" /\ lib[p].call = "get" /\ load[p].at = "none"
    BY DEF Init, NewLib, NoLoad
  <1>2. Holder /\ DaemonInPlace
    BY <1>1, Actors DEF Init, Holder, Writing, DaemonInPlace, me
  <1> QED
    BY <1>1, <1>2 DEF Places, InPlace

\* A step that leaves a process and its load alone.
LEMMA PlaceStays ==
  ASSUME NEW q \in All, InPlace(q), Stays(q), load'[q] = load[q]
  PROVE  InPlace(q)'
  BY DEF InPlace, Stays

LEMMA PlacesLib ==
  ASSUME TypeOK, Places, NEW p \in All, LibStep(p)
  PROVE  Places'
  <1>0. UNCHANGED <<load, script, pidfile>>
    BY LibPlace DEF daemon, loader
  <1>1. Holder'
    <2>1. \/ sem' = sem /\ lib[p].at # "flash"
          \/ sem' = p /\ lib'[p].at = "flash"
          \/ sem' = Oops
      BY LibPlace DEF Moves, Ends
    <2>2. \A q \in All \ {p} : lib'[q].at = lib[q].at
      BY LibPlace DEF Stays
    <2> QED
      BY <2>1, <2>2, Actors DEF Places, Holder, Writing, At
  <1>2. ASSUME NEW q \in All PROVE InPlace(q)'
    <2>0. InPlace(q) /\ load'[q] = load[q]
      BY <1>0 DEF Places
    <2>1. CASE q # p
      BY <2>0, <2>1, LibPlace, PlaceStays
    <2>2. CASE q = p
      BY <2>0, <2>2, LibPlace DEF Moves, Ends, InPlace
    <2> QED
      BY <2>1, <2>2
  <1>3. DaemonInPlace'
    <2>1. CASE p # Daemon
      BY <1>0, <2>1, Actors, LibPlace DEF Stays, Places, DaemonInPlace, me
    <2>2. CASE p = Daemon
      BY <1>0, <2>2, LibPlace DEF Moves, Ends, Places, DaemonInPlace, me
    <2> QED
      BY <2>1, <2>2
  <1> QED
    BY <1>1, <1>2, <1>3 DEF Places

LEMMA PlacesFlash == TypeOK /\ Places /\ FlashStep => Places'
  <1> SUFFICES ASSUME TypeOK, Places, FlashStep PROVE Places'
    OBVIOUS
  <1>0. UNCHANGED <<load, script, pidfile>> /\ Holder
    BY FlashPlace DEF Places, daemon, loader
  <1>1. CASE UNCHANGED <<sem, lib>>
    BY <1>0, <1>1 DEF Places, Holder, Writing, At, InPlace, DaemonInPlace, me
  <1>2. CASE /\ sem \in All /\ sem' = None /\ Ends(sem, "flash")
             /\ \A q \in All \ {sem} : lib'[q] = lib[q]
    <2>1. Holder'
      BY <1>2, Actors DEF Holder, Writing
    <2>2. \A q \in All : InPlace(q)'
      BY <1>0, <1>2 DEF Places, InPlace, Ends
    <2>3. DaemonInPlace'
      BY <1>0, <1>2, Actors DEF Places, DaemonInPlace, Ends, me
    <2> QED
      BY <2>1, <2>2, <2>3 DEF Places
  <1> QED
    BY <1>0, <1>1, <1>2, FlashPlace

\* A step of a process in user space: it does not hold the semaphore.
LEMMA PlacesUser ==
  ASSUME Places, NEW p \in All, sem' = sem,
         lib[p].at # "flash" \/ lib'[p] = lib[p],
         \A q \in All \ {p} : lib'[q] = lib[q] /\ load'[q] = load[q],
         InPlace(p)', DaemonInPlace'
  PROVE  Places'
  <1>1. Holder'
    BY DEF Places, Holder, Writing, At
  <1>2. \A q \in All \ {p} : InPlace(q)'
    BY DEF Places, InPlace
  <1> QED
    BY <1>1, <1>2 DEF Places

LEMMA PlacesStart ==
  ASSUME TypeOK, Places, NEW p \in All, NEW file, NEW upload, StartLoad(p, file, upload),
         lib[p].at # "flash", BlockOf[p] = RT2860_NVRAM, sem' = sem, DaemonInPlace'
  PROVE  Places'
  <1>1. InPlace(p)'
    BY StartPlace DEF InPlace
  <1> QED
    BY <1>1, StartPlace, PlacesUser

LEMMA PlacesLoad ==
  ASSUME TypeOK, Places, NEW p \in All, LoadStep(p)
  PROVE  Places'
  <1>0. BlockOf[p] = RT2860_NVRAM /\ UNCHANGED <<sem, pidfile>>
    BY LoadPlace DEF Places, InPlace, kernel
  <1>a. NoLoad.at = "none" /\ NewLib.at = "idle" /\ NewLib.call = "get"
    BY DEF NoLoad, NewLib
  <1>1. InPlace(p)'
    <2>1. CASE load'[p].at = "renew"
      BY <1>0, <1>a, <2>1, LoadPlace DEF InPlace
    <2>2. CASE load'[p].at = "end"
      BY <1>0, <1>a, <2>2, LoadPlace DEF InPlace
    <2>3. CASE load'[p] = NoLoad /\ lib'[p] = NewLib
      BY <1>a, <2>3 DEF InPlace
    <2> QED
      BY <2>1, <2>2, <2>3, LoadPlace
  <1>2. DaemonInPlace'
    <2>1. CASE p # Daemon
      BY <1>0, <2>1, Actors, LoadPlace DEF Places, DaemonInPlace, me
    <2>2. CASE p = Daemon
      <3>1. CASE load'[p].at # "none" /\ load[p].at # "none" /\ script' = script
        BY <1>0, <2>2, <3>1 DEF Places, DaemonInPlace, me
      <3>2. CASE /\ load[p].at = "end" /\ load'[p] = NoLoad /\ lib'[p] = NewLib
                 /\ script' = IF script = "load" THEN "close" ELSE script
        BY <1>0, <1>a, <2>2, <3>2 DEF Places, DaemonInPlace, me
      <3> QED
        BY <2>2, <3>1, <3>2, LoadPlace
    <2> QED
      BY <2>1, <2>2
  <1> QED
    BY <1>0, <1>1, <1>2, LoadPlace, PlacesUser

LEMMA PlacesProc ==
  ASSUME TypeOK, Places, NEW p \in Procs, ProcStep(p)
  PROVE  Places'
  <1>0. p \in All /\ p # Daemon
    BY Actors
  <1>1. CASE LoadStep(p)
    BY <1>0, <1>1, PlacesLoad
  <1>2. ASSUME NEW file, ProcFile(p, file) PROVE Places'
    <2>1. PICK upload : StartLoad(p, file, upload)
      BY <1>2 DEF ProcFile
    <2>2. UNCHANGED <<sem, script, pidfile>> /\ lib[p].at = "idle" /\ BlockOf[p] = RT2860_NVRAM
      BY <1>2 DEF ProcFile, kernel, daemon
    <2>3. DaemonInPlace'
      BY <1>0, <2>1, <2>2, Actors, StartPlace DEF Places, DaemonInPlace, me
    <2> QED
      BY <1>0, <2>1, <2>2, <2>3, PlacesStart
  <1>3. CASE /\ UNCHANGED <<kernel, loader, daemon, ghost>>
             /\ \A q \in All \ {p} : lib'[q] = lib[q]
             /\ lib[p].at = "copy" \/ (lib[p].at = "idle" /\ load[p].at = "none")
             /\ \/ lib'[p].at = "idle" /\ lib'[p].call = "get"
                \/ /\ lib'[p].at \in {lib'[p].call, "init"}
                   /\ lib'[p].call \in {"get", "set", "commit", "close"}
                   /\ lib'[p].call = "set" => lib'[p].name # WebInit
    <2>1. UNCHANGED <<sem, load, script, pidfile>>
      BY <1>3 DEF kernel, loader, daemon
    <2>2. load[p].at = "none"
      BY <1>0, <1>3 DEF Places, InPlace, TypeOK, LoadRecord
    <2>3. InPlace(p)'
      BY <1>3, <2>1, <2>2 DEF InPlace
    <2>4. DaemonInPlace'
      BY <1>0, <1>3, <2>1, Actors DEF Places, DaemonInPlace, me
    <2> QED
      BY <1>0, <1>3, <2>1, <2>3, <2>4, PlacesUser
  <1> QED
    BY <1>1, <1>2, <1>3, ProcPlace

\* The steps of the daemon's main, and its signal handler.
LEMMA PlacesDaemon ==
  ASSUME TypeOK, Places, DaemonStep \/ Restore
  PROVE  Places'
  <1>0. DaemonInPlace /\ InPlace(Daemon) /\ Daemon \in All /\ BlockOf[Daemon] = RT2860_NVRAM
    BY Actors DEF Places
  <1> USE DEF kernel, loader, daemon
  <1>1. CASE LoadStep(Daemon)
    BY <1>0, <1>1, PlacesLoad
  <1>2. CASE Check \/ DaemonClose
    <2>1. PICK call \in {"get", "close"} : Call(Daemon, call, WebInit, "1")
      BY <1>2 DEF Check, DaemonClose
    <2>2. UNCHANGED <<sem, load, pidfile>> /\ load[Daemon].at = "none"
      BY <1>0, <1>2 DEF Check, DaemonClose, DaemonInPlace
    <2>3. InPlace(Daemon)'
      BY <1>0, <2>1, <2>2, CallPlace DEF InPlace
    <2>4. DaemonInPlace'
      BY <1>0, <1>2, <2>2, CallPlace DEF Check, DaemonClose, DaemonInPlace, me
    <2> QED
      BY <1>0, <2>1, <2>2, <2>3, <2>4, CallPlace, PlacesUser
  <1>3. CASE TestPasses
    <2>1. /\ me.at = "copy" /\ me'.at = "idle" /\ me'.call = "get" /\ script' = "close"
          /\ script = "test" /\ UNCHANGED <<sem, load, pidfile>>
          /\ \A q \in All \ {Daemon} : lib'[q] = lib[q]
      BY <1>0, <1>3, ReturnedIdle DEF TestPasses, GetReturns, At, TypeOK, me
    <2>2. InPlace(Daemon)' /\ DaemonInPlace'
      BY <1>0, <2>1 DEF InPlace, DaemonInPlace, me
    <2> QED
      BY <1>0, <2>1, <2>2, PlacesUser DEF me
  <1>4. CASE LoadDefault \/ Restore
    <2>1. /\ StartLoad(Daemon, Defaults, FALSE) /\ UNCHANGED <<sem, pidfile>>
          /\ load[Daemon].at = "none"
          /\ \/ script = "test" /\ script' = "load" /\ me.at = "copy"
             \/ script \in {"pid", "pause"} /\ script' = script /\ me.at = "idle"
      BY <1>0, <1>4 DEF LoadDefault, Restore, StartLoad, At, DaemonInPlace, me
    <2>2. DaemonInPlace'
      BY <1>0, <2>1, StartPlace DEF DaemonInPlace, me
    <2> QED
      BY <1>0, <2>1, <2>2, PlacesStart DEF me
  <1>5. CASE InitGpio \/ WritePid
    <2>1. UNCHANGED <<sem, lib, load>>
      BY <1>5 DEF InitGpio, WritePid
    <2>2. DaemonInPlace'
      BY <1>0, <1>5, <2>1 DEF InitGpio, WritePid, DaemonInPlace, At, me
    <2> QED
      BY <1>0, <2>1, <2>2, PlacesUser DEF InPlace
  <1> QED
    BY <1>1, <1>2, <1>3, <1>4, <1>5 DEF DaemonStep

LEMMA PlacesNext == TypeOK /\ Places /\ [Next]_vars => Places'
  <1> SUFFICES ASSUME TypeOK, Places, [Next]_vars PROVE Places'
    OBVIOUS
  <1>1. CASE UNCHANGED vars
    BY <1>1 DEF vars, kernel, loader, daemon, Places, Holder, Writing, At, InPlace,
                DaemonInPlace, me
  <1>2. CASE PowerCut \/ Reboot
    BY <1>2, PlacesBoot DEF PowerCut, Reboot, Boot
  <1> QED
    BY <1>1, <1>2, PlacesFlash, PlacesDaemon, PlacesLib, PlacesProc DEF Next

-----------------------------------------------------------------------------
(* The cache of the router's settings, and what is saved of it             *)

LEMMA RouterBlock ==
  /\ RT2860_NVRAM \in Blocks
  /\ live[RT2860_NVRAM] = cache /\ live'[RT2860_NVRAM] = cache'
  BY ConstantsAssumption DEF ConstantsAssumption, live, cache

LEMMA CompleteEmpty == Complete(Empty) /\ Complete(JunkCache)
  BY ConstantsAssumption DEF ConstantsAssumption, Complete, Empty, JunkCache

LEMMA FirstDefault == 1 \in DOMAIN Defaults /\ Defaults[1] = WebInit
  BY ConstantsAssumption DEF ConstantsAssumption

\* A file that has the defaults and is set to its end leaves them in the cache.
LEMMA FileSet ==
  ASSUME NEW file \in Seq(Names), HasDefaults(file), SetSoFar(file, Len(file))
  PROVE  Complete(cache) /\ WebInit \in DOMAIN cache
  <1>1. \A j \in DOMAIN file : file[j] \in DOMAIN cache
    BY DEF SetSoFar
  <1>2. \A i \in DOMAIN Defaults : Defaults[i] \in DOMAIN cache
    BY <1>1 DEF HasDefaults
  <1> QED
    BY <1>2, FirstDefault DEF Complete

LEMMA StaysSpoilt ==
  ASSUME TypeOK, [Next]_vars, ghost.spoilt
  PROVE  ghost'.spoilt
  <1>0. Daemon \in All /\ Procs \subseteq All
    BY Actors
  <1>1. CASE Boot
    BY <1>1 DEF Boot, TypeOK
  <1>2. ASSUME NEW failed, WriteReturns(failed) PROVE ghost'.spoilt
    BY <1>2 DEF WriteReturns, TypeOK
  <1>3. CASE FlashStep
    BY <1>2, <1>3 DEF FlashStep, Erase, Program, WriteFails
  <1>4. ASSUME NEW p \in All, LibStep(p) PROVE ghost'.spoilt
    <2>1. CASE Set(p) \/ CommitDirty(p) \/ Clear(p)
      BY <2>1 DEF Set, CommitDirty, Clear, TypeOK
    <2> QED
      BY <1>4, <2>1 DEF LibStep, GetAll, GetAllFails, ParseAll, Get, CommitClean, CommitFails,
                        Overrun, Close
  <1>5. ASSUME NEW p \in All, LoadStep(p) PROVE ghost'.spoilt
    BY <1>5, LoadPlace
  <1>6. CASE DaemonStep \/ Restore
    BY <1>0, <1>5, <1>6 DEF DaemonStep, Restore, Check, TestPasses, LoadDefault, DaemonClose,
                            InitGpio, WritePid
  <1>7. ASSUME NEW p \in Procs, ProcStep(p) PROVE ghost'.spoilt
    <2>1. CASE ProcUploads(p)
      BY <2>1 DEF ProcUploads, TypeOK
    <2>2. CASE LoadStep(p)
      BY <1>0, <1>5, <2>2
    <2> QED
      BY <1>7, <2>1, <2>2 DEF ProcStep, ProcGets, ProcSets, ProcCommits, ProcCloses,
                              ProcExits, ProcResets
  <1> QED
    BY <1>1, <1>3, <1>4, <1>6, <1>7 DEF Next, Reboot, PowerCut, vars

\* A set takes no name away; that of a load, if it is not refused, adds its own.
LEMMA CacheGrows ==
  ASSUME TypeOK, NEW p \in All, Set(p)
  PROVE  /\ DOMAIN cache \subseteq DOMAIN cache'
         /\ DOMAIN cache' \subseteq DOMAIN cache \cup {lib[p].name}
         /\ BlockOf[p] = RT2860_NVRAM /\ load[p].at # "none" /\ ~ghost'.spoilt =>
              lib[p].name \in DOMAIN cache'
  <1> DEFINE b0 == BlockOf[p]
             n == lib[p].name
             v == lib[p].value
             f == NvramSet(fb[b0], n, v)
  <1>0. b0 \in Blocks /\ RT2860_NVRAM \in Blocks /\ fb[b0].cache \in Contents
        /\ n \in Names /\ v \in Values
    BY ConstantsAssumption DEF ConstantsAssumption, TypeOK, LibRecord
  <1>1. /\ fb' = [fb EXCEPT ![b0] = f]
        /\ ~ghost'.spoilt /\ load[p].at # "none" => f # fb[b0] \/ n \in DOMAIN fb[b0].cache
    BY DEF Set, TypeOK
  <1>2. f = fb[b0] \/ f.cache = With(fb[b0].cache, n, v)
    BY DEF NvramSet
  <1>3. DOMAIN With(fb[b0].cache, n, v) = DOMAIN fb[b0].cache \cup {n}
    BY <1>0, WithContent
  <1> HIDE DEF f
  <1>4. fb'[b0] = f /\ (b0 # RT2860_NVRAM => cache' = cache)
    BY <1>0, <1>1 DEF cache, TypeOK
  <1> QED
    BY <1>1, <1>2, <1>3, <1>4 DEF cache

\* What is saved stays complete if no incomplete cache is handed to the flash.
LEMMA SavedStep ==
  ASSUME KInv, SavedComplete, [Next]_vars,
         RT2860_NVRAM \notin saving /\ RT2860_NVRAM \in saving' => Complete(cache')
  PROVE  SavedComplete'
  <1> DEFINE R == RT2860_NVRAM
  <1>0. R \in Blocks /\ saved \in [Blocks -> Contents] /\ live[R] = cache /\ live'[R] = cache'
    BY RouterBlock, FlashContent DEF KInv, TypeOK, saved, WriteRecord
  <1>1. CASE UNCHANGED storeVars
    <2>1. cache' = cache /\ saved' = saved /\ saving' = saving
      BY <1>0, <1>1 DEF storeVars
    <2> QED
      BY <2>1 DEF SavedComplete
  <1>2. CASE Store!Set
    <2>1. saved' = saved /\ saving' = {}
      BY <1>2 DEF Store!Set, saved, saving
    <2> QED
      BY <2>1 DEF SavedComplete
  <1>3. CASE Store!BeginSave
    <2>1. saved' = saved /\ saving = {}
      BY <1>3 DEF Store!BeginSave, saved, saving
    <2> QED
      BY <2>1 DEF SavedComplete
  <1>4. CASE Store!EndSave
    <2>0. \E b \in saving :
            /\ \/ saved' = [saved EXCEPT ![b] = live[b]]
                  /\ ghost'.unsaved = ghost.unsaved \ {b}
               \/ \E gone \in SUBSET (Blocks \ {b}), end \in {saved[b], live[b], Empty} :
                    /\ saved' = [c \in Blocks |-> IF c = b THEN end
                                   ELSE IF c \in gone THEN Empty ELSE saved[c]]
                    /\ ghost'.unsaved = ghost.unsaved \cup gone \cup {b}
            /\ saving' = {}
            /\ UNCHANGED live
      BY <1>4 DEF Store!EndSave, saved, saving, live
    <2>1. PICK b \in saving :
            /\ \/ saved' = [saved EXCEPT ![b] = live[b]]
               \/ \E gone \in SUBSET (Blocks \ {b}), end \in {saved[b], live[b], Empty} :
                    saved' = [c \in Blocks |-> IF c = b THEN end
                                ELSE IF c \in gone THEN Empty ELSE saved[c]]
            /\ saving' = {}
      BY <2>0
    <2>2. saved'[R] \in {saved[R], Empty} \/ (b = R /\ saved'[R] = cache)
      <3>1. CASE saved' = [saved EXCEPT ![b] = live[b]]
        BY <1>0, <3>1
      <3>2. ASSUME NEW gone \in SUBSET (Blocks \ {b}), NEW end \in {saved[b], live[b], Empty},
                   saved' = [c \in Blocks |-> IF c = b THEN end
                               ELSE IF c \in gone THEN Empty ELSE saved[c]]
            PROVE  saved'[R] \in {saved[R], Empty} \/ (b = R /\ saved'[R] = cache)
        BY <1>0, <3>2
      <3> QED
        BY <2>1, <3>1, <3>2
    <2> QED
      BY <2>1, <2>2, CompleteEmpty DEF SavedComplete
  <1>5. CASE Store!Restart
    <2>1. /\ saving' = {}
          /\ saved'[R] = IF cache' = JunkCache THEN Empty ELSE cache'
          /\ cache' \in Store!Outcomes(R)
      BY <1>0, <1>5 DEF Store!Restart, saved, saving, live
    <2>2. cache' \in {saved[R], Empty, JunkCache} \/ (R \in saving /\ cache' = cache)
      BY <1>0, <2>1 DEF Store!Outcomes, saved, saving, live
    <2> QED
      BY <2>1, <2>2, CompleteEmpty DEF SavedComplete
  <1> QED
    BY <1>1, <1>2, <1>3, <1>4, <1>5, StoreNext DEF Store!Next

LEMMA BootComplete ==
  ASSUME KInv, SavedComplete, Boot
  PROVE  Complete(cache')
  <1> DEFINE R == RT2860_NVRAM
  <1>0. R \in Blocks /\ live[R] = cache /\ live'[R] = cache'
    BY RouterBlock
  <1>1. cache' \in Store!Outcomes(R)
    BY <1>0, StoreRestart DEF Store!Restart, live
  <1>2. cache' \in {saved[R], Empty, JunkCache} \/ (R \in saving /\ cache' = cache)
    BY <1>0, <1>1 DEF Store!Outcomes, saved, saving, live
  <1> QED
    BY <1>2, CompleteEmpty DEF SavedComplete

\* Apart from these steps nobody changes the cache, and a write begins with a
\* commit or a clear.
LEMMA CacheSteps ==
  ASSUME KInv, [Next]_vars
  PROVE  \/ Boot
         \/ \E p \in All : Set(p) \/ CommitDirty(p) \/ Clear(p)
         \/ cache' = cache /\ (RT2860_NVRAM \in saving' => RT2860_NVRAM \in saving)
  <1>0. RT2860_NVRAM \in Blocks
    BY RouterBlock
  <1>1. CASE UNCHANGED <<kernel, ghost.unsaved>>
    BY <1>1 DEF kernel, cache, saving, Writing
  <1>2. ASSUME NEW p \in All, CacheStep(p), ~Set(p)
        PROVE  cache' = cache /\ saving' = {}
    <2>1. ~Writing' /\ fb' = fb
      BY <1>2, Actors DEF CacheStep, GetAll, GetAllFails, CommitFails, Overrun, Semaphore, Writing
    <2> QED
      BY <2>1 DEF cache, saving
  <1>3. CASE Store!EndSave
    <2>1. saving' = {} /\ live' = live
      BY <1>3 DEF Store!EndSave, saving, live
    <2> QED
      BY <2>1, RouterBlock
  <1>4. CASE UNCHANGED storeVars
    BY <1>4, RouterBlock DEF storeVars
  <1> QED
    BY <1>1, <1>2, <1>3, <1>4, KernelSteps, StoreErase, StoreProgram, StoreFails DEF KInv

-----------------------------------------------------------------------------
(* Loaded is inductive as long as nothing spoils the defaults              *)

LEMMA LoadedInit == Init => Loaded
  <1> SUFFICES ASSUME Init PROVE Loaded
    OBVIOUS
  <1> DEFINE R == RT2860_NVRAM
  <1>1. /\ R \in Blocks /\ ~Writing /\ script = "check"
        /\ cache = Readable(flash[R]) /\ saved[R] = cache /\ saving = {}
    BY RouterBlock, Actors DEF Init, Writing, cache, saved, saving
  <1>2. Complete(cache)
    <2>1. Factory[R] # Ones => Readable(flash[R]) = Factory[R]
      BY <1>1 DEF Init, Readable
    <2>2. Factory[R] = Ones => Readable(flash[R]) = Empty
      BY <1>1 DEF Init, Readable, ErasedBlock
    <2> QED
      BY <1>1, <2>1, <2>2, CompleteEmpty, ConstantsAssumption DEF ConstantsAssumption
  <1>3. NoLoad.at = "none"
    BY DEF NoLoad
  <1>4. Loads
    BY <1>3 DEF Init, Loads, Progress, FileComplete, Renewing
  <1> QED
    BY <1>1, <1>2, <1>4 DEF Loaded, CacheComplete, SavedComplete, WebInitSet, Trusted

LEMMA LoadedBoot ==
  ASSUME KInv, Loaded, Boot, SavedComplete'
  PROVE  Loaded'
  <1>1. Complete(cache') /\ script' = "check"
    BY BootComplete DEF Loaded, Boot
  <1>2. NoLoad.at = "none"
    BY DEF NoLoad
  <1>3. Loads'
    BY <1>2 DEF Boot, Loads, Progress, FileComplete, Renewing
  <1> QED
    BY <1>1, <1>3 DEF Loaded, CacheComplete, WebInitSet, Trusted

\* A step that takes no name away, adds WebInit to no calm cache, and does not
\* end a renew.
LEMMA LoadedKept ==
  ASSUME Loaded, SavedComplete', Loads',
         DOMAIN cache \subseteq DOMAIN cache',
         Calm' => Calm /\ (WebInit \in DOMAIN cache' => WebInit \in DOMAIN cache),
         Trusted' => Trusted \/ WebInit \in DOMAIN cache
  PROVE  Loaded'
  <1>1. Complete(cache) /\ (WebInit \in DOMAIN cache' => WebInit \in DOMAIN cache)
          => Complete(cache')
    BY DEF Complete
  <1> QED
    BY <1>1 DEF Loaded, CacheComplete, WebInitSet

\* A step that leaves somebody in a renew.
LEMMA LoadedBusy ==
  ASSUME SavedComplete', Loads', NEW p \in All, Renewing(p)'
  PROVE  Loaded'
  BY DEF Loaded, CacheComplete, WebInitSet, Calm

\* The load of a process that a step does not concern.
LEMMA ProgressKept ==
  ASSUME NEW q \in All, Progress(q), FileComplete(q), Stays(q), load'[q] = load[q],
         DOMAIN cache \subseteq DOMAIN cache'
  PROVE  Progress(q)' /\ FileComplete(q)' /\ (Renewing(q)' <=> Renewing(q))
  <1>1. Renewing(q)' <=> Renewing(q)
    BY DEF Renewing, At, Stays
  <1>2. ASSUME NEW k PROVE SetSoFar(load[q].file, k) => SetSoFar(load[q].file, k)'
    BY DEF SetSoFar
  <1>3. Progress(q)'
    BY <1>1, <1>2 DEF Progress, Stays
  <1> QED
    BY <1>1, <1>3 DEF FileComplete

LEMMA LoadedFlash ==
  ASSUME KInv, Places, Loaded, FlashStep, cache' = cache, SavedComplete'
  PROVE  Loaded'
  <1>0. Holder /\ TypeOK /\ Daemon \in All
    BY Actors DEF Places, KInv
  <1>1. UNCHANGED <<load, script>>
    BY <1>0, FlashPlace DEF loader, daemon
  <1>2. ASSUME NEW q \in All
        PROVE  Progress(q)' /\ FileComplete(q)' /\ (Renewing(q)' <=> Renewing(q))
    <2>0. Progress(q) /\ FileComplete(q) /\ InPlace(q) /\ load'[q] = load[q]
      BY <1>1 DEF Loaded, Loads, Places
    <2>1. CASE lib'[q] = lib[q]
      BY <2>0, <2>1, ProgressKept DEF Stays
    <2>2. CASE Ends(q, "flash")
      <3>1. Renewing(q)' <=> Renewing(q)
        BY <2>0, <2>2 DEF Ends, Renewing, At
      <3>2. Renewing(q) => load[q].done = 0
        BY <2>0, <2>2 DEF InPlace, Ends, Renewing
      <3>3. Progress(q)'
        BY <2>0, <2>2, <3>1, <3>2 DEF Progress, Ends, SetSoFar
      <3> QED
        BY <2>0, <3>1, <3>3 DEF FileComplete
    <2> QED
      BY <1>0, <2>1, <2>2, FlashPlace
  <1>3. Loads' /\ (Calm' => Calm)
    BY <1>2 DEF Loads, Calm
  <1>4. Trusted' => Trusted
    BY <1>0, <1>1, FlashPlace DEF Trusted, me, Ends
  <1> QED
    BY <1>3, <1>4, LoadedKept

\* Only a complete cache, or an empty one, is handed to the flash.
LEMMA BeginComplete ==
  ASSUME KInv, Places, Loaded, ~ghost'.spoilt, NEW p \in All,
         CommitDirty(p) \/ Clear(p), RT2860_NVRAM \in saving'
  PROVE  Complete(cache')
  <1>0. RT2860_NVRAM \in Blocks /\ BlockOf[p] = RT2860_NVRAM
    BY RouterBlock, ConstantsAssumption
    DEF ConstantsAssumption, CommitDirty, Clear, BeginWrite, NoWrite, saving
  <1>1. CASE CommitDirty(p)
    <2>1. cache' = cache /\ lib[p].at = "commit"
      BY <1>1 DEF CommitDirty, cache, At
    <2>2. ~Disturbs(p)
      BY <1>1 DEF CommitDirty, KInv, TypeOK
    <2>3. ~Renewing(p)
      BY <2>1 DEF Places, InPlace, Renewing
    <2>4. Calm
      BY <1>0, <2>2, <2>3 DEF Disturbs, Calm
    <2> QED
      BY <2>1, <2>4 DEF Loaded, CacheComplete
  <1>2. CASE Clear(p)
    <2>1. cache' = Empty
      BY <1>0, <1>2 DEF Clear, cache, KInv, TypeOK
    <2> QED
      BY <2>1, CompleteEmpty
  <1> QED
    BY <1>1, <1>2

\* What a set by another process does to a pointer that the daemon has.
LEMMA SetKeepsNull ==
  ASSUME TypeOK, NEW p \in All, Set(p), p # Daemon, me.ptr = ""
  PROVE  me'.ptr = ""
  <1>0. Daemon \in All
    BY Actors
  <1>1. PICK l \in [All -> LibRecord] :
          /\ lib' = Freed(l, BlockOf[p], {lib[p].name})
          /\ l[Daemon] = lib[Daemon]
    <2> DEFINE own == lib[p].cache
               m == IF lib[p].name \notin own /\ Full(own) THEN Returned(lib[p])
                    ELSE Returned([lib[p] EXCEPT !.cache = own \cup {lib[p].name},
                                                 !.dirty = TRUE])
    <2>1. lib[p] \in LibRecord /\ lib \in [All -> LibRecord]
      BY DEF TypeOK
    <2>2. [lib[p] EXCEPT !.cache = own \cup {lib[p].name}, !.dirty = TRUE] \in LibRecord
      BY <2>1 DEF LibRecord, TypeOK
    <2>3. m \in LibRecord
      BY <2>1, <2>2, LibReturns
    <2>4. lib' = Freed([lib EXCEPT ![p] = m], BlockOf[p], {lib[p].name})
      BY DEF Set
    <2> HIDE DEF m
    <2>5. /\ [lib EXCEPT ![p] = m] \in [All -> LibRecord]
          /\ [lib EXCEPT ![p] = m][Daemon] = lib[Daemon]
      BY <1>0, <2>1, <2>3
    <2> QED
      BY <2>4, <2>5
  <1> QED
    BY <1>0, <1>1 DEF Freed, LibRecord, me

LEMMA LoadedSet ==
  ASSUME KInv, Places, Loaded, ~ghost'.spoilt, SavedComplete', NEW p \in All, Set(p)
  PROVE  Loaded'
  <1>0. TypeOK /\ Daemon \in All /\ LibStep(p) /\ InPlace(p)
    BY Actors DEF KInv, LibStep, Places
  <1>1. UNCHANGED <<load, script>> /\ \A q \in All \ {p} : Stays(q)
    BY <1>0, LibPlace DEF loader, daemon
  <1>2. lib[p].at = "set" /\ Ends(p, "set")
    BY <1>0, LibPlace DEF Set, At, Moves, Ends
  <1>3. DOMAIN cache \subseteq DOMAIN cache'
    BY <1>0, CacheGrows
  <1>4. \A q \in All \ {p} : Progress(q)' /\ FileComplete(q)' /\ (Renewing(q)' <=> Renewing(q))
    BY <1>1, <1>3, ProgressKept DEF Loaded, Loads
  <1>5. CASE load[p].at = "renew"
    <2>1. BlockOf[p] = RT2860_NVRAM /\ lib[p].name \in DOMAIN cache'
      BY <1>0, <1>5, CacheGrows DEF InPlace
    <2>2. Renewing(p) /\ Renewing(p)'
      BY <1>1, <1>2, <1>5 DEF Renewing, At, Ends
    <2> DEFINE file == load[p].file
               k == load[p].done
    <2>3. /\ k <= Len(file) /\ k >= 1 /\ lib[p].name = file[k] /\ SetSoFar(file, k - 1)
          /\ k \in Nat /\ HasDefaults(file)
      BY <1>2, <1>5, <2>2
      DEF Loaded, Loads, Progress, FileComplete, KInv, TypeOK, LoadRecord
    <2>4. load'[p].file = file /\ load'[p].done = k /\ load'[p].at = "renew"
      BY <1>1, <1>5
    <2> HIDE DEF file, k
    <2>5. \A i \in 1 .. k : file[i] \in DOMAIN cache'
      BY <1>3, <2>1, <2>3 DEF SetSoFar
    <2>6. Progress(p)' /\ FileComplete(p)'
      BY <1>2, <2>2, <2>3, <2>4, <2>5 DEF Progress, FileComplete, Ends, SetSoFar
    <2> QED
      BY <1>4, <2>2, <2>6, LoadedBusy DEF Loads
  <1>6. CASE load[p].at # "renew"
    <2>1. load[p].at = "none" /\ lib[p].name # WebInit
      BY <1>0, <1>2, <1>6 DEF InPlace, TypeOK, LoadRecord
    <2>2. Progress(p)' /\ FileComplete(p)' /\ ~Renewing(p) /\ ~Renewing(p)'
      BY <1>1, <2>1 DEF Progress, FileComplete, Renewing
    <2>3. Loads' /\ (Calm' => Calm)
      BY <1>4, <2>2 DEF Loads, Calm
    <2>4. WebInit \in DOMAIN cache' => WebInit \in DOMAIN cache
      BY <1>0, <2>1, CacheGrows
    <2>5. Trusted' => Trusted
      <3>1. CASE p # Daemon
        <4>1. me'.at = me.at
          BY <1>0, <1>1, <3>1 DEF Stays, me
        <4> QED
          BY <1>0, <1>1, <3>1, <4>1, SetKeepsNull DEF Trusted
      <3>2. CASE p = Daemon
        BY <1>1, <1>2, <3>2 DEF Trusted, me, Ends
      <3> QED
        BY <3>1, <3>2
    <2> QED
      BY <1>3, <2>3, <2>4, <2>5, LoadedKept
  <1> QED
    BY <1>5, <1>6

\* Nobody else is in a renew: p begins one with an empty cache.
LEMMA LoadedClear ==
  ASSUME KInv, Places, Loaded, ~ghost'.spoilt, SavedComplete', NEW p \in All, Clear(p)
  PROVE  Loaded'
  <1>0. TypeOK /\ LibStep(p) /\ InPlace(p) /\ lib[p].at = "clear"
    BY DEF KInv, LibStep, Places, Clear, At
  <1>1. load' = load /\ lib'[p].at = "flash" /\ \A q \in All \ {p} : Stays(q)
    BY <1>0, LibPlace DEF loader, Moves, Ends
  <1>2. load[p].at = "renew" /\ BlockOf[p] = RT2860_NVRAM /\ load[p].done = 0
    BY <1>0 DEF InPlace, TypeOK, LoadRecord
  <1>3. \A q \in All \ {p} : ~Renewing(q)
    <2>1. ~Disturbs(p)
      BY DEF Clear, KInv, TypeOK
    <2> QED
      BY <1>2, <2>1 DEF Disturbs
  <1>4. \A q \in All \ {p} : ~Renewing(q)'
    BY <1>1, <1>3 DEF Renewing, At, Stays
  <1>5. Len(load[p].file) \in Nat
    BY <1>0 DEF TypeOK, LoadRecord
  <1>6. Loads'
    BY <1>1, <1>2, <1>4, <1>5 DEF Loaded, Loads, Progress, FileComplete
  <1>7. Renewing(p)'
    BY <1>1, <1>2 DEF Renewing, At
  <1> QED
    BY <1>6, <1>7, LoadedBusy

\* The other calls of libnvram leave the cache alone.
LEMMA LoadedCall ==
  ASSUME KInv, Places, Loaded, SavedComplete', NEW p \in All, LibStep(p), ~Set(p), ~Clear(p)
  PROVE  Loaded'
  <1>0. TypeOK /\ Daemon \in All /\ BlockOf[Daemon] = RT2860_NVRAM
        /\ InPlace(p) /\ DaemonInPlace
    BY Actors DEF KInv, Places
  <1>1. cache' = cache /\ lib[p].at # "set" /\ lib[p].at # "clear"
    BY DEF LibStep, GetAll, GetAllFails, ParseAll, Get, CommitClean, CommitDirty, CommitFails,
           Overrun, Close, kernel, cache, At
  <1>2. UNCHANGED <<load, script>> /\ \A q \in All \ {p} : Stays(q)
    BY <1>0, LibPlace DEF loader, daemon
  <1>3. \A q \in All \ {p} : Progress(q)' /\ FileComplete(q)' /\ (Renewing(q)' <=> Renewing(q))
    BY <1>1, <1>2, ProgressKept DEF Loaded, Loads
  <1>4. Progress(p)' /\ FileComplete(p)' /\ (Renewing(p)' <=> Renewing(p))
    <2>1. CASE load[p].at # "renew"
      BY <1>2, <2>1 DEF Loaded, Loads, Progress, FileComplete, Renewing
    <2>2. CASE load[p].at = "renew"
      <3>1. /\ lib[p].at \in {"init", "parse"} /\ lib'[p].at \in {"parse", "set", "dead"}
            /\ lib'[p].name = lib[p].name
        BY <1>0, <1>1, <2>2, LibPlace DEF InPlace, Moves, Ends
      <3>2. Renewing(p)' /\ Renewing(p)
        BY <1>2, <2>2, <3>1 DEF Renewing, At
      <3>3. ASSUME NEW k PROVE SetSoFar(load[p].file, k) => SetSoFar(load[p].file, k)'
        BY <1>1, <1>2 DEF SetSoFar
      <3>4. Progress(p) /\ FileComplete(p) /\ load'[p] = load[p]
        BY <1>2 DEF Loaded, Loads
      <3>5. Progress(p)'
        BY <3>1, <3>2, <3>3, <3>4 DEF Progress
      <3> QED
        BY <3>2, <3>4, <3>5 DEF FileComplete
    <2> QED
      BY <2>1, <2>2
  <1>5. Loads' /\ (Calm' => Calm)
    BY <1>3, <1>4 DEF Loads, Calm
  <1>6. Trusted' => Trusted \/ WebInit \in DOMAIN cache
    <2>1. CASE p # Daemon
      <3>1. lib'[Daemon] = lib[Daemon]
        BY <1>0, <2>1
        DEF LibStep, GetAll, GetAllFails, ParseAll, Get, CommitClean, CommitDirty, CommitFails,
            Overrun, Close, TypeOK
      <3> QED
        BY <1>2, <3>1 DEF Trusted, me
    <2>2. CASE p = Daemon /\ Get(Daemon)
      <3>1. script = "test" => me.name = WebInit
        BY <1>0 DEF DaemonInPlace
      <3>2. me'.ptr = IF me.name \in DOMAIN cache THEN cache[me.name] ELSE ""
        BY <1>0, <2>2, ZenonT(40) DEF Get, me, cache, TypeOK, LibRecord
      <3> QED
        BY <1>2, <3>1, <3>2 DEF Trusted
    <2>3. CASE p = Daemon /\ ~Get(Daemon)
      <3>1. lib[Daemon].at # "get"
        BY <2>3 DEF LibStep, GetAll, GetAllFails, ParseAll, Get, CommitClean, CommitDirty,
                    CommitFails, Overrun, Close, Set, Clear, At
      <3>2. script = "test" => me'.at # "copy"
        BY <1>0, <2>3, <3>1, LibPlace DEF me, DaemonInPlace, Moves, Ends
      <3> QED
        BY <1>2, <3>2 DEF Trusted
    <2> QED
      BY <2>1, <2>2, <2>3
  <1> QED
    BY <1>1, <1>5, <1>6, LoadedKept

LEMMA LoadedLib ==
  ASSUME KInv, Places, Loaded, ~ghost'.spoilt, SavedComplete', NEW p \in All, LibStep(p)
  PROVE  Loaded'
  BY LoadedSet, LoadedClear, LoadedCall

\* The steps of a load: a renew ends when its whole file is set.
LEMMA LoadedLoad ==
  ASSUME KInv, Places, Loaded, SavedComplete', NEW p \in All, LoadStep(p)
  PROVE  Loaded'
  <1>0. TypeOK /\ Daemon \in All /\ Progress(p) /\ FileComplete(p) /\ DaemonInPlace
    BY Actors DEF KInv, Loaded, Loads, Places
  <1>1. /\ cache' = cache /\ lib[p].at = "idle"
        /\ \A q \in All \ {p} : lib'[q] = lib[q] /\ load'[q] = load[q]
    BY <1>0, LoadPlace DEF kernel, cache
  <1>2. \A q \in All \ {p} : Progress(q)' /\ FileComplete(q)' /\ (Renewing(q)' <=> Renewing(q))
    BY <1>1, ProgressKept DEF Loaded, Loads, Stays
  <1> DEFINE file == load[p].file
             k == load[p].done
  <1>3. file \in Seq(Names) /\ k \in Nat /\ Len(file) \in Nat
    BY <1>0 DEF TypeOK, LoadRecord
  <1>4. CASE /\ load[p].at = "renew" /\ load'[p].at = "renew" /\ script' = script
             /\ load'[p].file = load[p].file /\ load'[p].done = load[p].done + 1
             /\ load[p].done < Len(load[p].file)
             /\ lib'[p].at \in {"set", "init"} /\ lib'[p].call = "set"
             /\ lib'[p].name = load[p].file[load[p].done + 1]
    <2>1. Renewing(p)' /\ Renewing(p)
      BY <1>1, <1>4 DEF Renewing, At
    <2>2. SetSoFar(file, k) /\ HasDefaults(file)
      BY <1>0, <1>1, <1>4, <2>1 DEF Progress, FileComplete
    <2>3. load'[p].file = file /\ load'[p].done = k + 1 /\ k < Len(file)
          /\ lib'[p].name = file[k + 1]
      BY <1>4
    <2> HIDE DEF file, k
    <2>4. \A i \in 1 .. (k + 1) - 1 : file[i] \in DOMAIN cache'
      BY <1>1, <1>3, <2>2 DEF SetSoFar
    <2>5. Progress(p)' /\ FileComplete(p)'
      BY <1>3, <1>4, <2>2, <2>3, <2>4 DEF Progress, FileComplete, SetSoFar
    <2> QED
      BY <1>2, <2>1, <2>5, LoadedBusy DEF Loads
  <1>5. CASE /\ load[p].at = "renew" /\ load'[p].at = "end" /\ script' = script
             /\ load'[p].file = load[p].file
             /\ load[p].done = Len(load[p].file) \/ load[p].file = <<>>
    <2>1. HasDefaults(file) /\ Renewing(p)
      BY <1>0, <1>1, <1>5 DEF FileComplete, Renewing, At
    <2>2. file # <<>>
      BY <2>1, FirstDefault DEF HasDefaults
    <2>3. SetSoFar(file, Len(file))
      BY <1>0, <1>1, <1>5, <2>1, <2>2 DEF Progress
    <2>4. Complete(cache) /\ WebInit \in DOMAIN cache
      BY <1>3, <2>1, <2>3, FileSet
    <2>5. Progress(p)' /\ FileComplete(p)'
      BY <1>5, <2>1 DEF Progress, FileComplete, Renewing
    <2> QED
      BY <1>1, <1>2, <2>4, <2>5 DEF Loaded, CacheComplete, WebInitSet, Loads
  <1>6. CASE /\ load[p].at = "end" /\ load'[p] = NoLoad /\ lib'[p] = NewLib
             /\ script' = IF p = Daemon /\ script = "load" THEN "close" ELSE script
    <2>1. NoLoad.at = "none" /\ NewLib.at = "idle"
      BY DEF NoLoad, NewLib
    <2>2. Progress(p)' /\ FileComplete(p)' /\ ~Renewing(p) /\ ~Renewing(p)'
      BY <1>6, <2>1 DEF Progress, FileComplete, Renewing
    <2>3. Loads' /\ (Calm' => Calm)
      BY <1>2, <2>2 DEF Loads, Calm
    <2>4. Trusted' => Trusted
      <3>1. CASE p = Daemon
        BY <1>0, <1>6, <2>1, <3>1 DEF Trusted, DaemonInPlace, me
      <3>2. CASE p # Daemon
        BY <1>0, <1>1, <1>6, <3>2 DEF Trusted, me
      <3> QED
        BY <3>1, <3>2
    <2> QED
      BY <1>1, <2>3, <2>4, LoadedKept
  <1> QED
    BY <1>0, <1>4, <1>5, <1>6, LoadPlace

\* A load begins before its clear.
LEMMA LoadedStart ==
  ASSUME KInv, Loaded, SavedComplete', NEW p \in All, NEW file, NEW upload,
         StartLoad(p, file, upload), HasDefaults(file), cache' = cache, Trusted' => Trusted
  PROVE  Loaded'
  <1>0. TypeOK
    BY DEF KInv
  <1>1. /\ load[p].at = "none" /\ lib'[p].at = "clear" /\ load'[p].file = file
        /\ \A q \in All \ {p} : lib'[q] = lib[q] /\ load'[q] = load[q]
    BY <1>0, StartPlace
  <1>2. \A q \in All \ {p} : Progress(q)' /\ FileComplete(q)' /\ (Renewing(q)' <=> Renewing(q))
    BY <1>1, ProgressKept DEF Loaded, Loads, Stays
  <1>3. Progress(p)' /\ FileComplete(p)' /\ ~Renewing(p) /\ ~Renewing(p)'
    BY <1>1 DEF Progress, FileComplete, Renewing, At
  <1>4. Loads' /\ (Calm' => Calm)
    BY <1>2, <1>3 DEF Loads, Calm
  <1> QED
    BY <1>4, LoadedKept

\* A step in which a process makes a call or returns from one, loading nothing.
LEMMA LoadedUser ==
  ASSUME Loaded, SavedComplete', NEW p \in All, load[p].at = "none", UNCHANGED load,
         \A q \in All \ {p} : lib'[q] = lib[q], cache' = cache,
         Trusted' => Trusted \/ WebInit \in DOMAIN cache
  PROVE  Loaded'
  <1>1. \A q \in All \ {p} : Progress(q)' /\ FileComplete(q)' /\ (Renewing(q)' <=> Renewing(q))
    BY ProgressKept DEF Loaded, Loads, Stays
  <1>2. Progress(p)' /\ FileComplete(p)' /\ ~Renewing(p) /\ ~Renewing(p)'
    BY DEF Progress, FileComplete, Renewing
  <1>3. Loads' /\ (Calm' => Calm)
    BY <1>1, <1>2 DEF Loads, Calm
  <1> QED
    BY <1>3, LoadedKept

LEMMA LoadedProc ==
  ASSUME KInv, Places, Loaded, ~ghost'.spoilt, SavedComplete', NEW p \in Procs, ProcStep(p)
  PROVE  Loaded'
  <1>0. TypeOK /\ p \in All /\ p # Daemon /\ Daemon \in All /\ InPlace(p)
    BY Actors DEF KInv, Places
  <1>1. CASE LoadStep(p)
    BY <1>0, <1>1, LoadedLoad
  <1>2. ASSUME NEW file, ProcFile(p, file) PROVE Loaded'
    <2>1. PICK upload : StartLoad(p, file, upload)
      BY <1>2 DEF ProcFile
    <2>2. cache' = cache /\ HasDefaults(file) /\ UNCHANGED script
      BY <1>2 DEF ProcFile, kernel, daemon, cache
    <2>3. lib'[Daemon] = lib[Daemon] /\ load'[Daemon] = load[Daemon]
      BY <1>0, <2>1, StartPlace
    <2>4. Trusted' => Trusted
      BY <2>2, <2>3 DEF Trusted, me
    <2> QED
      BY <1>0, <2>1, <2>2, <2>4, LoadedStart
  <1>3. CASE /\ UNCHANGED <<kernel, loader, daemon, ghost>>
             /\ \A q \in All \ {p} : lib'[q] = lib[q]
             /\ lib[p].at = "copy" \/ (lib[p].at = "idle" /\ load[p].at = "none")
    <2>1. UNCHANGED <<load, script>> /\ cache' = cache /\ lib'[Daemon] = lib[Daemon]
      BY <1>0, <1>3 DEF kernel, loader, daemon, cache
    <2>2. load[p].at = "none"
      BY <1>0, <1>3 DEF InPlace, TypeOK, LoadRecord
    <2>3. Trusted' => Trusted
      BY <2>1 DEF Trusted, me
    <2> QED
      BY <1>0, <1>3, <2>1, <2>2, <2>3, LoadedUser
  <1> QED
    BY <1>0, <1>1, <1>2, <1>3, ProcPlace

\* The steps of the daemon's main, and its signal handler.
LEMMA LoadedDaemon ==
  ASSUME KInv, Places, Loaded, SavedComplete', DaemonStep \/ Restore
  PROVE  Loaded'
  <1>0. Daemon \in All /\ TypeOK /\ DaemonInPlace
    BY Actors DEF KInv, Places
  <1> USE DEF kernel, loader, daemon
  <1>1. CASE LoadStep(Daemon)
    BY <1>0, <1>1, LoadedLoad
  <1>2. CASE Check \/ TestPasses \/ DaemonClose
    <2>1. UNCHANGED load /\ load[Daemon].at = "none" /\ cache' = cache
      BY <1>0, <1>2 DEF Check, TestPasses, DaemonClose, DaemonInPlace, cache
    <2>2. \A q \in All \ {Daemon} : lib'[q] = lib[q]
      BY <1>0, <1>2 DEF Check, TestPasses, DaemonClose, Call, GetReturns, TypeOK
    <2>3. Trusted' => Trusted
      <3>1. CASE Check
        <4>1. script' = "test" /\ me'.at \in {"get", "init"}
          BY <1>0, <3>1, CallPlace DEF Check, me
        <4> QED
          BY <4>1 DEF Trusted
      <3>2. CASE TestPasses
        BY <3>2 DEF TestPasses, GetReturns, GetResult, At, Trusted, me
      <3>3. CASE DaemonClose
        BY <3>3 DEF DaemonClose, Trusted
      <3> QED
        BY <1>2, <3>1, <3>2, <3>3
    <2> QED
      BY <1>0, <2>1, <2>2, <2>3, LoadedUser
  <1>3. CASE LoadDefault \/ Restore
    <2>1. StartLoad(Daemon, Defaults, FALSE) /\ cache' = cache
      BY <1>3 DEF LoadDefault, Restore, cache
    <2>2. HasDefaults(Defaults)
      BY DEF HasDefaults
    <2>3. load'[Daemon].at = "renew"
      BY <1>0, <2>1, StartPlace
    <2>4. Trusted' => Trusted
      BY <1>3, <2>3 DEF LoadDefault, Restore, Trusted
    <2> QED
      BY <1>0, <2>1, <2>2, <2>4, LoadedStart
  <1>4. CASE InitGpio \/ WritePid
    <2>1. UNCHANGED <<lib, load>> /\ cache' = cache /\ load[Daemon].at = "none"
      BY <1>0, <1>4 DEF InitGpio, WritePid, DaemonInPlace, cache
    <2>2. Trusted
      BY <1>4 DEF InitGpio, WritePid, Trusted
    <2> QED
      BY <1>0, <2>1, <2>2, LoadedUser
  <1> QED
    BY <1>1, <1>2, <1>3, <1>4 DEF DaemonStep

LEMMA DNext == DInv /\ [Next]_vars => DInv'
  <1> SUFFICES ASSUME DInv, [Next]_vars, ~ghost'.spoilt PROVE Loaded'
    BY KNext, PlacesNext DEF DInv, KInv
  <1>0. KInv /\ Places /\ TypeOK /\ Loaded
    BY StaysSpoilt DEF DInv, KInv
  <1>1. SavedComplete'
    <2>1. RT2860_NVRAM \notin saving /\ RT2860_NVRAM \in saving' => Complete(cache')
      <3>1. ASSUME NEW p \in All, Set(p) PROVE saving' = {}
        BY <3>1, Actors DEF Set, saving, Semaphore, Writing
      <3> QED
        BY <1>0, <3>1, CacheSteps, BeginComplete, BootComplete DEF Loaded
    <2> QED
      BY <1>0, <2>1, SavedStep DEF Loaded
  <1>2. CASE UNCHANGED vars
    <2>1. UNCHANGED <<load, lib, script>> /\ cache' = cache
      BY <1>2 DEF vars, kernel, loader, daemon, cache
    <2>2. \A q \in All : Progress(q)' /\ FileComplete(q)' /\ (Renewing(q)' <=> Renewing(q))
      BY <1>0, <2>1, ProgressKept DEF Loaded, Loads, Stays
    <2>3. Loads' /\ (Calm' => Calm) /\ (Trusted' => Trusted)
      BY <2>1, <2>2 DEF Loads, Calm, Trusted, me
    <2> QED
      BY <1>0, <1>1, <2>1, <2>3, LoadedKept
  <1>3. CASE FlashStep
    <2>1. cache' = cache
      <3>1. live' = live
        BY <1>0, <1>3, StoreErase, StoreProgram, StoreFails
        DEF FlashStep, storeVars, Store!EndSave, live
      <3> QED
        BY <3>1, RouterBlock
    <2> QED
      BY <1>0, <1>1, <1>3, <2>1, LoadedFlash
  <1>4. CASE PowerCut \/ Reboot
    BY <1>0, <1>1, <1>4, LoadedBoot DEF PowerCut, Reboot
  <1>5. CASE DaemonStep \/ Restore
    BY <1>0, <1>1, <1>5, LoadedDaemon
  <1>6. ASSUME NEW p \in All, LibStep(p) PROVE Loaded'
    BY <1>0, <1>1, <1>6, LoadedLib
  <1>7. ASSUME NEW p \in Procs, ProcStep(p) PROVE Loaded'
    BY <1>0, <1>1, <1>7, LoadedProc
  <1> QED
    BY <1>2, <1>3, <1>4, <1>5, <1>6, <1>7 DEF Next

LEMMA DInductive == Spec => []DInv
  <1>1. Init => DInv
    BY TypeInit, KInit, PlacesInit, LoadedInit DEF DInv, KInv, KRest
  <1> QED
    BY <1>1, DNext, PTL DEF Spec

\* While the pid file of nvram_daemon is there and nobody renews the settings,
\* every default has a value, unless a commit or a clear of another process fell
\* into a renew, a set of a load was refused, or a file without all defaults was
\* uploaded: for any defaults file that begins with WebInit, any uploaded files,
\* any processes that load them, and after any number of power cuts, failed
\* writes and resets.
THEOREM PidComesAfterDefaults == Spec => []PidMeansDefaults
  <1>1. DInv => PidMeansDefaults
    <2> SUFFICES ASSUME DInv, pidfile, Calm, ~ghost.spoilt
                 PROVE  \A i \in DOMAIN Defaults : Defaults[i] \in DOMAIN cache
      BY DEF PidMeansDefaults, Calm, cache
    <2>1. Trusted
      BY DEF DInv, Places, DaemonInPlace, Trusted
    <2>2. WebInit \in DOMAIN cache /\ Complete(cache)
      BY <2>1 DEF DInv, Loaded, WebInitSet, CacheComplete
    <2> QED
      BY <2>2 DEF Complete
  <1> QED
    BY <1>1, DInductive, PTL
=============================================================================
