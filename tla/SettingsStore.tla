--------------------------- MODULE SettingsStore ----------------------------
(***************************************************************************)
(* What the NVRAM module promises about the settings of every flash block, *)
(* whatever the semaphore, the CRC and the erase sector do inside.  `live' *)
(* is what processes read and write, `saved' what a restart would find.    *)
(* A restart with no save under way brings back exactly what is saved.  A  *)
(* restart in the middle of a save, or a save that fails, may empty blocks,*)
(* those that were not being saved included, but never leaves a mixture of *)
(* old and new.                                                            *)
(***************************************************************************)
EXTENDS Naturals

CONSTANTS Blocks, Names, Values, Empty, JunkCache

VARIABLES
  live,    \* [Blocks -> settings]
  saved,   \* [Blocks -> settings]
  saving,  \* the blocks being saved: at most one
  lost     \* the blocks that a failed save was for or emptied; nobody was told

storeVars == <<live, saved, saving, lost>>

Init ==
  /\ live = saved
  /\ saving = {} /\ lost = {}

Set ==
  /\ saving = {}
  /\ \E b \in Blocks, n \in Names, v \in Values :
       live' = [live EXCEPT ![b] =
                  [m \in DOMAIN @ \cup {n} |-> IF m = n THEN v ELSE @[m]]]
  /\ UNCHANGED <<saved, saving, lost>>

BeginSave ==
  /\ saving = {}
  /\ \E b \in Blocks :
       /\ saving' = {b}
       /\ live' \in {live, [live EXCEPT ![b] = Empty]}   \* commit, clear
  /\ UNCHANGED <<saved, lost>>

\* The block is saved as it is live and the others are as they were.  Or the save
\* fails: it leaves the old content, the new one or an empty block behind, and
\* may have emptied any other block.
EndSave ==
  \E b \in saving :
    /\ \/ saved' = [saved EXCEPT ![b] = live[b]] /\ lost' = lost \ {b}
       \/ \E gone \in SUBSET (Blocks \ {b}), end \in {saved[b], live[b], Empty} :
            /\ saved' = [c \in Blocks |-> IF c = b THEN end
                                         ELSE IF c \in gone THEN Empty ELSE saved[c]]
            /\ lost' = lost \cup gone \cup {b}
    /\ saving' = {}
    /\ UNCHANGED live

\* A block that was cleared may come up with one entry of junk.
Outcomes(b) ==
  IF saving = {}
  THEN {saved[b]} \cup (IF saved[b] = Empty THEN {JunkCache} ELSE {})
  ELSE {saved[b], Empty} \cup
       (IF b \in saving THEN {live[b]} ELSE {}) \cup
       (IF Empty \in {saved[b], live[b]} THEN {JunkCache} ELSE {})

Restart ==
  /\ \A b \in Blocks : live'[b] \in Outcomes(b)
  /\ \A b \in Blocks :
       saved'[b] = IF live'[b] = JunkCache THEN Empty ELSE live'[b]
  /\ saving' = {} /\ lost' = {}

Next == Set \/ BeginSave \/ EndSave \/ Restart

Spec == Init /\ [][Next]_storeVars
=============================================================================
