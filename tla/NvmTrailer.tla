----------------------------- MODULE NvmTrailer -----------------------------
(***************************************************************************)
(* Partition trailers in flash that can be written once between two erases *)
(* (libwolfboot.c, NVM_FLASH_WRITEONCE): every change rewrites the whole   *)
(* trailer into the other one of two sectors and then erases the first.    *)
(* Power can fail before or inside any flash operation.                    *)
(*                                                                         *)
(* The calls are the ones that the update engine and the application make  *)
(* on the trailer of UPDATE.  Each action is one flash operation with the  *)
(* reads that lead to it.                                                  *)
(***************************************************************************)
EXTENDS TrailerBytes, FiniteSets

CONSTANTS
  Unit,     \* cells that the flash programs together with the magic
  Tears,    \* how the erase of a sector may be torn on some flash
  MaxCuts   \* bound on power cuts

ASSUME NvmAssumption ==
  /\ Unit \in Nat
  /\ Tears \subseteq {"fill", "mix"}
  /\ MaxCuts \in Nat

VARIABLES
  sec,    \* the two trailer sectors: 0 is the last one of the partition
  pc,     \* where the running call is
  op,     \* the running call, or NoCall
  sel,    \* nvm_cached_sector, selSec: the sector that was selected
  cache,  \* NVM_CACHE
  tear,   \* how this flash tears an erase
  cuts    \* history: power cuts so far

vars == <<sec, pc, op, sel, cache, tear, cuts>>

-----------------------------------------------------------------------------
(* Selection *)

\* the sector that a power failure in an erase leaves filled with 0xEE, as
\* the simulator does
Filled == [c \in Cells |-> 238]

\* FLAG_CMP: the byte with more bits cleared is the newer one
FLAG_CMP(a, b) == IF a < b THEN 0 ELSE 1

Other(s) == 1 - s

\* the scan of nvm_select_fresh_sector over two valid trailers: the first
\* cell that is erased in one of them decides, and the bytes after the last
\* cell are erased in both
MoreFlags(s) ==
  LET used == Cardinality(Cells)
      open == {c \in Cells : s[0][c] = Erased \/ s[1][c] = Erased} \cup {used}
      c    == CHOOSE x \in open : \A y \in open : x <= y
      Set(i) == c # used /\ s[i][c] # Erased
  IN CASE Set(0) -> 0
       [] Set(1) -> 1
       [] OTHER  -> FLAG_CMP(s[0][c - 1], s[1][c - 1])

\* nvm_select_fresh_sector takes the last sector whenever both are valid
Fresh_NoScan(s) == IF HasMagic(s[1]) /\ ~HasMagic(s[0]) THEN 1 ELSE 0

\* the sector nvm_select_fresh_sector returns
Fresh(s) ==
  CASE HasMagic(s[0]) /\ HasMagic(s[1]) -> MoreFlags(s)
    [] HasMagic(s[1]) /\ ~HasMagic(s[0]) -> 1
    [] OTHER -> 0

\* the sectors after nvm_select_fresh_sector: the one that was not selected
\* is erased unless its last word already is
Selected(s) ==
  LET o == Other(Fresh(s))
  IN IF s[o][0] = Erased THEN s ELSE [s EXCEPT ![o] = Blank]

-----------------------------------------------------------------------------
(* Calls *)

\* the trailer as the next read sees it
Visible ==
  IF HasMagic(sec[Fresh(sec)]) THEN sec[Fresh(sec)] ELSE Blank

Init ==
  /\ sec = [s \in {0, 1} |-> Blank]
  /\ pc = "idle" /\ op = NoCall
  /\ sel = 0 /\ cache = Blank
  /\ tear \in Tears /\ cuts = 0

\* the flag of a sector, wolfBoot_get_update_sector_flag
FlagOf(t, s) ==
  IF s % 2 = 0 THEN t[FlagCell(s)] % 16 ELSE t[FlagCell(s)] \div 16

\* the value that follows a flag: SWAPPING, BACKUP, UPDATED
NextFlag(f) == CASE f = 15 -> 7 [] f = 7 -> 3 [] OTHER -> 0

\* the calls the update engine can make next: it marks an update, swaps the
\* sectors in order, and ends with a last state and an erase
Possible ==
  [call : {"get", "trigger", "erase"}]
    \cup [call : {"state"}, st : IF HasMagic(Visible) THEN States
                                 ELSE States \cap {Updating}]
    \cup {[call |-> "flag", sector |-> s, flag |-> NextFlag(FlagOf(Visible, s))]
            : s \in {x \in 0 .. NSectors - 1 :
                       /\ Visible[1] = Updating
                       /\ FlagOf(Visible, x) # 0
                       /\ \A y \in 0 .. x - 1 : FlagOf(Visible, y) = 0}}

Call ==
  /\ pc = "idle"
  /\ op' \in Possible
  /\ pc' = IF op'.call = "erase" THEN "final" ELSE "select"
  /\ UNCHANGED <<sec, sel, cache, tear, cuts>>

\* the call returns
Return == pc' = "idle" /\ op' = NoCall

\* get_partition_magic: select, and see whether the magic is there;
\* wolfBoot_update_trigger only selects
Select ==
  /\ pc = "select"
  /\ sec' = Selected(sec)
  /\ sel' = Fresh(sec)
  /\ CASE op.call = "get" ->
            Return /\ cache' = cache
       [] op.call = "trigger" ->
            /\ cache' = [Effect(sec[sel'], op) EXCEPT ![0] = Magic]
            /\ pc' = "erase" /\ UNCHANGED op
       [] OTHER ->
            /\ cache' = cache
            /\ pc' = IF HasMagic(sec[sel']) THEN "value" ELSE "magic"
            /\ UNCHANGED op
  /\ UNCHANGED <<tear, cuts>>

\* what hal_flash_write leaves when the sector is not erased: it stops at the
\* first cell that is not, and the cells are written from the last to cell 0
Stopped(old, new) ==
  LET used == {c \in Cells : old[c] # Erased}
      c    == CHOOSE x \in used : \A y \in used : x >= y
  IN [x \in Cells |-> IF x > c THEN new[x] ELSE old[x]]

\* partition_magic_write: the selected sector with the magic is written to the
\* other one, which is not erased first; an error is not reported
MagicWrite ==
  /\ pc = "magic"
  /\ sel' = Fresh(sec)
  /\ cache' = [sec[sel'] EXCEPT ![0] = Magic]
  /\ IF sec[Other(sel')] = Blank
     THEN /\ sec' = [sec EXCEPT ![Other(sel')] = cache']
          /\ pc' = "magic_old"
     ELSE /\ sec' = [sec EXCEPT ![Other(sel')] = Stopped(@, cache')]
          /\ pc' = "value"
  /\ UNCHANGED <<op, tear, cuts>>

\* partition_magic_write erases the sector it read
MagicErase ==
  /\ pc = "magic_old"
  /\ sec' = [sec EXCEPT ![sel] = Blank]
  /\ pc' = "value"
  /\ UNCHANGED <<op, sel, cache, tear, cuts>>

\* get_partition_state or get_update_sector_flags: nothing to do when the byte
\* is already there; else trailer_write fills its cache
Value ==
  /\ pc = "value"
  /\ sec' = Selected(sec)
  /\ sel' = Fresh(sec)
  /\ LET byte == NewByte(sec[sel'], op)
     IN IF sec[sel'][Target(op)] = byte
        THEN Return /\ cache' = cache
        ELSE /\ cache' = [sec[sel'] EXCEPT ![Target(op)] = byte]
             /\ pc' = "erase" /\ UNCHANGED op
  /\ UNCHANGED <<tear, cuts>>

\* trailer_write, wolfBoot_update_trigger: erase the destination
EraseOther ==
  /\ pc = "erase"
  /\ sec' = [sec EXCEPT ![Other(sel)] = Blank]
  /\ pc' = "write"
  /\ UNCHANGED <<op, sel, cache, tear, cuts>>

\* write the new trailer
WriteOther ==
  /\ pc = "write"
  /\ sec' = [sec EXCEPT ![Other(sel)] = cache]
  /\ pc' = "old"
  /\ UNCHANGED <<op, sel, cache, tear, cuts>>

\* erase the sector that was read, and return
EraseOld ==
  /\ pc = "old"
  /\ sec' = [sec EXCEPT ![sel] = Blank]
  /\ Return
  /\ UNCHANGED <<sel, cache, tear, cuts>>

\* wolfBoot_swap_and_final_erase erases both sectors with one call, which is
\* not cut in the middle: what is left of a trailer without its magic would be
\* taken over by the next one
FinalErase ==
  /\ pc = "final"
  /\ sec' = [s \in {0, 1} |-> Blank]
  /\ Return
  /\ UNCHANGED <<sel, cache, tear, cuts>>

-----------------------------------------------------------------------------
(* Power cuts *)

\* what an interrupted erase of a sector can leave
TornErase(s) ==
  CASE tear = "fill" -> {Filled}
    [] tear = "mix" -> {[c \in Cells |-> IF c \in gone THEN Erased ELSE s[c]]
                          : gone \in SUBSET Cells}

\* what an interrupted write of a blank sector can leave: the cells at the
\* lower addresses, which come last in our count; a part of the magic when
\* flash is programmed byte by byte
TornWrite(new) ==
  {[c \in Cells |-> IF c >= k THEN new[c] ELSE Erased]
     : k \in {x \in Cells : x >= 1 /\ x >= Unit}}
    \cup (IF Unit = 0 THEN {[new EXCEPT ![0] = 79]} ELSE {})

\* the sector that the next flash operation erases or writes, and what it may
\* look like when power fails there
Torn ==
  CASE pc \in {"select", "value"} /\ Selected(sec) # sec ->
         {[sec EXCEPT ![Other(Fresh(sec))] = t]
            : t \in TornErase(sec[Other(Fresh(sec))])}
    [] pc = "magic" /\ sec[Other(Fresh(sec))] = Blank ->
         {[sec EXCEPT ![Other(Fresh(sec))] = t]
            : t \in TornWrite([sec[Fresh(sec)] EXCEPT ![0] = Magic])}
    [] pc \in {"magic_old", "old"} ->
         {[sec EXCEPT ![sel] = t] : t \in TornErase(sec[sel])}
    [] pc = "erase" ->
         {[sec EXCEPT ![Other(sel)] = t]
            : t \in TornErase(sec[Other(sel)])}
    [] pc = "write" ->
         {[sec EXCEPT ![Other(sel)] = t] : t \in TornWrite(cache)}
    [] OTHER -> {}

PowerCut ==
  /\ pc # "off" /\ cuts < MaxCuts
  /\ cuts' = cuts + 1
  /\ sec' \in {sec} \cup Torn
  /\ pc' = "off" /\ op' = NoCall
  /\ sel' = 0 /\ cache' = Blank /\ UNCHANGED tear

\* wolfBoot_start reads the states of both partitions before anything else
Boot ==
  /\ pc = "off"
  /\ pc' = "select" /\ op' = [call |-> "get"]
  /\ UNCHANGED <<sec, sel, cache, tear, cuts>>

Step ==
  \/ Select \/ MagicWrite \/ MagicErase \/ Value
  \/ EraseOther \/ WriteOther \/ EraseOld
  \/ FinalErase \/ Boot

Next == Call \/ Step \/ PowerCut

\* nothing blocks the boot loader or the application inside a call
Spec == Init /\ [][Next]_vars /\ WF_vars(Step)

-----------------------------------------------------------------------------
(* Properties *)

Sectors == [Cells -> 0 .. 255]

\* The sectors hold bytes, and the calls, the cache and the selected sector keep
\* their types; two sector flags share a byte without overflowing it.
TypeOK ==
  /\ sec \in [{0, 1} -> Sectors]
  /\ pc \in {"off", "idle", "select", "magic", "magic_old", "value", "erase",
             "write", "old", "final"}
  /\ op \in Calls \cup {NoCall}
  /\ sel \in {0, 1} /\ cache \in Sectors
  /\ tear \in Tears /\ cuts \in 0 .. MaxCuts

Abstract == INSTANCE Trailer WITH val <- Visible, req <- op

\* The two sectors behave as one trailer that every call changes at one
\* instant, whatever a power failure leaves in the sector that is being erased
\* or written (nvm_select_fresh_sector, trailer_write), and every call returns.
OneTrailer == Abstract!Spec
=============================================================================
