--------------------------- MODULE SwapUpdateProofs ---------------------------
(***************************************************************************)
(* The steps of the loop of wolfBoot_update preserve the swap invariant.   *)
(***************************************************************************)
EXTENDS SwapPhaseProofs

USE DEF IMG_STATE_NEW, IMG_STATE_UPDATING, IMG_STATE_FINAL_FLAGS,
        IMG_STATE_TESTING, IMG_STATE_SUCCESS, NoTrailer,
        SECT_FLAG_NEW, SECT_FLAG_SWAPPING, SECT_FLAG_BACKUP, SECT_FLAG_UPDATED,
        images, trailers, flash, locals, ghosts
USE SizeFacts DEF Looping, Swapped, Staged, Restoring, Finishing, Requested,
                  SwapJobs, SwapSafeFor

(* wolfBoot_update *)

\* An update is refused before its first flag, or when the header is lost.
LEMMA UpdateRejectStep ==
  ASSUME TypeOK, FinalFlagsInv, NEW o \in Acceptable, NEW n \in Acceptable,
         SwapSafeFor(o, n), UpdateReject
  PROVE  SwapSafeFor(o, n)'
<1>1. /\ pc = "update" /\ pc' = "verify" /\ ~UpdateAllowed
      /\ UNCHANGED <<flash, locals>>
  BY SMTT(30) DEF UpdateReject, UpdateFailed, ControlInv
<1>2. FlagsInv' /\ ControlInv'
  BY <1>1 DEF FlagsInv, ControlInv
<1>3. ustate # IMG_STATE_FINAL_FLAGS
  BY <1>1 DEF FinalFlagsInv
<1>4. flag[0] = SECT_FLAG_NEW \/ HeaderLost
  <2>. SUFFICES ASSUME flag[0] # SECT_FLAG_NEW, ~HeaderLost PROVE FALSE
    OBVIOUS
  <2>1. flag[0] \in SectFlags
    BY SMTT(30) DEF TypeOK
  <2>2. flag[0] # SECT_FLAG_SWAPPING => Intact(upd, 0, o)
    BY <1>3, <2>1, SMTT(30) DEF SectFlags, ImagesInv, SwapInv
  <2>3. Header(upd)
    BY <2>2, FlagIs, HeaderIs DEF HeaderLost
  <2>. QED BY <1>1, <2>3, FlagIs DEF UpdateAllowed
<1>5. Holds(boot, o)
  BY <1>4, LostHolds, SMTT(30) DEF ImagesInv, IdleInv
<1>6. HeaderLost' = HeaderLost
  BY <1>1, Zenon DEF HeaderLost, SectorFlag, Header
<1>. QED BY <1>1, <1>2, <1>3, <1>4, <1>5, <1>6, ToQuiet, SMTT(30)

\* A new update brings the image that was verified in UPDATE; a resumed one goes
\* on with the images it had.
LEMMA UpdateBeginStep ==
  ASSUME TypeOK, FinalFlagsInv, NEW o \in Acceptable, NEW n \in Acceptable,
         SwapSafeFor(o, n), UpdateBegin
  PROVE  (\E m \in Acceptable : SwapSafeFor(o, m))'
<1>1. /\ pc = "update" /\ pc' = "swap" /\ UpdateAllowed /\ sector' = 0
      /\ usz' = Sectors(upd) /\ UNCHANGED <<flash, bs, us, emerg, resume, job>>
  BY Zenon DEF UpdateBegin
<1>2. FlagsInv' /\ ControlInv'
  BY <1>1 DEF FlagsInv, ControlInv
<1>3. ustate # IMG_STATE_FINAL_FLAGS /\ ~HeaderLost
  BY <1>1 DEF FinalFlagsInv, UpdateAllowed, HeaderLost
<1>4. \A s \in Data : ~(s < sector')
  BY <1>1, ConstantsAssumption DEF Data
<1>5. CASE flag[0] = SECT_FLAG_NEW
  <2>1. PICK m \in Acceptable : Holds(upd, m) /\ Sectors(upd) = Size[m]
    BY <1>1, <1>5, FlagIs, VerifiedHolds, SMTT(30) DEF UpdateAllowed
  <2>2. IdleInv(o, m)' /\ SwapInv(o, m)' /\ LoopInv(o, m)'
    <3>1. IdleInv(o, m)'
      BY <1>1, <1>5, <2>1, SMTT(30) DEF ImagesInv, IdleInv
    <3>2. SwapInv(o, m)'
      BY <1>1, <1>5, Zenon DEF SwapInv
    <3>3. LoopInv(o, m)'
      BY <1>1, <1>4, SMTT(30) DEF LoopInv
    <3>. QED BY <3>1, <3>2, <3>3, Zenon
  <2>3. SwapSafeFor(o, m)'
    BY <1>1, <1>2, <1>3, <2>2, ToLooping
  <2>. QED BY <2>3, Zenon
<1>6. CASE flag[0] # SECT_FLAG_NEW
  <2>1. IdleInv(o, n)' /\ SwapInv(o, n)' /\ LoopInv(o, n)'
    <3>1. IdleInv(o, n)'
      BY <1>1, <1>6, Zenon DEF IdleInv
    <3>2. SwapInv(o, n)'
      BY <1>1, <1>3, <1>6, SMTT(30) DEF ImagesInv, SwapInv
    <3>3. LoopInv(o, n)'
      BY <1>1, <1>4, SMTT(30) DEF LoopInv
    <3>. QED BY <3>1, <3>2, <3>3, Zenon
  <2>2. SwapSafeFor(o, n)'
    BY <1>1, <1>2, <1>3, <2>1, ToLooping
  <2>. QED BY <2>2, ZenonT(30)
<1>. QED BY <1>5, <1>6

\* The flag of a sector selects the copy.
LEMMA SwapSectorStep ==
  ASSUME TypeOK, FinalFlagsInv, NEW o \in Acceptable, NEW n \in Acceptable,
         SwapSafeFor(o, n), SwapSector
  PROVE  SwapSafeFor(o, n)'
<1>1. /\ pc = "swap" /\ pc' = "copy" /\ sector < TotalSize
      /\ SectorFlag(sector) # SECT_FLAG_UPDATED
      /\ UNCHANGED <<flash, bs, us, emerg, resume, sector, bsz, usz>>
  BY Zenon DEF SwapSector
<1>2. sector \in Data /\ flag[sector] \in SectFlags
  BY <1>1, ConstantsAssumption, SMTT(30) DEF TotalSize, TypeOK, Data
<1>3. SectorFlag(sector) = flag[sector]
  BY <1>2, FlagIs
<1>4. /\ flag[sector] = SECT_FLAG_NEW      => job' = "update_swap"
      /\ flag[sector] = SECT_FLAG_SWAPPING => job' = "boot_update"
      /\ flag[sector] = SECT_FLAG_BACKUP   => job' = "swap_boot"
  BY <1>3 DEF SwapSector
<1>5. job' \in SwapJobs
  BY <1>1, <1>2, <1>3, <1>4, SMTT(30) DEF SectFlags
<1>6. FlagsInv' /\ ControlInv'
  BY <1>1, <1>5, SMTT(30) DEF FlagsInv, ControlInv
<1>7. sector < Size[o] \/ sector < Size[n]
  BY <1>1, SMTT(30) DEF TotalSize, ImagesInv, LoopInv, TypeOK
<1>8. LoopInv(o, n)'
  BY <1>1, <1>2, <1>3, <1>4, <1>5, <1>7, SMTT(30) DEF ImagesInv, LoopInv, SectFlags
<1>9. IdleInv(o, n)' /\ SwapInv(o, n)' /\ ustate # IMG_STATE_FINAL_FLAGS
  BY <1>1, <1>5 DEF ImagesInv, FinalFlagsInv, IdleInv, SwapInv
<1>. QED BY <1>1, <1>5, <1>6, <1>8, <1>9, ToLooping

\* Setting a flag moves a sector from one promise to the next.
LEMMA SetSectorFlagStep ==
  ASSUME TypeOK, FinalFlagsInv, NEW o \in Acceptable, NEW n \in Acceptable,
         SwapSafeFor(o, n), SetSectorFlag
  PROVE  SwapSafeFor(o, n)'
<1>1. /\ pc = "flag" /\ sector \in Data /\ job \in SwapJobs /\ umagic'
      /\ UNCHANGED <<images, bmagic, bstate, ustate, locals>>
  BY DEF SetSectorFlag, TypeOK
<1>2. ustate # IMG_STATE_FINAL_FLAGS
  BY <1>1 DEF FinalFlagsInv
<1>3. CASE ~umagic
  <2>1. UNCHANGED <<flag, pc>>
    BY <1>3, Zenon DEF SetSectorFlag
  <2>2. flag[0] = SECT_FLAG_NEW
    BY <1>3, SMTT(30) DEF FlagsInv
  <2>3. FlagsInv' /\ ControlInv'
    BY <1>1, <2>1, SMTT(30) DEF FlagsInv, ControlInv
  <2>4. IdleInv(o, n)' /\ LoopInv(o, n)' /\ SwapInv(o, n)'
    <3>1. IdleInv(o, n)' /\ SwapInv(o, n)'
      BY <1>1, <2>1, <2>2, SMTT(30) DEF ImagesInv, IdleInv, SwapInv
    <3>2. LoopInv(o, n)'
      BY <1>1, <2>1, SMTT(30) DEF ImagesInv, LoopInv
    <3>. QED BY <3>1, <3>2, Zenon
  <2>. QED BY <1>1, <1>2, <2>1, <2>3, <2>4, ToLooping
<1>4. CASE umagic
  <2>1. pc' = "swap"
    BY <1>4 DEF SetSectorFlag
  <2>2. \A s \in Data : s < sector => flag[s] = SECT_FLAG_UPDATED
    BY <1>1, SMTT(30) DEF ImagesInv, LoopInv
  <2>3. \A s \in Data : s > sector => flag[s] = SECT_FLAG_NEW
    BY <1>1, SMTT(30) DEF FlagsInv, ImagesInv, LoopInv
  <2>4. \A s \in Data : s # sector => flag'[s] = flag[s]
    BY <1>1, <1>4 DEF SetSectorFlag, TypeOK
  <2>5. /\ job = "update_swap" => flag'[sector] = SECT_FLAG_SWAPPING
        /\ job = "boot_update" => flag'[sector] = SECT_FLAG_BACKUP
        /\ job = "swap_boot"   => flag'[sector] = SECT_FLAG_UPDATED
    BY <1>1, <1>4, SMTT(30)
       DEF SetSectorFlag, NextFlag, Program, TypeOK, ImagesInv, LoopInv
  <2>6. flag'[0] # SECT_FLAG_NEW
    BY <1>1, <2>2, <2>4, <2>5, SMTT(30) DEF Data
  <2>7. FlagsInv' /\ ControlInv'
    <3>1. FlagsInv'
      BY <1>1, <2>2, <2>3, <2>4, <2>5, SMTT(30) DEF FlagsInv, Data
    <3>2. ControlInv'
      BY <1>1, <2>1, SMTT(30) DEF ControlInv, Requested
    <3>. QED BY <3>1, <3>2, Zenon
  <2>8. SwapInv(o, n)'
    <3>1. Requested'
      BY <1>1, SMTT(30) DEF ControlInv, Requested
    <3>2. /\ sector < Size[o] \/ sector < Size[n]
          /\ job = "update_swap" =>
               /\ flag[sector] = SECT_FLAG_NEW
               /\ sector < Size[n] => swap = Whole(n, sector)
          /\ job = "boot_update" =>
               flag[sector] = SECT_FLAG_SWAPPING /\ Intact(upd, sector, o)
          /\ job = "swap_boot" =>
               flag[sector] = SECT_FLAG_BACKUP /\ Intact(boot, sector, n)
      BY <1>1, SMTT(30) DEF ImagesInv, LoopInv
    <3>3. CASE flag[0] = SECT_FLAG_NEW
      <4>1. sector = 0 /\ job = "update_swap"
        BY <1>1, <2>2, <3>2, <3>3, SMTT(30) DEF Data
      <4>2. Holds(boot, o) /\ Holds(upd, n)
        BY <1>1, <3>3, Zenon DEF ImagesInv, IdleInv
      <4>. QED BY <1>1, <2>1, <2>3, <2>4, <2>5, <3>1, <3>2, <4>1, <4>2, SMTT(30)
           DEF SwapInv, Holds, Data
    <3>4. CASE flag[0] # SECT_FLAG_NEW
      BY <1>1, <1>2, <2>1, <2>4, <2>5, <3>1, <3>2, <3>4, SMTT(30)
         DEF ImagesInv, SwapInv
    <3>. QED BY <3>3, <3>4, Zenon
  <2>9. IdleInv(o, n)' /\ LoopInv(o, n)'
    BY <1>1, <2>1, <2>2, <2>4, <2>6, SMTT(30) DEF ImagesInv, IdleInv, LoopInv, Data
  <2>. QED BY <1>1, <1>2, <2>1, <2>7, <2>8, <2>9, ToLooping
<1>. QED BY <1>3, <1>4, SMTT(30)

\* After the first sector the sizes are those of the exchanged headers.
LEMMA NextSectorStep ==
  ASSUME TypeOK, FinalFlagsInv, NEW o \in Acceptable, NEW n \in Acceptable,
         SwapSafeFor(o, n), NextSector
  PROVE  SwapSafeFor(o, n)'
<1>1. /\ pc = "swap" /\ pc' = "swap" /\ sector' = sector + 1
      /\ UNCHANGED <<flash, bs, us, emerg, resume, job>>
  BY SMTT(30) DEF NextSector
<1>2. sector \in Data /\ flag[sector] = SECT_FLAG_UPDATED
  BY FlagIs, ConstantsAssumption, SMTT(30)
     DEF NextSector, TotalSize, TypeOK, Data
<1>3. FlagsInv' /\ ControlInv'
  BY <1>1 DEF FlagsInv, ControlInv
<1>4. flag[0] = SECT_FLAG_UPDATED /\ ustate # IMG_STATE_FINAL_FLAGS
  BY <1>1, <1>2, SMTT(30) DEF ImagesInv, LoopInv, FinalFlagsInv, Data
<1>5. Intact(upd, 0, o) /\ Intact(boot, 0, n)
  BY <1>1, <1>4, SMTT(30) DEF ImagesInv, SwapInv
<1>6. Sectors(upd) = Size[o] /\ Sectors(boot) = Size[n]
  BY <1>5, HeaderIs, Zenon
<1>7. bsz' = Size[o] /\ usz' = Size[n]
  BY <1>1, <1>2, <1>6, SMTT(30) DEF NextSector, ImagesInv, LoopInv, Data
<1>8. LoopInv(o, n)'
  BY <1>1, <1>2, <1>7, SMTT(30) DEF ImagesInv, LoopInv, Data
<1>9. IdleInv(o, n)' /\ SwapInv(o, n)'
  <2>1. IdleInv(o, n)'
    BY <1>1, <1>4 DEF IdleInv
  <2>2. SwapInv(o, n)'
    BY <1>1, <1>4, SMTT(30) DEF ImagesInv, SwapInv
  <2>. QED BY <2>1, <2>2, Zenon
<1>. QED BY <1>1, <1>3, <1>4, <1>8, <1>9, ToLooping

\* The loop ends when every sector of both images is exchanged.
LEMMA SwapDoneStep ==
  ASSUME TypeOK, FinalFlagsInv, NEW o \in Acceptable, NEW n \in Acceptable,
         SwapSafeFor(o, n), SwapDone
  PROVE  SwapSafeFor(o, n)'
<1>1. /\ pc = "swap" /\ pc' = "remainder" /\ UNCHANGED <<flash, locals>>
      /\ sector > 0 /\ sector >= bsz /\ sector >= usz
  BY ConstantsAssumption, SMTT(30) DEF SwapDone, TotalSize, TypeOK
<1>2. sector >= Size[o] /\ sector >= Size[n]
  BY <1>1, SMTT(30) DEF ImagesInv, LoopInv
<1>3. \A s \in Data : s < Size[o] \/ s < Size[n] => flag[s] = SECT_FLAG_UPDATED
  BY <1>1, <1>2, SMTT(30) DEF ImagesInv, LoopInv, Data, TypeOK
<1>4. FlagsInv' /\ ControlInv'
  BY <1>1 DEF FlagsInv, ControlInv
<1>5. ustate # IMG_STATE_FINAL_FLAGS /\ flag[0] = SECT_FLAG_UPDATED
  BY <1>1, <1>3 DEF FinalFlagsInv
<1>6. ~HeaderLost'
  <2>1. UNCHANGED <<umagic, flag>>
    BY <1>1
  <2>. QED BY <1>5, <2>1 DEF HeaderLost, SectorFlag
<1>7. SwapInv(o, n)' /\ SwappedInv(o, n)'
  <2>1. SwapInv(o, n)'
    <3>1. /\ pc = "swap" /\ pc' = "remainder"
          /\ UNCHANGED <<images, bmagic, bstate, ustate, flag>>
      BY <1>1
    <3>. QED BY <1>5, <3>1, SMTT(30) DEF ImagesInv, SwapInv
  <2>2. SwappedInv(o, n)'
    BY <1>1, <1>2, <1>3, <1>5, SMTT(30) DEF ImagesInv, SwapInv, SwappedInv
  <2>. QED BY <2>1, <2>2, Zenon
<1>. QED BY <1>1, <1>4, <1>5, <1>6, <1>7, ToSwapped, SMTT(30)

\* Only sectors beyond both images are erased.
LEMMA EraseRemainderStep ==
  ASSUME TypeOK, FinalFlagsInv, NEW o \in Acceptable, NEW n \in Acceptable,
         SwapSafeFor(o, n), EraseRemainder
  PROVE  SwapSafeFor(o, n)'
<1>1. /\ pc \in {"remainder", "remainder_update"}
      /\ pc' \in {"remainder", "remainder_update"}
      /\ sector' = sector \/ sector' = sector + 1
      /\ \/ boot' = [boot EXCEPT ![sector] = Blank] /\ upd' = upd
         \/ upd' = [upd EXCEPT ![sector] = Blank] /\ boot' = boot
      /\ UNCHANGED <<swap, trailers, bs, us, emerg, resume>>
  BY SMTT(30) DEF EraseRemainder
<1>2. Swapped /\ sector >= Size[o] /\ sector >= Size[n]
  BY <1>1, SMTT(30) DEF ImagesInv, SwappedInv
<1>3. FlagsInv' /\ ControlInv'
  BY <1>1, SMTT(30) DEF FlagsInv, ControlInv
<1>4. /\ ustate # IMG_STATE_FINAL_FLAGS
      /\ flag[0] = SECT_FLAG_UPDATED /\ ~HeaderLost
      /\ \A s \in Data : flag[s] \in {SECT_FLAG_NEW, SECT_FLAG_UPDATED}
      /\ \A s \in Data :
           s < Size[o] \/ s < Size[n] => flag[s] = SECT_FLAG_UPDATED
  BY <1>2, SwappedFacts, SMTT(30) DEF ImagesInv, SwappedInv
<1>5. \A s \in Data : s < Size[o] \/ s < Size[n] =>
        boot'[s] = boot[s] /\ upd'[s] = upd[s]
  <2>1. sector \notin {s \in Data : s < Size[o] \/ s < Size[n]}
    BY <1>2, SMTT(30) DEF Data
  <2>. QED BY <1>1, <2>1 DEF TypeOK
<1>6. \A s \in Data :
        /\ flag[s] = SECT_FLAG_NEW => Intact(boot', s, o) /\ Intact(upd', s, n)
        /\ flag[s] = SECT_FLAG_UPDATED =>
             Intact(upd', s, o) /\ Intact(boot', s, n)
  <2>1. \A s \in Data : flag[s] = SECT_FLAG_UPDATED =>
          Intact(upd, s, o) /\ Intact(boot, s, n)
    BY <1>4, SMTT(30) DEF ImagesInv, SwapInv
  <2>. QED BY <1>4, <1>5, <2>1, SMTT(30) DEF Intact
<1>7. SwapInv(o, n)'
  <2>1. Swapped' /\ flag' = flag /\ swap' = swap /\ pc' # "dispatch"
    BY <1>1, SMTT(30)
  <2>2. Requested'
    BY <1>3, <2>1, SMTT(30) DEF ControlInv
  <2>3. \A s \in Data : flag[s] # SECT_FLAG_NEW => s < Size[o] \/ s < Size[n]
    BY <1>4, SMTT(30) DEF ImagesInv, SwapInv
  <2>. QED BY <1>4, <1>6, <2>1, <2>2, <2>3 DEF SwapInv
<1>8. SwappedInv(o, n)'
  BY <1>1, <1>2, <1>4 DEF SwappedInv, TypeOK
<1>9. ~HeaderLost'
  BY <1>1, <1>4 DEF HeaderLost, SectorFlag
<1>. QED BY <1>1, <1>3, <1>4, <1>7, <1>8, <1>9, ToSwapped, SMTT(30)
==============================================================================
