--------------------------- MODULE SwapCopyProofs ----------------------------
(***************************************************************************)
(* Sector copies and the final erase preserve the swap invariant.          *)
(***************************************************************************)
EXTENDS SwapUpdateProofs

USE DEF IMG_STATE_NEW, IMG_STATE_UPDATING, IMG_STATE_FINAL_FLAGS,
        IMG_STATE_TESTING, IMG_STATE_SUCCESS, NoTrailer,
        SECT_FLAG_NEW, SECT_FLAG_SWAPPING, SECT_FLAG_BACKUP, SECT_FLAG_UPDATED,
        images, trailers, flash, locals, ghosts
USE SizeFacts DEF Looping, Swapped, Staged, Restoring, Finishing, Requested,
                  SwapJobs, SwapSafeFor

(* wolfBoot_copy_sector *)

\* While a copy is under way its destination is a sector no flag relies on.
LEMMA CopyBeginStep ==
  ASSUME TypeOK, FinalFlagsInv, NEW o \in Acceptable, NEW n \in Acceptable,
         SwapSafeFor(o, n), CopyBegin
  PROVE  SwapSafeFor(o, n)'
<1>1. PICK c : SetDestination(c)
  BY Zenon DEF CopyBegin
<1>2. /\ pc = "copy" /\ pc' = "copying" /\ sector \in Data /\ job \in Jobs
      /\ UNCHANGED <<trailers, locals>>
  BY DEF CopyBegin, TypeOK
<1>3. FlagsInv' /\ ControlInv'
  BY <1>2 DEF FlagsInv, ControlInv
<1>4. job # "restore" => ustate # IMG_STATE_FINAL_FLAGS
  BY <1>2 DEF FinalFlagsInv
<1>5. job \in SwapJobs => LoopInv(o, n)'
  BY <1>2 DEF ImagesInv, LoopInv
<1>6. CASE job = "update_swap"
  <2>1. UNCHANGED <<boot, upd>>
    BY <1>1, <1>6, SMTT(30) DEF SetDestination
  <2>2. \A s \in Data : flag[s] \notin {SECT_FLAG_SWAPPING, SECT_FLAG_BACKUP}
    BY <1>2, <1>6, SMTT(30) DEF FlagsInv, ImagesInv, LoopInv, Data
  <2>3. IdleInv(o, n)' /\ SwapInv(o, n)'
    BY <1>2, <1>6, <2>1, <2>2, SMTT(30) DEF ImagesInv, IdleInv, SwapInv
  <2>. QED BY <1>2, <1>3, <1>4, <1>5, <1>6, <2>3, ToLooping
<1>7. CASE job = "boot_update"
  <2>1. /\ UNCHANGED <<boot, swap>>
        /\ \A s \in Data : s # sector => upd'[s] = upd[s]
    BY <1>1, <1>2, <1>7, SMTT(30) DEF SetDestination, TypeOK
  <2>2. flag[sector] = SECT_FLAG_SWAPPING /\ flag[0] # SECT_FLAG_NEW
    BY <1>2, <1>7, SMTT(30) DEF FlagsInv, ImagesInv, LoopInv, Data
  <2>3. IdleInv(o, n)' /\ SwapInv(o, n)'
    BY <1>2, <1>4, <1>7, <2>1, <2>2, SMTT(30)
       DEF ImagesInv, IdleInv, SwapInv, Intact
  <2>. QED BY <1>2, <1>3, <1>4, <1>5, <1>7, <2>3, ToLooping, SMTT(30)
<1>8. CASE job = "swap_boot"
  <2>1. /\ UNCHANGED <<upd, swap>>
        /\ \A s \in Data : s # sector => boot'[s] = boot[s]
    BY <1>1, <1>2, <1>8, SMTT(30) DEF SetDestination, TypeOK
  <2>2. flag[sector] = SECT_FLAG_BACKUP /\ flag[0] # SECT_FLAG_NEW
    BY <1>2, <1>8, SMTT(30) DEF FlagsInv, ImagesInv, LoopInv, Data
  <2>3. IdleInv(o, n)' /\ SwapInv(o, n)'
    BY <1>2, <1>4, <1>8, <2>1, <2>2, SMTT(30)
       DEF ImagesInv, IdleInv, SwapInv, Intact
  <2>. QED BY <1>2, <1>3, <1>4, <1>5, <1>8, <2>3, ToLooping, SMTT(30)
<1>9. CASE job = "stage"
  <2>1. UNCHANGED <<boot, upd>>
    BY <1>1, <1>9 DEF SetDestination
  <2>2. /\ flag[0] = SECT_FLAG_UPDATED /\ ~HeaderLost
        /\ \A s \in Data : flag[s] \in {SECT_FLAG_NEW, SECT_FLAG_UPDATED}
    BY <1>2, <1>9, SwappedFacts
  <2>3. ~HeaderLost'
    BY <1>2, <2>2, SMTT(30) DEF HeaderLost, SectorFlag
  <2>4. SwapInv(o, n)'
    BY <1>2, <1>4, <1>9, <2>1, <2>2, SMTT(30) DEF ImagesInv, SwapInv
  <2>5. SwappedInv(o, n)'
    BY <1>2, <1>9 DEF ImagesInv, SwappedInv
  <2>. QED BY <1>2, <1>3, <1>4, <1>9, <2>2, <2>3, <2>4, <2>5, ToSwapped, SMTT(30)
<1>10. CASE job = "restore"
  <2>1. /\ UNCHANGED swap
        /\ \A s \in Data : s # sector => boot'[s] = boot[s]
    BY <1>1, <1>2, <1>10, SMTT(30) DEF SetDestination, TypeOK
  <2>2. /\ ustate = IMG_STATE_FINAL_FLAGS
        /\ flag[0] = SECT_FLAG_UPDATED /\ sector = Staging
    BY <1>2, <1>10, SMTT(30) DEF ControlInv, ImagesInv, FinalInv
  <2>3. FinalInv(n)'
    BY <1>2, <1>10, <2>1, <2>2, SMTT(30) DEF ImagesInv, FinalInv, Intact
  <2>. QED BY <1>2, <1>3, <1>10, <2>2, <2>3, ToFinishing, SMTT(30)
<1>. QED BY <1>2, <1>6, <1>7, <1>8, <1>9, <1>10 DEF Jobs

\* A completed copy is what the next flag will promise.
LEMMA CopyEndStep ==
  ASSUME TypeOK, FinalFlagsInv, NEW o \in Acceptable, NEW n \in Acceptable,
         SwapSafeFor(o, n), CopyEnd
  PROVE  SwapSafeFor(o, n)'
<1>1. SetDestination(Copied) /\ pc' = AfterCopy
  BY Zenon DEF CopyEnd
<1>2. /\ pc = "copying" /\ sector \in Data /\ job \in Jobs
      /\ UNCHANGED <<trailers, locals>>
  BY DEF CopyEnd, TypeOK
<1>3. /\ job \in SwapJobs => pc' = "flag"
      /\ job = "stage"    => pc' = "final_flags"
      /\ job = "restore"  => pc' = "testing"
  BY <1>1, SMTT(30) DEF AfterCopy
<1>4. FlagsInv' /\ ControlInv'
  BY <1>2, <1>3, SMTT(30) DEF FlagsInv, ControlInv, Jobs
<1>5. job # "restore" => ustate # IMG_STATE_FINAL_FLAGS
  BY <1>2, SMTT(30) DEF FinalFlagsInv
<1>6. CASE job = "update_swap"
  <2>1. UNCHANGED <<boot, upd>> /\ (sector < usz => swap' = upd[sector])
    BY <1>1, <1>6, SMTT(30) DEF SetDestination, Copied
  <2>2. \A s \in Data : flag[s] \notin {SECT_FLAG_SWAPPING, SECT_FLAG_BACKUP}
    BY <1>2, <1>6, SMTT(30) DEF FlagsInv, ImagesInv, LoopInv, Data
  <2>3. flag[sector] = SECT_FLAG_NEW
    BY <1>2, <1>6, SMTT(30) DEF ImagesInv, LoopInv
  <2>4. usz = Size[n] /\ Intact(upd, sector, n)
    <3>1. CASE sector = 0
      BY <1>2, <1>6, <2>3, <3>1, SMTT(30) DEF ImagesInv, IdleInv, Holds
    <3>2. CASE sector > 0
      BY <1>2, <1>5, <1>6, <2>3, <3>2, SMTT(30) DEF ImagesInv, LoopInv, SwapInv, Data
    <3>. QED BY <1>2, <3>1, <3>2, SMTT(30) DEF Data
  <2>5. sector < Size[n] => swap' = Whole(n, sector)
    BY <2>1, <2>4, SMTT(30) DEF Intact
  <2>6. LoopInv(o, n)'
    BY <1>2, <1>3, <1>6, <2>5, SMTT(30) DEF ImagesInv, LoopInv
  <2>7. IdleInv(o, n)' /\ SwapInv(o, n)'
    BY <1>2, <1>3, <1>6, <2>1, <2>2, SMTT(30) DEF ImagesInv, IdleInv, SwapInv
  <2>. QED BY <1>2, <1>3, <1>4, <1>5, <1>6, <2>6, <2>7, ToLooping, SMTT(30)
<1>7. CASE job = "boot_update"
  <2>1. /\ UNCHANGED <<boot, swap>>
        /\ \A s \in Data : s # sector => upd'[s] = upd[s]
        /\ sector < bsz => upd'[sector] = boot[sector]
    BY <1>1, <1>2, <1>7, SMTT(30) DEF SetDestination, TypeOK, Copied
  <2>2. flag[sector] = SECT_FLAG_SWAPPING /\ flag[0] # SECT_FLAG_NEW
    BY <1>2, <1>7, SMTT(30) DEF FlagsInv, ImagesInv, LoopInv, Data
  <2>3. Intact(boot, sector, o)
    BY <1>2, <1>5, <1>7, <2>2, SMTT(30) DEF ImagesInv, SwapInv
  <2>4. sector < Size[o] => sector < bsz
    BY <1>2, <1>7, SMTT(30) DEF ImagesInv, LoopInv, Data, TypeOK
  <2>5. Intact(upd, sector, o)'
    BY <1>2, <2>1, <2>3, <2>4, Zenon DEF Intact
  <2>6. LoopInv(o, n)'
    BY <1>2, <1>3, <1>7, <2>5, SMTT(30) DEF ImagesInv, LoopInv
  <2>7. IdleInv(o, n)' /\ SwapInv(o, n)'
    BY <1>2, <1>3, <1>5, <1>7, <2>1, <2>2, SMTT(30)
       DEF ImagesInv, IdleInv, SwapInv, Intact
  <2>. QED BY <1>2, <1>3, <1>4, <1>5, <1>7, <2>6, <2>7, ToLooping, SMTT(30)
<1>8. CASE job = "swap_boot"
  <2>1. /\ UNCHANGED <<upd, swap>>
        /\ \A s \in Data : s # sector => boot'[s] = boot[s]
        /\ boot'[sector] = swap
    BY <1>1, <1>2, <1>8 DEF SetDestination, TypeOK, Copied
  <2>2. flag[sector] = SECT_FLAG_BACKUP /\ flag[0] # SECT_FLAG_NEW
    BY <1>2, <1>8, SMTT(30) DEF FlagsInv, ImagesInv, LoopInv, Data
  <2>3. Intact(boot, sector, n)'
    BY <1>2, <1>5, <1>8, <2>1, <2>2, SMTT(30) DEF ImagesInv, SwapInv, Intact
  <2>4. LoopInv(o, n)'
    BY <1>2, <1>3, <1>8, <2>3, SMTT(30) DEF ImagesInv, LoopInv
  <2>5. IdleInv(o, n)' /\ SwapInv(o, n)'
    BY <1>2, <1>3, <1>5, <1>8, <2>1, <2>2, SMTT(30)
       DEF ImagesInv, IdleInv, SwapInv, Intact
  <2>. QED BY <1>2, <1>3, <1>4, <1>5, <1>8, <2>4, <2>5, ToLooping
<1>9. CASE job = "stage"
  <2>1. UNCHANGED <<boot, upd>> /\ (sector < bsz => swap' = boot[sector])
    BY <1>1, <1>9 DEF SetDestination, Copied
  <2>2. /\ flag[0] = SECT_FLAG_UPDATED /\ ~HeaderLost /\ Holds(boot, n)
        /\ \A s \in Data : flag[s] \in {SECT_FLAG_NEW, SECT_FLAG_UPDATED}
    BY <1>2, <1>9, SwappedFacts
  <2>3. ~HeaderLost'
    BY <1>2, <2>2 DEF HeaderLost, SectorFlag
  <2>4. Staging < Size[n] => swap' = Whole(n, Staging)
    BY <1>2, <1>9, <2>1, <2>2, SMTT(30) DEF ImagesInv, SwappedInv, Holds, Intact
  <2>5. SwapInv(o, n)'
    BY <1>2, <1>3, <1>5, <1>9, <2>1, <2>2, SMTT(30) DEF ImagesInv, SwapInv
  <2>6. SwappedInv(o, n)'
    BY <1>2, <1>3, <1>9, <2>4 DEF ImagesInv, SwappedInv
  <2>. QED BY <1>2, <1>3, <1>4, <1>5, <1>9, <2>2, <2>3, <2>5, <2>6, ToSwapped
<1>10. CASE job = "restore"
  <2>1. /\ UNCHANGED swap /\ boot'[sector] = swap
        /\ \A s \in Data : s # sector => boot'[s] = boot[s]
    BY <1>1, <1>2, <1>10, SMTT(30) DEF SetDestination, TypeOK, Copied
  <2>2. /\ ustate = IMG_STATE_FINAL_FLAGS
        /\ flag[0] = SECT_FLAG_UPDATED /\ sector = Staging
    BY <1>2, <1>10, SMTT(30) DEF ControlInv, ImagesInv, FinalInv
  <2>3. FinalInv(n)'
    BY <1>2, <1>3, <1>10, <2>1, <2>2, Zenon DEF ImagesInv, FinalInv, Intact
  <2>. QED BY <1>2, <1>3, <1>4, <1>10, <2>2, <2>3, ToFinishing
<1>. QED BY <1>2, <1>6, <1>7, <1>8, <1>9, <1>10 DEF Jobs

(* wolfBoot_swap_and_final_erase *)

\* The final erase begins with the whole new image in BOOT.
LEMMA FinalEraseStep ==
  ASSUME TypeOK, FinalFlagsInv, NEW o \in Acceptable, NEW n \in Acceptable,
         SwapSafeFor(o, n), FinalErase
  PROVE  SwapSafeFor(o, n)'
<1>1. /\ ustate # IMG_STATE_FINAL_FLAGS /\ Sectors(boot) = Size[n]
      /\ flag[0] = SECT_FLAG_UPDATED /\ ~HeaderLost
  BY SwappedFacts DEF FinalErase
<1>2. /\ pc = "remainder" /\ pc' = "copy" /\ job' = "stage" /\ bsz' = Size[n]
      /\ ~resume' /\ sector' = Staging /\ UNCHANGED <<flash, bs, us, emerg>>
  BY <1>1 DEF FinalErase, UpdateState
<1>3. FlagsInv' /\ ControlInv'
  BY <1>2 DEF FlagsInv, ControlInv
<1>4. ~HeaderLost'
  BY <1>1, <1>2, SMTT(30) DEF HeaderLost, SectorFlag
<1>5. SwapInv(o, n)' /\ SwappedInv(o, n)'
  BY <1>1, <1>2, SMTT(30) DEF ImagesInv, SwapInv, SwappedInv
<1>. QED BY <1>1, <1>2, <1>3, <1>4, <1>5, ToSwapped

\* FINAL_FLAGS is set when SWAP has a copy of the staging sector.
LEMMA SetFinalFlagsStep ==
  ASSUME TypeOK, FinalFlagsInv, NEW o \in Acceptable, NEW n \in Acceptable,
         SwapSafeFor(o, n), SetFinalFlags
  PROVE  SwapSafeFor(o, n)'
<1>1. /\ umagic /\ ustate \in {IMG_STATE_NEW, IMG_STATE_UPDATING}
      /\ flag[0] = SECT_FLAG_UPDATED /\ Holds(boot, n)
  BY SwappedFacts DEF SetFinalFlags, FlagsInv, FinalFlagsInv
<1>2. /\ pc = "final_flags" /\ pc' = "erase_boot_trailer"
      /\ ustate' = IMG_STATE_FINAL_FLAGS
      /\ UNCHANGED <<images, umagic, bmagic, bstate, flag, locals>>
  BY <1>1 DEF SetFinalFlags, SetUpdateState, Program
<1>3. bsz = Size[n] /\ (Staging < Size[n] => swap = Whole(n, Staging))
  BY <1>2 DEF ImagesInv, SwappedInv
<1>4. FlagsInv' /\ ControlInv'
  BY <1>1, <1>2 DEF FlagsInv, ControlInv
<1>5. FinalInv(n)'
  BY <1>1, <1>2, <1>3 DEF FinalInv, Holds
<1>. QED BY <1>1, <1>2, <1>4, <1>5, ToFinishing

\* The staging sector is restored exactly when the image spans it.
LEMMA EraseBootTrailerStep ==
  ASSUME TypeOK, FinalFlagsInv, NEW o \in Acceptable, NEW n \in Acceptable,
         SwapSafeFor(o, n), EraseBootTrailer
  PROVE  SwapSafeFor(o, n)'
<1>. USE DEF EraseBootTrailer
<1>1. ustate = IMG_STATE_FINAL_FLAGS /\ flag[0] = SECT_FLAG_UPDATED
  BY SMTT(30) DEF ControlInv, ImagesInv, FinalInv
<1>2. FlagsInv' /\ ControlInv'
  BY <1>1, SMTT(30) DEF FlagsInv, ControlInv
<1>3. FinalInv(n)'
  BY <1>1 DEF ImagesInv, FinalInv, Data
<1>. QED BY <1>1, <1>2, <1>3, ToFinishing, SMTT(30)

\* The staging sector is erased only when the image does not span it.
LEMMA EraseStagingStep ==
  ASSUME TypeOK, FinalFlagsInv, NEW o \in Acceptable, NEW n \in Acceptable,
         SwapSafeFor(o, n), EraseStaging
  PROVE  SwapSafeFor(o, n)'
<1>. USE DEF EraseStaging
<1>1. /\ ustate = IMG_STATE_FINAL_FLAGS /\ flag[0] = SECT_FLAG_UPDATED
      /\ Staging >= Size[n]
  BY SMTT(30) DEF ControlInv, ImagesInv, FinalInv
<1>2. FlagsInv' /\ ControlInv'
  BY <1>1 DEF FlagsInv, ControlInv
<1>3. \A s \in Data : s < Size[n] => boot'[s] = boot[s]
  BY <1>1, SMTT(30) DEF TypeOK, Data
<1>4. FinalInv(n)'
  BY <1>1, <1>3 DEF ImagesInv, FinalInv, Intact, Data
<1>. QED BY <1>1, <1>2, <1>4, ToFinishing, SMTT(30)

\* BOOT is in TESTING before the trailer of UPDATE is erased.
LEMMA MarkTestingStep ==
  ASSUME TypeOK, FinalFlagsInv, NEW o \in Acceptable, NEW n \in Acceptable,
         SwapSafeFor(o, n), MarkTesting
  PROVE  SwapSafeFor(o, n)'
<1>. USE DEF MarkTesting, SetBootState, Program
<1>1. ustate = IMG_STATE_FINAL_FLAGS /\ flag[0] = SECT_FLAG_UPDATED
  BY DEF ControlInv, ImagesInv, FinalInv
<1>2. FlagsInv' /\ ControlInv'
  BY <1>1, SMTT(30) DEF FlagsInv, ControlInv
<1>3. FinalInv(n)'
  BY <1>1 DEF ImagesInv, FinalInv
<1>. QED BY <1>1, <1>2, <1>3, ToFinishing, SMTT(30)

\* Erasing the trailer of UPDATE ends the swap with the new image in BOOT.
LEMMA EraseUpdateTrailerStep ==
  ASSUME TypeOK, FinalFlagsInv, NEW o \in Acceptable, NEW n \in Acceptable,
         SwapSafeFor(o, n), EraseUpdateTrailer
  PROVE  SwapSafeFor(n, n)'
<1>. USE DEF EraseUpdateTrailer, ErasedUpdateTrailer
<1>1. Holds(boot, n)
  BY SMTT(30) DEF ControlInv, ImagesInv, FinalInv, Holds
<1>2. FlagsInv' /\ ControlInv'
  BY DEF FlagsInv, ControlInv
<1>. QED BY <1>1, <1>2, ToQuiet, SMTT(30)

\* The state of BOOT is free once the swap is over.
LEMMA RollbackDoneStep ==
  ASSUME TypeOK, FinalFlagsInv, NEW o \in Acceptable, NEW n \in Acceptable,
         SwapSafeFor(o, n), RollbackDone
  PROVE  SwapSafeFor(o, n)'
<1>. USE DEF RollbackDone, SetBootState
<1>1. /\ Holds(boot, o) /\ ustate # IMG_STATE_FINAL_FLAGS
      /\ flag[0] = SECT_FLAG_NEW \/ HeaderLost
  BY QuietFacts, SMTT(30)
<1>2. FlagsInv' /\ ControlInv'
  BY DEF FlagsInv, ControlInv
<1>3. HeaderLost' = HeaderLost
  BY DEF HeaderLost, SectorFlag, Header
<1>. QED BY <1>1, <1>2, <1>3, ToQuiet
==============================================================================
