---------------------------- MODULE VersionProofs ----------------------------
(***************************************************************************)
(* No confirmed firmware is replaced by an older one: AntiRollback, for    *)
(* every partition size, every set of images and any number of power cuts, *)
(* under the conditions of SwapSafe.                                       *)
(***************************************************************************)
EXTENDS SwapInvariantProofs

USE DEF IMG_STATE_NEW, IMG_STATE_UPDATING, IMG_STATE_FINAL_FLAGS,
        IMG_STATE_TESTING, IMG_STATE_SUCCESS, NoTrailer,
        SECT_FLAG_NEW, SECT_FLAG_SWAPPING, SECT_FLAG_BACKUP, SECT_FLAG_UPDATED,
        images, trailers, flash, locals, ghosts
USE SizeFacts DEF Looping, Swapped, Staged, Restoring, Finishing, SwapJobs

\* What a step may rely on: the invariants proved before.
Known == TypeOK /\ FinalFlagsInv /\ SwapSafe

--------------------------------------------------------------------------------
(* What SwapSafe says about first sectors *)

\* Outside a swap, and when it was lost, BOOT has a header.
LEMMA BootHeader ==
  ASSUME Known,
         flag[0] = SECT_FLAG_NEW \/ pc \in {"verify", "rollback_done"} \cup AppPcs
  PROVE  Header(boot) /\ boot[0].ver \in Versions /\ Version(boot) = boot[0].ver
<1>1. PICK o \in Acceptable, n \in Acceptable : SwapSafeFor(o, n)
  BY DEF Known, SwapSafe
<1>2. Holds(boot, o)
  <2>1. CASE flag[0] = SECT_FLAG_NEW
    BY <1>1, <2>1 DEF SwapSafeFor, ImagesInv, IdleInv
  <2>2. CASE pc \in {"verify", "rollback_done"} \cup AppPcs
    BY <1>1, <2>2, QuietFacts DEF Known, SwapSafeFor
  <2>. QED BY <2>1, <2>2
<1>. QED BY <1>2, HeaderIs DEF Holds, Version

\* While the application runs no swap is in progress, or it was lost.
LEMMA AppQuiet ==
  ASSUME Known, pc \in {"verify", "rollback_done"} \cup AppPcs
  PROVE  /\ ustate # IMG_STATE_FINAL_FLAGS
         /\ flag[0] = SECT_FLAG_NEW \/ HeaderLost
<1>1. PICK o \in Acceptable, n \in Acceptable : SwapSafeFor(o, n)
  BY DEF Known, SwapSafe
<1>. QED BY <1>1, QuietFacts DEF Known, SwapSafeFor

\* The flag of sector 0 in a swap: later sectors, the end of the loop and the
\* final erase follow after it is UPDATED.
LEMMA FirstFlag ==
  ASSUME Known
  PROVE  /\ Looping /\ sector > 0 => flag[0] = SECT_FLAG_UPDATED
         /\ Swapped \/ ustate = IMG_STATE_FINAL_FLAGS =>
              flag[0] = SECT_FLAG_UPDATED
         /\ Looping /\ pc \in {"copy", "copying", "flag"} =>
              /\ job = "update_swap" => flag[sector] = SECT_FLAG_NEW
              /\ job = "boot_update" => flag[sector] = SECT_FLAG_SWAPPING
              /\ job = "swap_boot"   => flag[sector] = SECT_FLAG_BACKUP
         /\ Staged \/ Restoring => sector = Staging
<1>1. PICK o \in Acceptable, n \in Acceptable : SwapSafeFor(o, n)
  BY DEF Known, SwapSafe
<1>. USE DEF SwapSafeFor, ImagesInv
<1>2. Looping /\ sector > 0 => flag[0] = SECT_FLAG_UPDATED
  BY <1>1, SMTT(30) DEF LoopInv
<1>3. Swapped => flag[0] = SECT_FLAG_UPDATED
  BY <1>1, SMTT(30) DEF SwappedInv
<1>4. ustate = IMG_STATE_FINAL_FLAGS => flag[0] = SECT_FLAG_UPDATED
  BY <1>1, SMTT(30) DEF FinalInv
<1>5. Looping /\ pc \in {"copy", "copying", "flag"} =>
        /\ job = "update_swap" => flag[sector] = SECT_FLAG_NEW
        /\ job = "boot_update" => flag[sector] = SECT_FLAG_SWAPPING
        /\ job = "swap_boot"   => flag[sector] = SECT_FLAG_BACKUP
  BY <1>1, SMTT(30) DEF LoopInv
<1>6. Staged \/ Restoring => sector = Staging
  BY <1>1, SMTT(30) DEF SwappedInv, FinalInv, ControlInv
<1>. QED BY <1>2, <1>3, <1>4, <1>5, <1>6, SMTT(30)

\* The trailers and the control state.
LEMMA Control ==
  ASSUME Known
  PROVE  FlagsInv /\ ControlInv
BY DEF Known, SwapSafe, SwapSafeFor

\* A sector being overwritten is of the old image, of the new one, or of none.
LEMMA BetweenNotOlder ==
  ASSUME NEW c \in Content, NEW d \in Content, NotOlder(c), NotOlder(d)
  PROVE  NotOlder(Torn(c)) /\ \A x \in Between(c, d) : NotOlder(x)
<1>1. \A x \in Content : NotOlder(x) => NotOlder(Torn(x))
  BY DEF Torn, NotOlder
<1>2. NotOlder(Blank)
  BY DEF NotOlder
<1>. QED BY <1>1, <1>2, Zenon DEF Between

--------------------------------------------------------------------------------
(* Steps *)

\* A step that writes no image, and after which no more headers count.
LEMMA KeepsVersions ==
  ASSUME VersionSafe, UNCHANGED <<images, top>>,
         UpdateCounts' => UpdateCounts, SwapCounts' => SwapCounts,
         ~bmagic' => bstate' = IMG_STATE_NEW,
         pc' \in {"mark_updating", "update"} /\ fb' => OnTrial',
         pc' \in {"app_erase", "app_write"} /\ OnTrial' => dl' >= top
  PROVE  VersionSafe'
BY SMTT(30) DEF VersionSafe, NotOlder

\* Steps that change nothing but the control state.
LEMMA ControlSteps ==
  ASSUME Known, Known', VersionSafe,
         \/ Start \/ Dispatch \/ VerifyBoot \/ UpdateReject \/ SwapSector
         \/ NextSector \/ SwapDone \/ FinalErase \/ DownloadEnd \/ Reboot
         \/ PowerCut
  PROVE  VersionSafe'
<1>. DEFINE Moves == /\ UNCHANGED <<flash, top>>
                     /\ Looping' => Looping
                     /\ Swapped' => Looping \/ Swapped
                     /\ pc' \notin {"flag", "final_flags", "app_erase", "app_write"}
                     /\ pc' \in {"mark_updating", "update"} => Dispatch
<1>1. ~emerg /\ ~emerg'
  BY Zenon DEF Known, SwapSafe, SwapSafeFor, ControlInv
<1>2. ASSUME Start \/ Dispatch PROVE Moves
  <2>1. UNCHANGED <<flash, top>>
    BY <1>2, Zenon DEF Start, Dispatch
  <2>2. pc' \in {"dispatch", "erase_boot_trailer", "mark_updating", "update", "verify"}
    BY <1>2, Zenon DEF Start, Dispatch
  <2>3. pc' \in {"mark_updating", "update"} => Dispatch
    BY <1>2 DEF Start
  <2>. QED BY <2>1, <2>2, <2>3, SMTT(30)
<1>3. ASSUME VerifyBoot \/ UpdateReject PROVE Moves
  <2>1. UNCHANGED <<flash, top>>
    BY <1>3, Zenon DEF VerifyBoot, UpdateReject
  <2>2. pc' \in {"running", "panic", "verify"}
    BY <1>1, <1>3, Zenon DEF VerifyBoot, UpdateReject, UpdateFailed
  <2>. QED BY <2>1, <2>2, SMTT(30)
<1>4. ASSUME DownloadEnd \/ Reboot \/ PowerCut PROVE Moves
  <2>1. UNCHANGED <<flash, top>>
    BY <1>4, Zenon DEF DownloadEnd, Reboot, PowerCut, Restart
  <2>2. pc' \in {"running", "start"}
    BY <1>4, Zenon DEF DownloadEnd, Reboot, PowerCut, Restart
  <2>. QED BY <2>1, <2>2, SMTT(30)
<1>5. ASSUME SwapSector \/ NextSector \/ SwapDone PROVE Moves
  <2>1. UNCHANGED <<flash, top>>
    BY <1>5, Zenon DEF SwapSector, NextSector, SwapDone
  <2>2. pc = "swap" /\ pc' \in {"copy", "swap", "remainder"}
    BY <1>5, Zenon DEF SwapSector, NextSector, SwapDone
  <2>. QED BY <2>1, <2>2, SMTT(30)
<1>6. ASSUME FinalErase PROVE Moves
  <2>1. /\ UNCHANGED <<flash, top>> /\ pc = "remainder" /\ job' = "stage"
        /\ pc' \in {"erase_boot_trailer", "copy"}
    BY <1>6, Zenon DEF FinalErase
  <2>. QED BY <2>1, SMTT(30)
<1>7. Moves
  BY <1>2, <1>3, <1>4, <1>5, <1>6, Zenon
<1>8. HeaderLost' = HeaderLost /\ OnTrial' = OnTrial
  BY <1>7, Zenon DEF HeaderLost, SectorFlag, Header, OnTrial
<1>9. UpdateCounts' => UpdateCounts
  BY <1>7, <1>8 DEF UpdateCounts
<1>10. SwapCounts' => SwapCounts
  BY <1>7, <1>8, SMTT(30) DEF SwapCounts
<1>11. pc' \in {"mark_updating", "update"} /\ fb' => OnTrial'
  BY <1>1, <1>7, <1>8, Control, Zenon DEF Dispatch, ControlInv, OnTrial
<1>. QED BY <1>7, <1>9, <1>10, <1>11, KeepsVersions, SMTT(30) DEF VersionSafe

\* The beginning of a swap: wolfBoot_update has compared the versions, or falls
\* back from an image on trial, or resumes.
LEMMA UpdateBeginVersions ==
  ASSUME Known, VersionSafe, UpdateBegin
  PROVE  VersionSafe'
<1>1. /\ UNCHANGED <<flash, top, fb, dl>> /\ pc = "update" /\ pc' = "swap"
      /\ Header(upd)
      /\ SectorFlag(0) = SECT_FLAG_NEW => fb \/ Version(upd) > Version(boot)
  BY DEF UpdateBegin, UpdateAllowed
<1>2. SectorFlag(0) = flag[0]
  BY FlagIs, Control
<1>3. NotOlder(upd[0])
  <2>1. CASE flag[0] = SECT_FLAG_NEW /\ ~fb
    <3>1. upd[0] \in Content /\ upd[0] # Blank
      BY <1>1 DEF Header, Known, TypeOK
    <3>2. upd[0].ver \in Nat
      BY <3>1, ConstantsAssumption, Zenon DEF Content
    <3>3. Version(upd) = upd[0].ver
      BY <1>1 DEF Version
    <3>4. boot[0].ver \in Nat /\ Version(boot) = boot[0].ver /\ boot[0] # Blank
      BY <2>1, BootHeader, ConstantsAssumption, Zenon DEF Header
    <3>5. top \in Nat
      BY ConstantsAssumption, SMTT(30) DEF Known, TypeOK
    <3>. QED BY <1>1, <1>2, <2>1, <3>2, <3>3, <3>4, <3>5, SMTT(30)
      DEF VersionSafe, NotOlder
  <2>2. CASE flag[0] = SECT_FLAG_NEW /\ fb
    BY <1>1, <2>2 DEF VersionSafe, UpdateCounts
  <2>3. CASE flag[0] # SECT_FLAG_NEW
    BY <1>1, <2>3 DEF VersionSafe, UpdateCounts, HeaderLost
  <2>. QED BY <2>1, <2>2, <2>3
<1>4. SwapCounts' => SwapCounts
  BY <1>1, SMTT(30) DEF SwapCounts, HeaderLost
<1>. QED BY <1>1, <1>3, <1>4 DEF VersionSafe, NotOlder, OnTrial

\* A copy writes what its source holds, and the first sector of an image goes
\* from UPDATE to SWAP, from BOOT to UPDATE and from SWAP to BOOT.
LEMMA CopyVersions ==
  ASSUME Known, VersionSafe, CopyBegin \/ CopyEnd
  PROVE  VersionSafe'
<1>1. PICK c : /\ SetDestination(c)
               /\ NotOlder(Destination) /\ NotOlder(Copied) => NotOlder(c)
               /\ c = Copied \/ pc' = "copying"
  <2>1. CASE CopyBegin
    <3>1. Copied \in Content /\ Destination \in Content
      BY <2>1, CopyType, SMTT(30) DEF CopyBegin, Known, TypeOK
    <3>2. PICK c \in Between(Destination, Copied) : SetDestination(c)
      BY <2>1, Zenon DEF CopyBegin
    <3>3. pc' = "copying"
      BY <2>1 DEF CopyBegin
    <3>. QED BY <3>1, <3>2, <3>3, BetweenNotOlder, Zenon
  <2>2. CASE CopyEnd
    BY <2>2, Zenon DEF CopyEnd
  <2>. QED BY <2>1, <2>2
<1>2. /\ UNCHANGED <<trailers, locals, top>> /\ pc \in {"copy", "copying"}
      /\ pc' = "copying" \/ pc' = AfterCopy
      /\ sector \in Data
      /\ job \in {"update_swap", "boot_update", "swap_boot", "stage", "restore"}
  BY DEF CopyBegin, CopyEnd, Known, TypeOK, Jobs
<1>3. NotOlder(Blank) /\ (\A x : NotOlder(x)' <=> NotOlder(x))
  BY <1>2 DEF NotOlder
<1>4. /\ OnTrial' = OnTrial
      /\ pc' \notin {"mark_updating", "update", "app_erase", "app_write"}
  BY <1>2 DEF OnTrial, AfterCopy
<1>5. job # "restore" => ustate # IMG_STATE_FINAL_FLAGS
  BY <1>2 DEF Known, FinalFlagsInv
<1>6. SUFFICES /\ NotOlder(boot'[0])
               /\ UpdateCounts' => NotOlder(upd'[0])
               /\ SwapCounts' => NotOlder(swap')
  BY <1>2, <1>3, <1>4, Zenon DEF VersionSafe
<1>7. NotOlder(boot[0])
  BY DEF VersionSafe
<1>8. CASE job = "update_swap"
  <2>1. UNCHANGED <<boot, upd>> /\ swap' = c /\ Copied \in {upd[sector], Blank}
    BY <1>1, <1>8 DEF SetDestination, Copied
  <2>2. NotOlder(upd[0])
    BY <1>2, <1>8 DEF VersionSafe, UpdateCounts
  <2>3. flag[0] \in {SECT_FLAG_NEW, SECT_FLAG_UPDATED}
    BY <1>2, <1>8, FirstFlag DEF Data
  <2>4. SwapCounts' => pc' = "flag" /\ sector = 0
    BY <1>2, <1>5, <1>8, <2>3, SMTT(30) DEF SwapCounts, AfterCopy
  <2>. QED BY <1>1, <1>3, <1>7, <2>1, <2>2, <2>4
<1>9. CASE job = "boot_update"
  <2>1. /\ UNCHANGED <<boot, swap>>
        /\ upd'[0] = IF sector = 0 THEN c ELSE upd[0]
        /\ Copied \in {boot[sector], Blank} /\ Destination = upd[sector]
    BY <1>1, <1>2, <1>9, SMTT(30)
      DEF SetDestination, Copied, Destination, Known, TypeOK
  <2>2. NotOlder(upd[0])
    BY <1>2, <1>9, SMTT(30) DEF VersionSafe, UpdateCounts
  <2>3. NotOlder(upd'[0])
    BY <1>1, <1>3, <1>7, <2>1, <2>2
  <2>4. sector = 0 => flag[0] = SECT_FLAG_SWAPPING
    BY <1>2, <1>9, FirstFlag
  <2>5. SwapCounts' => SwapCounts
    BY <1>2, <1>5, <1>9, <2>4, SMTT(30) DEF SwapCounts, AfterCopy
  <2>. QED BY <1>7, <2>1, <2>3, <2>5, SMTT(30) DEF VersionSafe
<1>10. CASE job = "swap_boot"
  <2>1. /\ UNCHANGED <<upd, swap>>
        /\ boot'[0] = IF sector = 0 THEN c ELSE boot[0]
        /\ Copied = swap /\ Destination = boot[sector]
    BY <1>1, <1>2, <1>10, SMTT(30)
      DEF SetDestination, Copied, Destination, Known, TypeOK
  <2>2. NotOlder(upd[0])
    BY <1>2, <1>10 DEF VersionSafe, UpdateCounts
  <2>3. sector = 0 => flag[0] = SECT_FLAG_BACKUP
    BY <1>2, <1>10, FirstFlag
  <2>4. sector = 0 => NotOlder(swap)
    BY <1>2, <1>10, <2>3 DEF VersionSafe, SwapCounts
  <2>5. SwapCounts' => SwapCounts
    BY <1>2, <1>5, <1>10, <2>3, SMTT(30) DEF SwapCounts, AfterCopy
  <2>. QED BY <1>1, <1>7, <2>1, <2>2, <2>4, <2>5, SMTT(30) DEF VersionSafe
<1>11. CASE job = "stage"
  <2>1. UNCHANGED <<boot, upd>> /\ swap' = c /\ Copied \in {boot[sector], Blank}
    BY <1>1, <1>11, SMTT(30) DEF SetDestination, Copied
  <2>2. NotOlder(upd[0])
    BY <1>2, <1>11 DEF VersionSafe, UpdateCounts
  <2>3. flag[0] = SECT_FLAG_UPDATED /\ sector = Staging
    BY <1>2, <1>11, FirstFlag
  <2>4. SwapCounts' => pc' = "final_flags" /\ sector = 0
    BY <1>2, <1>5, <1>11, <2>3, SMTT(30) DEF SwapCounts, AfterCopy
  <2>. QED BY <1>1, <1>3, <1>7, <2>1, <2>2, <2>4, SMTT(30)
<1>12. CASE job = "restore"
  <2>1. /\ UNCHANGED <<upd, swap>>
        /\ boot'[0] = IF sector = 0 THEN c ELSE boot[0]
        /\ Copied = swap /\ Destination = boot[sector]
    BY <1>1, <1>2, <1>12, SMTT(30)
      DEF SetDestination, Copied, Destination, Known, TypeOK
  <2>2. ustate = IMG_STATE_FINAL_FLAGS
    BY <1>2, <1>12, Control DEF ControlInv
  <2>3. flag[0] = SECT_FLAG_UPDATED /\ sector = Staging
    BY <1>2, <1>12, <2>2, FirstFlag
  <2>4. NotOlder(upd[0]) /\ (sector = 0 => NotOlder(swap))
    BY <2>2, <2>3 DEF VersionSafe, UpdateCounts, SwapCounts
  <2>5. SwapCounts' => SwapCounts
    BY <1>2, <1>12, <2>3 DEF SwapCounts, AfterCopy
  <2>. QED BY <1>1, <1>7, <2>1, <2>4, <2>5, SMTT(30) DEF VersionSafe
<1>. QED BY <1>2, <1>8, <1>9, <1>10, <1>11, <1>12, SMTT(30)

\* The flag of a sector is set after the copy it records.
LEMMA SetSectorFlagVersions ==
  ASSUME Known, VersionSafe, SetSectorFlag
  PROVE  VersionSafe'
<1>1. /\ UNCHANGED <<images, top, bmagic, bstate, ustate, locals>>
      /\ pc = "flag" /\ pc' \in {"flag", "swap"} /\ job \in SwapJobs
      /\ sector # 0 => flag'[0] = flag[0]
  BY DEF SetSectorFlag, Known, TypeOK
<1>2. UpdateCounts
  BY <1>1 DEF UpdateCounts
<1>3. SwapCounts' => SwapCounts
  BY <1>1 DEF SwapCounts
<1>. QED BY <1>1, <1>2, <1>3, KeepsVersions DEF VersionSafe

\* The trailers change from the end of the loop to the end of the final erase.
LEMMA FinalVersions ==
  ASSUME Known, VersionSafe,
         SetFinalFlags \/ EraseBootTrailer \/ MarkTesting \/ EraseUpdateTrailer
  PROVE  VersionSafe'
<1>1. /\ UNCHANGED <<images, top>>
      /\ pc' \in {"final_flags", "erase_boot_trailer", "copy", "erase_staging",
                  "testing", "erase_update_trailer", "dispatch",
                  "rollback_done", "verify"}
      /\ pc' = "copy" => job' = "restore"
  BY DEF SetFinalFlags, EraseBootTrailer, MarkTesting, EraseUpdateTrailer,
         SetUpdateState, SetBootState
<1>2. pc = "final_flags" \/ ustate = IMG_STATE_FINAL_FLAGS
  BY Control DEF SetFinalFlags, EraseBootTrailer, MarkTesting,
     EraseUpdateTrailer, ControlInv
<1>3. UpdateCounts
  BY <1>2 DEF UpdateCounts
<1>4. flag[0] = SECT_FLAG_UPDATED
  BY <1>2, FirstFlag, SMTT(30)
<1>5. flag'[0] \in {SECT_FLAG_UPDATED, SECT_FLAG_NEW}
  BY <1>4 DEF SetFinalFlags, EraseBootTrailer, MarkTesting, EraseUpdateTrailer,
     SetUpdateState, SetBootState, ErasedUpdateTrailer
<1>6. SwapCounts' => SwapCounts
  BY <1>1, <1>2, <1>5, SMTT(30) DEF SwapCounts
<1>7. ~bmagic' => bstate' = IMG_STATE_NEW
  BY SMTT(30) DEF SetFinalFlags, EraseBootTrailer, MarkTesting, EraseUpdateTrailer,
     SetUpdateState, SetBootState, ErasedUpdateTrailer, VersionSafe
<1>. QED BY <1>1, <1>3, <1>6, <1>7, KeepsVersions, SMTT(30)

\* Erasing brings no image back.
LEMMA EraseVersions ==
  ASSUME Known, VersionSafe, EraseRemainder \/ EraseStaging
  PROVE  VersionSafe'
<1>1. /\ UNCHANGED <<swap, trailers, top>>
      /\ pc \in {"remainder", "remainder_update", "erase_staging"}
      /\ pc' \in {"remainder", "remainder_update", "testing"}
      /\ boot'[0] \in {boot[0], Blank} /\ upd'[0] \in {upd[0], Blank}
  BY SMTT(30) DEF EraseRemainder, EraseStaging, Known, TypeOK
<1>2. Swapped \/ ustate = IMG_STATE_FINAL_FLAGS
  BY <1>1, Control DEF ControlInv
<1>3. UpdateCounts
  BY <1>2 DEF UpdateCounts
<1>4. flag[0] = SECT_FLAG_UPDATED
  BY <1>2, FirstFlag
<1>5. SwapCounts' => SwapCounts
  BY <1>1, <1>4 DEF SwapCounts
<1>. QED BY <1>1, <1>3, <1>5, SMTT(30) DEF VersionSafe, NotOlder, OnTrial

\* Marking UPDATE for a fall back, and the state of an image that was rolled
\* back to.
LEMMA MarkVersions ==
  ASSUME Known, VersionSafe, MarkUpdating \/ RollbackDone \/ TriggerState
  PROVE  VersionSafe'
<1>1. /\ UNCHANGED <<images, top, flag, locals>>
      /\ pc \in {"mark_updating", "rollback_done", "trigger"}
      /\ pc' \in {"mark_updating", "update", "rollback_done", "verify",
                  "trigger", "running"}
      /\ pc' \in {"mark_updating", "update"} =>
           pc = "mark_updating" /\ UNCHANGED <<bmagic, bstate>>
  BY SMTT(30)
    DEF MarkUpdating, RollbackDone, TriggerState, SetUpdateState, SetBootState
<1>2. HeaderLost' = HeaderLost
  BY <1>1, Control DEF MarkUpdating, RollbackDone, TriggerState, SetUpdateState,
     SetBootState, HeaderLost, SectorFlag, Header, FlagsInv
<1>3. ustate # IMG_STATE_FINAL_FLAGS /\ ustate' # IMG_STATE_FINAL_FLAGS
  BY <1>1 DEF MarkUpdating, RollbackDone, TriggerState, SetUpdateState,
     SetBootState, Program, Known, FinalFlagsInv
<1>4. OnTrial' => OnTrial
  <2>1. CASE MarkUpdating \/ TriggerState
    BY <2>1, Zenon DEF MarkUpdating, TriggerState, SetUpdateState, OnTrial
  <2>2. CASE RollbackDone
    <3>1. CASE bmagic
      BY <2>2, <3>1, SMTT(30)
        DEF RollbackDone, SetBootState, Program, OnTrial, Known,
         TypeOK, ImgStates
    <3>2. CASE ~bmagic
      BY <2>2, <3>2, SMTT(30) DEF RollbackDone, SetBootState, OnTrial, VersionSafe
    <3>. QED BY <3>1, <3>2
  <2>. QED BY <2>1, <2>2
<1>5. ~bmagic' => bstate' = IMG_STATE_NEW
  BY DEF MarkUpdating, RollbackDone, TriggerState, SetUpdateState,
     SetBootState, VersionSafe
<1>6. UpdateCounts' => UpdateCounts
  BY <1>1, <1>2, <1>3, <1>4 DEF UpdateCounts
<1>7. SwapCounts' => SwapCounts
  BY <1>1, <1>2, <1>3 DEF SwapCounts
<1>8. pc' \in {"mark_updating", "update"} /\ fb' => OnTrial'
  BY <1>1, SMTT(30) DEF VersionSafe, OnTrial
<1>. QED BY <1>1, <1>5, <1>6, <1>7, <1>8, KeepsVersions, SMTT(30)

\* Erasing the trailer of UPDATE, by wolfBoot_update_trigger or before a
\* download.
LEMMA TrailerErasedVersions ==
  ASSUME Known, VersionSafe, Trigger \/ AppEraseTrailer
  PROVE  VersionSafe'
<1>1. /\ UNCHANGED <<images, top, bmagic, bstate, dl>>
      /\ flag'[0] = SECT_FLAG_NEW /\ ustate' = IMG_STATE_NEW
      /\ pc' = "trigger" \/ (pc = "app_erase" /\ pc' = "app_write")
  BY DEF Trigger, AppEraseTrailer, ErasedUpdateTrailer
<1>2. UpdateCounts' => UpdateCounts
  BY <1>1 DEF UpdateCounts, OnTrial
<1>3. ~SwapCounts'
  BY <1>1, SMTT(30) DEF SwapCounts
<1>. QED BY <1>1, <1>2, <1>3, KeepsVersions, SMTT(30) DEF VersionSafe, OnTrial

\* wolfBoot_success raises the bar to the image that runs, and UPDATE no longer
\* counts.
LEMMA SuccessVersions ==
  ASSUME Known, VersionSafe, Success
  PROVE  VersionSafe'
<1>1. /\ pc = "running" /\ pc' = "running"
      /\ UNCHANGED <<images, umagic, ustate, flag>>
      /\ bmagic' /\ (bmagic => bstate' = IMG_STATE_SUCCESS)
      /\ ~bmagic => bstate' = IMG_STATE_NEW
  BY DEF Success, SetBootState, Program, VersionSafe, Known, TypeOK, ImgStates
<1>2. Header(boot) /\ boot[0].ver \in Nat /\ Version(boot) = boot[0].ver
  <2>1. pc \in AppPcs
    BY <1>1, SMTT(30) DEF AppPcs
  <2>. QED BY <2>1, BootHeader, ConstantsAssumption, Zenon
<1>3. top \in Nat
  BY ConstantsAssumption DEF Known, TypeOK
<1>4. NotOlder(boot[0])'
  <2>1. top' \in {top, Version(boot)}
    BY Zenon DEF Success
  <2>2. boot[0].ver >= top
    BY <1>2, Zenon DEF VersionSafe, NotOlder, Header
  <2>. QED BY <1>1, <1>2, <1>3, <2>1, <2>2 DEF NotOlder
<1>5. ustate # IMG_STATE_FINAL_FLAGS /\ (flag[0] = SECT_FLAG_NEW \/ HeaderLost)
  BY <1>1, AppQuiet DEF AppPcs
<1>6. HeaderLost' = HeaderLost
  BY <1>1, Zenon DEF HeaderLost, SectorFlag, Header
<1>7. ~UpdateCounts' /\ ~SwapCounts'
  BY <1>1, <1>5, <1>6 DEF UpdateCounts, SwapCounts, OnTrial
<1>. QED BY <1>1, <1>4, <1>7, Zenon DEF VersionSafe

\* An image on trial that downloads an older image lowers the bar to it.
LEMMA DownloadVersions ==
  ASSUME Known, VersionSafe, Download
  PROVE  VersionSafe'
<1>1. PICK v \in Versions :
        /\ dl' = v
        /\ top' = IF BootState = IMG_STATE_TESTING /\ v < top THEN v ELSE top
  BY DEF Download
<1>2. UNCHANGED flash /\ pc = "running" /\ pc' \in {"app_erase", "app_write"}
  BY DEF Download
<1>3. top \in Nat /\ v \in Nat /\ top' \in Nat
  BY <1>1, ConstantsAssumption DEF Known, TypeOK
<1>4. top' <= top
  BY <1>1, <1>3
<1>5. boot[0] \in Content /\ upd[0] \in Content /\ swap \in Content
  BY DEF Known, TypeOK
<1>6. \A c \in Content : NotOlder(c) => (c # Blank => c.ver >= top')
  <2>. SUFFICES ASSUME NEW c \in Content, NotOlder(c), c # Blank
                PROVE  c.ver >= top'
    OBVIOUS
  <2>1. c.ver \in Nat
    BY ConstantsAssumption, Zenon DEF Content
  <2>. QED BY <1>3, <1>4, <2>1 DEF NotOlder
<1>7. HeaderLost' = HeaderLost /\ OnTrial' = OnTrial
  BY <1>2, Zenon DEF HeaderLost, SectorFlag, Header, OnTrial
<1>8. UpdateCounts' => UpdateCounts
  BY <1>2, <1>7 DEF UpdateCounts
<1>9. SwapCounts' => SwapCounts
  BY <1>2, <1>7 DEF SwapCounts
<1>10. OnTrial' => dl' >= top'
  BY <1>1, <1>2, <1>3 DEF OnTrial, BootState
<1>11. NotOlder(boot[0])' /\ (UpdateCounts' => NotOlder(upd[0])')
        /\ (SwapCounts' => NotOlder(swap)')
  BY <1>2, <1>5, <1>6, <1>8, <1>9, SMTT(30) DEF VersionSafe, NotOlder
<1>. QED BY <1>2, <1>10, <1>11 DEF VersionSafe

\* The download of an image on trial is not older than the bar; that of another
\* one does not count.
LEMMA AppVersions ==
  ASSUME Known, VersionSafe, AppErase \/ AppWrite
  PROVE  VersionSafe'
<1>0. upd \in [Data -> Content] /\ dl \in Versions
  BY Zenon DEF Known, TypeOK
<1>1. /\ UNCHANGED <<boot, swap, trailers, top, pc, fb, dl>>
      /\ pc \in {"app_erase", "app_write"}
  BY DEF AppErase, AppWrite
<1>2. upd[0] \in Content /\ NotOlder(Blank)
  BY <1>0 DEF NotOlder
<1>3. ~Header(upd) /\ pc = "app_erase" => ~Header(upd)'
  BY DEF AppErase, AppWrite, Header, Torn, Known, TypeOK
<1>4. ustate # IMG_STATE_FINAL_FLAGS /\ (flag[0] = SECT_FLAG_NEW \/ HeaderLost)
  BY <1>1, AppQuiet DEF AppPcs
<1>5. pc = "app_write" => flag[0] = SECT_FLAG_NEW
  BY Control DEF ControlInv
<1>6. flag'[0] = SECT_FLAG_NEW \/ HeaderLost'
  BY <1>1, <1>3, <1>4, <1>5 DEF HeaderLost, SectorFlag
<1>7. ~SwapCounts' /\ (UpdateCounts' => OnTrial)
  BY <1>1, <1>4, <1>6 DEF SwapCounts, UpdateCounts, OnTrial
<1>8. OnTrial => NotOlder(upd'[0])
  <2>. SUFFICES ASSUME OnTrial PROVE NotOlder(upd'[0])
    OBVIOUS
  <2>1. NotOlder(upd[0]) /\ dl >= top
    BY <1>1, SMTT(30) DEF VersionSafe, UpdateCounts
  <2>2. NotOlder(Whole(dl, 0)) /\ Whole(dl, 0) \in Content
    BY <1>0, <2>1, WholeFacts, SMTT(30) DEF NotOlder, Whole, Content
  <2>3. CASE AppErase
    <3>1. upd'[0] \in {upd[0], Torn(upd[0]), Blank}
      BY <1>0, <2>3, SMTT(30) DEF AppErase
    <3>. QED BY <1>2, <2>1, <3>1, BetweenNotOlder, Zenon
  <2>4. CASE AppWrite
    <3>1. upd'[0] \in {upd[0], Whole(dl, 0)} \cup Between(upd[0], Whole(dl, 0))
      BY <1>0, <2>4, SMTT(30) DEF AppWrite
    <3>. QED BY <2>1, <2>2, <3>1, <1>2, BetweenNotOlder, Zenon
  <2>. QED BY <2>3, <2>4
<1>. QED BY <1>1, <1>7, <1>8, SMTT(30) DEF VersionSafe, NotOlder, OnTrial

--------------------------------------------------------------------------------
\* As long as no copy fails and downloads erase UPDATE first, every header that
\* may still become that of BOOT is of an image not older than a confirmed one
\* (VersionSafe), at every flash operation and after every power cut.
THEOREM VersionSafeInductive ==
  ASSUME MaxErrors = 0, EraseFirst = TRUE
  PROVE  Spec => []VersionSafe
<1>1. Init => VersionSafe
  <2>. SUFFICES ASSUME Init PROVE VersionSafe
    OBVIOUS
  <2>1. PICK v \in Acceptable :
           /\ boot = [s \in Data |-> IF s < Size[v] THEN Whole(v, s) ELSE Blank]
           /\ top = v
    BY DEF Init
  <2>2. NotOlder(boot[0])
    BY <2>1, WholeFacts, ConstantsAssumption DEF NotOlder
  <2>3. ~UpdateCounts /\ ~SwapCounts
    BY DEF Init, UpdateCounts, SwapCounts, OnTrial
  <2>. QED BY <2>2, <2>3 DEF Init, VersionSafe
<1>2. Known /\ Known' /\ VersionSafe /\ [Next]_vars => VersionSafe'
  <2>. SUFFICES ASSUME Known, Known', VersionSafe, [Next]_vars
                PROVE  VersionSafe'
    BY SMTT(30)
  <2>1. ~CopyFail
    BY SMTT(30) DEF CopyFail, Known, TypeOK
  <2>2. CASE UNCHANGED vars
    <3>1. UNCHANGED <<flash, pc, locals, ghosts>>
      BY <2>2 DEF vars
    <3>2. HeaderLost' = HeaderLost /\ OnTrial' = OnTrial
      BY <3>1, Zenon DEF HeaderLost, SectorFlag, Header, OnTrial
    <3>3. UpdateCounts' => UpdateCounts
      BY <3>1, <3>2 DEF UpdateCounts
    <3>4. SwapCounts' => SwapCounts
      BY <3>1, <3>2 DEF SwapCounts
    <3>. QED BY <3>1, <3>2, <3>3, <3>4, KeepsVersions, Zenon DEF VersionSafe
  <2>3. CASE Next
    BY <2>1, <2>3, ControlSteps, UpdateBeginVersions, CopyVersions,
       SetSectorFlagVersions, FinalVersions, EraseVersions, MarkVersions,
       TrailerErasedVersions, SuccessVersions, DownloadVersions, AppVersions,
       Zenon DEF Next, Bootloader, Application
  <2>. QED BY <2>2, <2>3
<1>3. Spec => []Known
  BY TypeCorrect, FinalFlagsInductive, SwapSafeInductive, PTL DEF Known
<1>. QED BY <1>1, <1>2, <1>3, PTL DEF Spec

\* Under the same conditions an application that runs is at least as new as
\* every image that was ever confirmed, or as an older one that an image on
\* trial has downloaded since (AntiRollback).
THEOREM AntiRollbackSafe ==
  ASSUME MaxErrors = 0, EraseFirst = TRUE
  PROVE  Spec => []AntiRollback
<1>1. Known /\ VersionSafe => AntiRollback
  <2>. SUFFICES ASSUME Known, VersionSafe, pc = "running"
                PROVE  Version(boot) >= top
    BY DEF AntiRollback
  <2>. QED BY BootHeader DEF VersionSafe, NotOlder, Header, AppPcs
<1>2. Spec => []Known
  BY TypeCorrect, FinalFlagsInductive, SwapSafeInductive, PTL DEF Known
<1>. QED BY <1>1, <1>2, VersionSafeInductive, PTL
==============================================================================
