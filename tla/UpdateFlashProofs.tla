-------------------------- MODULE UpdateFlashProofs --------------------------
(***************************************************************************)
(* What is proved of UpdateFlash, for every partition size, every set of   *)
(* images and every number of power cuts and flash errors.                 *)
(***************************************************************************)
EXTENDS UpdateFlash, TLAPS

USE DEF IMG_STATE_NEW, IMG_STATE_UPDATING, IMG_STATE_FINAL_FLAGS,
        IMG_STATE_TESTING, IMG_STATE_SUCCESS, NoTrailer,
        SECT_FLAG_NEW, SECT_FLAG_SWAPPING, SECT_FLAG_BACKUP, SECT_FLAG_UPDATED

\* Programming flash never leaves the set of trailer values.
LEMMA ProgramType ==
  /\ \A a, b \in ImgStates : Program(a, b) \in ImgStates
  /\ \A a, b \in SectFlags : Program(a, b) \in SectFlags
BY DEF Program, ImgStates, SectFlags

\* A torn sector, and whatever an interrupted copy leaves, is sector content.
LEMMA BetweenType ==
  ASSUME NEW c \in Content, NEW d \in Content
  PROVE  /\ Torn(c) \in Content
         /\ Between(c, d) \subseteq Content
<1>1. \A x \in Content : Torn(x) \in Content
  BY ConstantsAssumption DEF Torn, Content
<1>2. Blank \in Content
  BY DEF Content
<1>. QED BY <1>1, <1>2 DEF Between

\* The size of an image, or of the header alone, fits in a partition.
LEMMA SectorsType ==
  ASSUME NEW p \in [Data -> Content]
  PROVE  Sectors(p) \in 1 .. N - 1
<1>1. 0 \in Data
  BY ConstantsAssumption DEF Data
<1>2. p[0] \in Content
  BY <1>1
<1>3. CASE Header(p)
  <2>1. p[0].ver \in Versions
    BY <1>2, <1>3 DEF Header, Content
  <2>. QED BY <2>1, <1>3, ConstantsAssumption, Zenon DEF Sectors
<1>4. CASE ~Header(p)
  BY <1>4, ConstantsAssumption DEF Sectors
<1>. QED BY <1>3, <1>4

\* What a copy reads is sector content.
LEMMA CopyType ==
  ASSUME TypeOK, sector \in Data
  PROVE  Copied \in Content /\ Destination \in Content
<1>1. Blank \in Content
  BY DEF Content
<1>2. boot[sector] \in Content /\ upd[sector] \in Content /\ swap \in Content
  BY DEF TypeOK
<1>3. job \in {"update_swap", "boot_update", "swap_boot", "stage", "restore"}
  BY DEF TypeOK, Jobs, SwapJobs
<1>. QED BY <1>1, <1>2, <1>3 DEF Copied, Destination

\* Writing sector content anywhere keeps the partitions well formed.
LEMMA SetDestinationType ==
  ASSUME TypeOK, NEW c \in Content, SetDestination(c)
  PROVE  /\ boot' \in [Data -> Content]
         /\ upd' \in [Data -> Content]
         /\ swap' \in Content
BY Zenon DEF TypeOK, SetDestination

\* The Boolean variables.
Switches ==
  /\ bmagic \in BOOLEAN /\ umagic \in BOOLEAN
  /\ fb \in BOOLEAN /\ emerg \in BOOLEAN /\ rollback \in BOOLEAN
  /\ resume \in BOOLEAN /\ ran \in BOOLEAN

USE DEF images, trailers, flash, locals, ghosts

\* Every variable stays in its range (TypeOK), for every value of the constants.
THEOREM TypeCorrect == Spec => []TypeOK
<1>1. Init => TypeOK
  <2>. SUFFICES ASSUME Init PROVE TypeOK
    OBVIOUS
  <2>1. PICK v \in Acceptable :
           /\ boot = [s \in Data |-> IF s < Size[v] THEN Whole(v, s) ELSE Blank]
           /\ top = v
           /\ dl = v
    BY DEF Init
  <2>2. v \in Versions
    BY ConstantsAssumption
  <2>3. \A s \in Data : Whole(v, s) \in Content
    BY <2>2 DEF Whole, Content
  <2>4. Blank \in Content
    BY DEF Content
  <2>5. boot \in [Data -> Content]
    BY <2>1, <2>3, <2>4
  <2>6. upd \in [Data -> Content] /\ swap \in Content
    BY <2>4 DEF Init
  <2>7. Switches
    BY Zenon DEF Init, Switches
  <2>. QED BY <2>1, <2>2, <2>5, <2>6, <2>7, ConstantsAssumption
       DEF Init, Switches, TypeOK, ImgStates, SectFlags, BootPcs, AppPcs, Jobs,
           SwapJobs
<1>2. TypeOK /\ [Next]_vars => TypeOK'
  <2>. SUFFICES ASSUME TypeOK, [Next]_vars PROVE TypeOK'
    OBVIOUS
  <2>. USE DEF BootPcs, AppPcs
  <2>0. Switches
    BY Zenon DEF TypeOK, Switches
  <2>1. CASE CopyBegin
    <3>1. PICK c \in Between(Destination, Copied) : SetDestination(c)
      BY <2>1 DEF CopyBegin
    <3>2. c \in Content
      BY <2>1, <3>1, CopyType, BetweenType, Zenon DEF CopyBegin, TypeOK
    <3>. QED BY <2>1, <3>1, <3>2, SetDestinationType DEF CopyBegin, TypeOK
  <2>2. CASE CopyEnd
    <3>1. Copied \in Content
      BY <2>2, CopyType DEF CopyEnd, TypeOK
    <3>2. AfterCopy \in {"flag", "final_flags", "testing"}
             /\ (AfterCopy = "flag" => job \in SwapJobs)
      BY DEF AfterCopy, TypeOK, Jobs, SwapJobs
    <3>. QED BY <2>2, <3>1, <3>2, SetDestinationType DEF CopyEnd, TypeOK
  <2>3. CASE CopyFail
    BY <2>3, ConstantsAssumption
       DEF CopyFail, TypeOK, AfterCopy, UpdateFailed, Jobs, SwapJobs
  <2>4. CASE Start
    BY <2>4, SectorsType DEF Start, TypeOK, BootState, UpdateState
  <2>5. CASE Dispatch
    BY <2>5, SMTT(30) DEF Dispatch, TypeOK
  <2>6. CASE MarkUpdating
    <3>1. Switches'
      BY <2>0, <2>6, ZenonT(30) DEF MarkUpdating, SetUpdateState, Switches
    <3>. QED BY <2>6, <3>1, ProgramType
         DEF Switches, MarkUpdating, SetUpdateState, TypeOK, ImgStates
  <2>7. CASE VerifyBoot
    <3>1. Switches'
      BY <2>0, <2>7, Zenon DEF VerifyBoot, Switches
    <3>. QED BY <2>7, <3>1
         DEF Switches, VerifyBoot, TypeOK
  <2>8. CASE UpdateReject
    BY <2>8 DEF UpdateReject, UpdateFailed, TypeOK
  <2>9. CASE UpdateBegin
    BY <2>9, SectorsType, ConstantsAssumption DEF UpdateBegin, TypeOK
  <2>10. CASE SwapSector
    <3>1. sector \in Data
      <4>1. sector < TotalSize
        BY <2>10, Zenon DEF SwapSector
      <4>. QED BY <4>1, ConstantsAssumption DEF TotalSize, TypeOK, Data
    <3>2. SectorFlag(sector) \in SectFlags
      BY <3>1 DEF SectorFlag, TypeOK, SectFlags
    <3>3. job' \in Jobs
      BY <2>10, <3>2 DEF SwapSector, SectFlags, Jobs, SwapJobs
    <3>4. /\ pc' = "copy"
          /\ UNCHANGED <<flash, bs, us, fb, emerg, rollback, resume, sector,
                         bsz, usz, dl, ghosts>>
      BY <2>10, Zenon DEF SwapSector
    <3>. QED BY <3>1, <3>3, <3>4 DEF TypeOK
  <2>11. CASE SetSectorFlag
    <3>1. NextFlag \in SectFlags
      BY <2>11 DEF SetSectorFlag, TypeOK, NextFlag, SectFlags, SwapJobs
    <3>2. flag' \in [Data -> SectFlags]
      BY <2>11, <3>1, ProgramType DEF SetSectorFlag, TypeOK
    <3>9. Switches'
      BY <2>0, <2>11, Zenon DEF SetSectorFlag, Switches
    <3>. QED BY <2>11, <3>9, <3>2 DEF Switches, SetSectorFlag, TypeOK
  <2>12. CASE NextSector
    <3>1. sector' \in 0 .. N - 1
      BY <2>12, ConstantsAssumption, SMTT(30) DEF NextSector, TotalSize, TypeOK
    <3>. QED BY <2>12, <3>1, SectorsType DEF NextSector, TypeOK
  <2>13. CASE SwapDone
    BY <2>13, SMTT(30) DEF SwapDone, TypeOK
  <2>14. CASE EraseRemainder
    <3>1. Blank \in Content
      BY DEF Content
    <3>2. boot' \in [Data -> Content] /\ upd' \in [Data -> Content]
      BY <2>14, <3>1, SMTT(30) DEF EraseRemainder, TypeOK
    <3>3. /\ sector' \in 0 .. N - 1
          /\ pc' = "remainder_update" => sector' \in Data
      BY <2>14, ConstantsAssumption, SMTT(30) DEF EraseRemainder, TypeOK, Data
    <3>. QED BY <2>14, <3>2, <3>3 DEF EraseRemainder, TypeOK
  <2>15. CASE FinalErase
    <3>1. Staging \in 0 .. N - 1 /\ Staging \in Data
      BY ConstantsAssumption DEF Staging, Data
    <3>2. Sectors(boot) \in 1 .. N - 1
      BY SectorsType DEF TypeOK
    <3>3. /\ pc' \in {"copy", "erase_boot_trailer"}
          /\ sector' = Staging /\ job' = "stage" /\ bsz' = Sectors(boot)
          /\ UNCHANGED <<flash, bs, us, usz, dl, ghosts>>
      BY <2>15 DEF FinalErase
    <3>4. Switches'
      BY <2>0, <2>15, Zenon DEF FinalErase, Switches
    <3>. QED BY <3>1, <3>2, <3>3, <3>4 DEF Switches, TypeOK, Jobs
  <2>16. CASE SetFinalFlags
    <3>1. Switches'
      BY <2>0, <2>16, Zenon DEF SetFinalFlags, SetUpdateState, Switches
    <3>. QED BY <2>16, <3>1, ProgramType
         DEF Switches, SetFinalFlags, SetUpdateState, TypeOK, ImgStates
  <2>17. CASE EraseBootTrailer
    <3>1. Staging \in 0 .. N - 1 /\ Staging \in Data
      BY ConstantsAssumption DEF Staging, Data
    <3>9. Switches'
      BY <2>0, <2>17, Zenon DEF EraseBootTrailer, Switches
    <3>. QED BY <2>17, <3>9, <3>1
         DEF Switches, EraseBootTrailer, TypeOK, Jobs, ImgStates
  <2>18. CASE EraseStaging
    <3>1. Blank \in Content
      BY DEF Content
    <3>2. boot' \in [Data -> Content]
      BY <2>18, <3>1, Zenon DEF EraseStaging, TypeOK
    <3>3. /\ pc' = "testing"
          /\ UNCHANGED <<upd, swap, trailers, locals, ghosts>>
      BY <2>18 DEF EraseStaging
    <3>. QED BY <3>2, <3>3 DEF TypeOK
  <2>19. CASE MarkTesting
    <3>1. Switches'
      BY <2>0, <2>19, Zenon DEF MarkTesting, SetBootState, Switches
    <3>. QED BY <2>19, <3>1, ProgramType
         DEF Switches, MarkTesting, SetBootState, TypeOK, ImgStates
  <2>20. CASE EraseUpdateTrailer
    <3>1. Switches'
      BY <2>0, <2>20, Zenon
         DEF EraseUpdateTrailer, ErasedUpdateTrailer, Switches
    <3>. QED BY <2>20, <3>1
         DEF Switches, EraseUpdateTrailer, ErasedUpdateTrailer, TypeOK,
             ImgStates, SectFlags
  <2>21. CASE RollbackDone
    <3>1. Switches'
      BY <2>0, <2>21, Zenon DEF RollbackDone, SetBootState, Switches
    <3>. QED BY <2>21, <3>1, ProgramType
         DEF Switches, RollbackDone, SetBootState, TypeOK, ImgStates
  <2>22. CASE Success
    <3>1. Version(boot) \in Versions
      BY <2>22, ConstantsAssumption, Zenon DEF Success
    <3>9. Switches'
      BY <2>0, <2>22, Zenon DEF Success, SetBootState, Switches
    <3>. QED BY <2>22, <3>9, <3>1, ProgramType
         DEF Switches, Success, SetBootState, TypeOK, ImgStates
  <2>23. CASE Trigger
    <3>1. Switches'
      BY <2>0, <2>23, Zenon DEF Trigger, ErasedUpdateTrailer, Switches
    <3>. QED BY <2>23, <3>1
         DEF Switches, Trigger, ErasedUpdateTrailer, TypeOK, ImgStates,
             SectFlags
  <2>24. CASE TriggerState
    <3>1. Switches'
      BY <2>0, <2>24, ZenonT(30) DEF TriggerState, SetUpdateState, Switches
    <3>. QED BY <2>24, <3>1, ProgramType
         DEF Switches, TriggerState, SetUpdateState, TypeOK, ImgStates
  <2>25. CASE Download
    BY <2>25, ConstantsAssumption DEF Download, TypeOK
  <2>26. CASE AppErase
    <3>1. upd' \in [Data -> Content]
      <4>1. Blank \in Content
        BY DEF Content
      <4>. QED BY <2>26, <4>1, BetweenType DEF AppErase, TypeOK
    <3>2. sector' \in 0 .. N - 1
      BY <2>26, ConstantsAssumption DEF AppErase, TypeOK
    <3>. QED BY <2>26, <3>1, <3>2 DEF AppErase, TypeOK
  <2>27. CASE AppWrite
    <3>1. sector \in Data /\ sector + 1 \in 0 .. N - 1
      BY <2>27, ConstantsAssumption, SMTT(30) DEF AppWrite, TypeOK, Data
    <3>2. Whole(dl, sector) \in Content
      BY <3>1 DEF Whole, Content, TypeOK
    <3>3. upd[sector] \in Content
      BY <3>1 DEF TypeOK
    <3>4. Between(upd[sector], Whole(dl, sector)) \subseteq Content
      BY <3>2, <3>3, BetweenType, SMTT(30)
    <3>5. upd' \in [Data -> Content] /\ sector' \in 0 .. N - 1
      BY <2>27, <3>1, <3>2, <3>4, SMTT(30) DEF AppWrite, TypeOK
    <3>. QED BY <2>27, <3>5, SMTT(30) DEF AppWrite, TypeOK
  <2>28. CASE DownloadEnd
    BY <2>28, ConstantsAssumption, SMTT(30) DEF DownloadEnd, TypeOK
  <2>29. CASE Reboot
    <3>1. Switches'
      BY <2>0, <2>29, Zenon DEF Reboot, Restart, Switches
    <3>. QED BY <2>29, <3>1, ConstantsAssumption
         DEF Switches, Reboot, Restart, TypeOK, Jobs
  <2>30. CASE PowerCut
    <3>1. Switches'
      BY <2>0, <2>30, Zenon DEF PowerCut, Restart, Switches
    <3>. QED BY <2>30, <3>1, ConstantsAssumption
         DEF Switches, PowerCut, Restart, TypeOK, Jobs
  <2>31. CASE AppEraseTrailer
    <3>1. Switches'
      BY <2>0, <2>31, Zenon DEF AppEraseTrailer, ErasedUpdateTrailer, Switches
    <3>. QED BY <2>31, <3>1, ConstantsAssumption
         DEF Switches, AppEraseTrailer, ErasedUpdateTrailer, TypeOK, ImgStates,
             SectFlags
  <2>32. CASE UNCHANGED vars
    BY <2>32 DEF vars, TypeOK
  <2>. QED BY <2>1, <2>2, <2>3, <2>4, <2>5, <2>6, <2>7, <2>8, <2>9, <2>10,
       <2>11, <2>12, <2>13, <2>14, <2>15, <2>16, <2>17, <2>18, <2>19, <2>20,
       <2>21, <2>22, <2>23, <2>24, <2>25, <2>26, <2>27, <2>28, <2>29, <2>30,
       <2>31, <2>32, SMTT(30)
       DEF Next, Bootloader, Application
<1>. QED BY <1>1, <1>2, PTL DEF Spec

\* FINAL_FLAGS is set only where the final erase is under way or is going to be
\* resumed.
LEMMA FinalFlagsInductive == Spec => []FinalFlagsInv
<1>1. Init => FinalFlagsInv
  BY SMTT(30) DEF Init, FinalFlagsInv
<1>2. TypeOK /\ FinalFlagsInv /\ [Next]_vars => FinalFlagsInv'
  <2>. SUFFICES ASSUME TypeOK, FinalFlagsInv, [Next]_vars PROVE FinalFlagsInv'
    OBVIOUS
  <2>. USE DEF FinalFlagsInv
  <2>1. CASE Start
    BY <2>1, SMTT(30) DEF Start, UpdateState
  <2>2. CASE Dispatch \/ VerifyBoot \/ UpdateReject \/ UpdateBegin
    BY <2>2 DEF Dispatch, VerifyBoot, UpdateReject, UpdateBegin
  <2>3. CASE MarkUpdating \/ SetFinalFlags \/ TriggerState
    BY <2>3
       DEF MarkUpdating, SetFinalFlags, TriggerState, SetUpdateState, Program
  <2>4. CASE SwapSector \/ SetSectorFlag \/ NextSector \/ SwapDone
    BY <2>4 DEF SwapSector, SetSectorFlag, NextSector, SwapDone
  <2>5. CASE CopyBegin \/ CopyEnd \/ CopyFail
    BY <2>5 DEF CopyBegin, CopyEnd, CopyFail, AfterCopy, SwapJobs
  <2>6. CASE EraseRemainder \/ FinalErase
    BY <2>6 DEF EraseRemainder, FinalErase, UpdateState
  <2>7. CASE EraseBootTrailer \/ EraseStaging
    BY <2>7, SMTT(30) DEF EraseBootTrailer, EraseStaging
  <2>8. CASE MarkTesting \/ RollbackDone \/ Success
    BY <2>8 DEF MarkTesting, RollbackDone, Success, SetBootState
  <2>9. CASE EraseUpdateTrailer \/ Trigger \/ AppEraseTrailer
    BY <2>9, SMTT(30)
       DEF EraseUpdateTrailer, Trigger, AppEraseTrailer, ErasedUpdateTrailer
  <2>10. CASE Download \/ AppErase \/ AppWrite \/ DownloadEnd
    BY <2>10 DEF Download, AppErase, AppWrite, DownloadEnd
  <2>11. CASE Reboot \/ PowerCut
    BY <2>11 DEF Reboot, PowerCut, Restart
  <2>12. CASE UNCHANGED vars
    BY <2>12 DEF vars
  <2>. QED BY <2>1, <2>2, <2>3, <2>4, <2>5, <2>6, <2>7, <2>8, <2>9, <2>10,
       <2>11, <2>12
       DEF Next, Bootloader, Application
<1>. QED BY <1>1, <1>2, TypeCorrect, PTL DEF Spec

\* The intermediate state FINAL_FLAGS never survives a boot (FinalFlagsCleared):
\* whatever is cut short, fails or is downloaded, the application finds the
\* state of UPDATE as the comment on IMG_STATE_FINAL_FLAGS promises.
THEOREM FinalFlagsSafe == Spec => []FinalFlagsCleared
<1>1. FinalFlagsInv => FinalFlagsCleared
  BY DEF FinalFlagsInv, FinalFlagsCleared, UpdateState
<1>. QED BY <1>1, FinalFlagsInductive, PTL

==============================================================================
