------------------------- MODULE SwapInvariantProofs -------------------------
(***************************************************************************)
(* SwapSafe is an inductive invariant when no copy fails and the           *)
(* application erases UPDATE before a download.  It gives the safety of    *)
(* the swap for every partition size and any number of power cuts.         *)
(***************************************************************************)
EXTENDS SwapCopyProofs

USE DEF IMG_STATE_NEW, IMG_STATE_UPDATING, IMG_STATE_FINAL_FLAGS,
        IMG_STATE_TESTING, IMG_STATE_SUCCESS, NoTrailer,
        SECT_FLAG_NEW, SECT_FLAG_SWAPPING, SECT_FLAG_BACKUP, SECT_FLAG_UPDATED,
        images, trailers, flash, locals, ghosts
USE SizeFacts DEF Looping, Swapped, Staged, Restoring, Finishing, Requested,
                  SwapJobs, SwapSafeFor

(* The application and resets; copies do not fail *)

\* wolfBoot_success changes the state of BOOT outside a swap only.
LEMMA SuccessStep ==
  ASSUME TypeOK, FinalFlagsInv, NEW o \in Acceptable, NEW n \in Acceptable,
         SwapSafeFor(o, n), Success
  PROVE  SwapSafeFor(o, n)'
<1>. USE DEF Success, SetBootState
<1>1. /\ Holds(boot, o) /\ ustate # IMG_STATE_FINAL_FLAGS
      /\ flag[0] = SECT_FLAG_NEW \/ HeaderLost
  BY QuietFacts DEF AppPcs
<1>2. FlagsInv' /\ ControlInv'
  BY DEF FlagsInv, ControlInv
<1>3. HeaderLost' = HeaderLost
  BY DEF HeaderLost, SectorFlag, Header
<1>. QED BY <1>1, <1>2, <1>3, ToQuiet

\* Erasing the trailer of UPDATE, by wolfBoot_update_trigger or before a
\* download, leaves BOOT with the image it holds.
LEMMA TrailerErasedStep ==
  ASSUME TypeOK, FinalFlagsInv, NEW o \in Acceptable, NEW n \in Acceptable,
         SwapSafeFor(o, n), Trigger \/ AppEraseTrailer
  PROVE  SwapSafeFor(o, n)'
<1>. USE DEF Trigger, AppEraseTrailer, ErasedUpdateTrailer
<1>1. Holds(boot, o)
  BY QuietFacts, SMTT(30) DEF AppPcs
<1>2. FlagsInv' /\ ControlInv'
  BY DEF FlagsInv, ControlInv
<1>. QED BY <1>1, <1>2, ToQuiet, SMTT(30)

\* The flags are still clear when the state is set.
LEMMA TriggerStateStep ==
  ASSUME TypeOK, FinalFlagsInv, NEW o \in Acceptable, NEW n \in Acceptable,
         SwapSafeFor(o, n), TriggerState
  PROVE  SwapSafeFor(o, n)'
<1>. USE DEF TriggerState, SetUpdateState, Program
<1>1. Holds(boot, o) /\ flag[0] = SECT_FLAG_NEW
  BY QuietFacts, SMTT(30) DEF AppPcs, ControlInv
<1>2. ustate' # IMG_STATE_FINAL_FLAGS
  BY SMTT(30) DEF FinalFlagsInv
<1>3. FlagsInv' /\ ControlInv'
  BY DEF FlagsInv, ControlInv
<1>. QED BY <1>1, <1>2, <1>3, ToQuiet, SMTT(30)

\* A download begins with erasing UPDATE, and ends, without touching flash.
LEMMA DownloadStep ==
  ASSUME TypeOK, FinalFlagsInv, EraseFirst = TRUE,
         NEW o \in Acceptable, NEW n \in Acceptable,
         SwapSafeFor(o, n), Download \/ DownloadEnd
  PROVE  SwapSafeFor(o, n)'
<1>. USE DEF Download, DownloadEnd
<1>1. /\ Holds(boot, o) /\ ustate # IMG_STATE_FINAL_FLAGS
      /\ flag[0] = SECT_FLAG_NEW \/ HeaderLost
  BY QuietFacts, SMTT(30) DEF AppPcs
<1>2. FlagsInv' /\ ControlInv'
  BY DEF FlagsInv, ControlInv
<1>3. HeaderLost' = HeaderLost
  BY DEF HeaderLost, SectorFlag, Header
<1>. QED BY <1>1, <1>2, <1>3, ToQuiet, SMTT(30)

\* Erasing UPDATE brings no lost header back.
LEMMA AppEraseStep ==
  ASSUME TypeOK, FinalFlagsInv, NEW o \in Acceptable, NEW n \in Acceptable,
         SwapSafeFor(o, n), AppErase
  PROVE  SwapSafeFor(o, n)'
<1>. USE DEF AppErase
<1>1. /\ Holds(boot, o) /\ ustate # IMG_STATE_FINAL_FLAGS
      /\ flag[0] = SECT_FLAG_NEW \/ HeaderLost
  BY QuietFacts, SMTT(30) DEF AppPcs
<1>2. FlagsInv' /\ ControlInv'
  BY SMTT(30) DEF FlagsInv, ControlInv
<1>3. ~Header(upd) => ~Header(upd)'
  BY DEF Header, Torn, TypeOK
<1>4. HeaderLost => HeaderLost'
  BY <1>3 DEF HeaderLost, SectorFlag
<1>. QED BY <1>1, <1>2, <1>4, ToQuiet, SMTT(30)

\* A download writes to UPDATE after the flags are clear.
LEMMA AppWriteStep ==
  ASSUME TypeOK, FinalFlagsInv, NEW o \in Acceptable, NEW n \in Acceptable,
         SwapSafeFor(o, n), AppWrite
  PROVE  SwapSafeFor(o, n)'
<1>1. /\ pc = "app_write"
      /\ UNCHANGED <<boot, trailers, pc, bs, us, emerg, resume>>
  BY Zenon DEF AppWrite
<1>2. /\ Holds(boot, o) /\ ustate # IMG_STATE_FINAL_FLAGS
      /\ flag[0] = SECT_FLAG_NEW
  BY <1>1, QuietFacts, SMTT(30) DEF AppPcs, ControlInv
<1>3. FlagsInv' /\ ControlInv'
  BY <1>1, SMTT(30) DEF FlagsInv, ControlInv
<1>. QED BY <1>1, <1>2, <1>3, ToQuiet

\* A reset or a power cut, at any step.
LEMMA RestartStep ==
  ASSUME TypeOK, FinalFlagsInv, NEW o \in Acceptable, NEW n \in Acceptable,
         SwapSafeFor(o, n), Restart
  PROVE  SwapSafeFor(o, n)'
<1>. USE DEF Restart
<1>1. FlagsInv' /\ ControlInv'
  BY DEF FlagsInv, ControlInv
<1>2. HeaderLost' = HeaderLost
  BY DEF HeaderLost, SectorFlag, Header
<1>3. LostInv(o)'
  BY <1>2, LostHolds, SMTT(30) DEF LostInv
<1>4. SwapInv(o, n)'
  BY <1>2, SMTT(30) DEF ImagesInv, SwapInv
<1>5. IdleInv(o, n)' /\ LoopInv(o, n)' /\ SwappedInv(o, n)' /\ FinalInv(n)'
  BY DEF ImagesInv, IdleInv, LoopInv, SwappedInv, FinalInv
<1>. QED BY <1>1, <1>3, <1>4, <1>5, SMTT(30) DEF ImagesInv

--------------------------------------------------------------------------------
\* As long as no copy fails and downloads erase UPDATE first, every step of the
\* boot loader, of the application and of a power cut keeps all of a bootable
\* image where the flags and the trailer states say (SwapSafe).
THEOREM SwapSafeInductive ==
  ASSUME MaxErrors = 0, EraseFirst = TRUE
  PROVE  Spec => []SwapSafe
<1>1. Init => SwapSafe
  <2>. SUFFICES ASSUME Init PROVE SwapSafe
    OBVIOUS
  <2>1. PICK v \in Acceptable :
           boot = [s \in Data |-> IF s < Size[v] THEN Whole(v, s) ELSE Blank]
    BY DEF Init
  <2>2. Holds(boot, v)
    BY <2>1, SMTT(30) DEF Holds, Intact
  <2>3. FlagsInv /\ ControlInv
    BY SMTT(30) DEF Init, FlagsInv, ControlInv
  <2>4. ImagesInv(v, v)
    BY <2>2, SMTT(30) DEF Init, ImagesInv, IdleInv, LostInv, SwapInv, LoopInv,
       SwappedInv, FinalInv, HeaderLost, SectorFlag
  <2>. QED BY <2>3, <2>4 DEF SwapSafe
<1>2. TypeOK /\ FinalFlagsInv /\ SwapSafe /\ [Next]_vars => SwapSafe'
  <2>. SUFFICES ASSUME TypeOK, FinalFlagsInv, SwapSafe, [Next]_vars
                PROVE  SwapSafe'
    OBVIOUS
  <2>1. PICK o \in Acceptable, n \in Acceptable : SwapSafeFor(o, n)
    BY DEF SwapSafe
  <2>2. CASE UpdateBegin
    BY <2>1, <2>2, UpdateBeginStep, Zenon DEF SwapSafe
  <2>3. CASE EraseUpdateTrailer
    BY <2>1, <2>3, EraseUpdateTrailerStep, Zenon DEF SwapSafe
  <2>4. CASE UNCHANGED vars
    <3>1. FlagsInv' /\ ControlInv'
      BY <2>1, <2>4, SMTT(30) DEF vars, FlagsInv, ControlInv
    <3>2. HeaderLost' = HeaderLost
      BY <2>4, Zenon DEF vars, HeaderLost, SectorFlag, Header
    <3>3. IdleInv(o, n)' /\ LostInv(o)' /\ LoopInv(o, n)'
      BY <2>1, <2>4, <3>2, SMTT(30)
         DEF vars, ImagesInv, IdleInv, LostInv, LoopInv
    <3>4. SwapInv(o, n)'
      BY <2>1, <2>4, <3>2, SMTT(30) DEF vars, ImagesInv, SwapInv
    <3>5. SwappedInv(o, n)' /\ FinalInv(n)'
      BY <2>1, <2>4, SMTT(30) DEF vars, ImagesInv, SwappedInv, FinalInv
    <3>6. SwapSafeFor(o, n)'
      BY <3>1, <3>3, <3>4, <3>5, SMTT(30) DEF ImagesInv
    <3>. QED BY <3>6, Zenon DEF SwapSafe
  <2>5. CASE Next /\ ~UpdateBegin /\ ~EraseUpdateTrailer
    <3>1. ~CopyFail
      BY DEF CopyFail, TypeOK
    <3>2. SwapSafeFor(o, n)'
      BY <2>1, <2>5, <3>1, StartStep, DispatchStep, MarkUpdatingStep,
         VerifyBootStep, UpdateRejectStep, SwapSectorStep, CopyBeginStep,
         CopyEndStep, SetSectorFlagStep, NextSectorStep, SwapDoneStep,
         EraseRemainderStep, FinalEraseStep, SetFinalFlagsStep,
         EraseBootTrailerStep, EraseStagingStep, MarkTestingStep,
         RollbackDoneStep, SuccessStep, TrailerErasedStep, TriggerStateStep,
         DownloadStep, AppEraseStep, AppWriteStep, RestartStep, Zenon
         DEF Next, Bootloader, Application, Reboot, PowerCut
    <3>. QED BY <3>2, Zenon DEF SwapSafe
  <2>. QED BY <2>2, <2>3, <2>4, <2>5
<1>. QED BY <1>1, <1>2, TypeCorrect, FinalFlagsInductive, PTL DEF Spec

\* Power may fail at any flash operation, any number of times: as long as no
\* copy fails and downloads erase UPDATE first, wolfBoot_start finds an image to
\* boot and never panics (NoPanic).
THEOREM NoPanicSafe ==
  ASSUME MaxErrors = 0, EraseFirst = TRUE
  PROVE  Spec => []NoPanic
<1>1. SwapSafe => NoPanic
  BY DEF SwapSafe, ControlInv, NoPanic
<1>. QED BY <1>1, SwapSafeInductive, PTL

\* Under the same conditions no sector of the two images being exchanged is ever
\* without a complete copy, and it is where the sector flags say
\* (BothImagesKept).
THEOREM BothImagesKeptSafe ==
  ASSUME MaxErrors = 0, EraseFirst = TRUE
  PROVE  Spec => []BothImagesKept
<1>1. TypeOK /\ SwapSafe => BothImagesKept
  <2>. SUFFICES ASSUME TypeOK, SwapSafe, SwapInProgress,
                       UpdateState # IMG_STATE_FINAL_FLAGS, ~HeaderLost
                PROVE  BothImagesKept
    BY Zenon DEF BothImagesKept
  <2>1. PICK o \in Acceptable, n \in Acceptable : SwapSafeFor(o, n)
    BY DEF SwapSafe
  <2>2. flag[0] # SECT_FLAG_NEW /\ ustate # IMG_STATE_FINAL_FLAGS
    BY <2>1 DEF SwapInProgress, UpdateState, SectorFlag
  <2>3. \A s \in Data :
          /\ flag[s] = SECT_FLAG_NEW => Intact(boot, s, o) /\ Intact(upd, s, n)
          /\ flag[s] = SECT_FLAG_SWAPPING =>
               Intact(boot, s, o) /\ (s < Size[n] => swap = Whole(n, s))
          /\ flag[s] = SECT_FLAG_BACKUP =>
               Intact(upd, s, o) /\ (s < Size[n] => swap = Whole(n, s))
          /\ flag[s] = SECT_FLAG_UPDATED =>
               Intact(upd, s, o) /\ Intact(boot, s, n)
    BY <2>1, <2>2, SMTT(30) DEF ImagesInv, SwapInv
  <2>4. \A s \in Data : flag[s] \in SectFlags
    BY SMTT(30) DEF TypeOK
  <2>. QED BY <2>3, <2>4, ZenonT(30) DEF BothImagesKept, SectFlags
<1>. QED BY <1>1, TypeCorrect, SwapSafeInductive, PTL

\* Under the same conditions a swap that was begun is finished before the
\* application runs, unless the header of UPDATE was lost (SwapResumedOrLost).
THEOREM SwapResumedOrLostSafe ==
  ASSUME MaxErrors = 0, EraseFirst = TRUE
  PROVE  Spec => []SwapResumedOrLost
<1>1. FinalFlagsInv /\ SwapSafe => SwapResumedOrLost
  BY FlagIs DEF SwapSafe, ImagesInv, SwapInv, FinalFlagsInv, SwapInProgress,
     SwapResumedOrLost
<1>. QED BY <1>1, FinalFlagsInductive, SwapSafeInductive, PTL
==============================================================================
