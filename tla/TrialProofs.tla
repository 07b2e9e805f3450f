----------------------------- MODULE TrialProofs -----------------------------
(***************************************************************************)
(* An image on trial is started once: TestedOnce, for every partition      *)
(* size, every set of images and any number of power cuts, under the       *)
(* conditions of SwapSafe.                                                 *)
(***************************************************************************)
EXTENDS VersionProofs

USE DEF IMG_STATE_NEW, IMG_STATE_UPDATING, IMG_STATE_FINAL_FLAGS,
        IMG_STATE_TESTING, IMG_STATE_SUCCESS, NoTrailer,
        SECT_FLAG_NEW, SECT_FLAG_SWAPPING, SECT_FLAG_BACKUP, SECT_FLAG_UPDATED,
        images, trailers, flash, locals, ghosts

\* wolfBoot_start reads the states, chooses what to do and, at the end, verifies
\* BOOT.
LEMMA StartTrial ==
  ASSUME Known, Known', TrialSafe, Start \/ Dispatch \/ MarkUpdating \/ VerifyBoot
  PROVE  TrialSafe'
<1>1. UNCHANGED <<images, bmagic, bstate, flag, job>> /\ OnTrial' = OnTrial
  BY DEF Start, Dispatch, MarkUpdating, VerifyBoot, SetUpdateState, OnTrial
<1>2. CASE Start
  <2>1. pc' \in {"dispatch", "erase_boot_trailer"} /\ UNCHANGED ran
    BY <1>2 DEF Start
  <2>2. OnTrial => bs' = IMG_STATE_TESTING
    BY <1>2 DEF Start, OnTrial, BootState
  <2>. QED BY <1>1, <2>1, <2>2 DEF TrialSafe
<1>3. CASE Dispatch
  <2>1. pc = "dispatch" /\ UNCHANGED ran
    BY <1>3 DEF Dispatch
  <2>2. OnTrial /\ ran => fb' /\ pc' \in {"mark_updating", "update"}
    BY <1>3, <2>1, Zenon DEF Dispatch, TrialSafe
  <2>3. pc' \in {"mark_updating", "update", "verify"}
    BY <1>3 DEF Dispatch
  <2>. QED BY <1>1, <2>1, <2>2, <2>3 DEF TrialSafe
<1>4. CASE MarkUpdating
  <2>1. /\ pc = "mark_updating" /\ pc' \in {"mark_updating", "update"}
        /\ UNCHANGED <<ran, fb>>
    BY <1>4 DEF MarkUpdating, SetUpdateState
  <2>. QED BY <1>1, <2>1 DEF TrialSafe
<1>5. CASE VerifyBoot
  <2>1. pc = "verify" /\ ~emerg'
    BY <1>5 DEF VerifyBoot, Known, SwapSafe, SwapSafeFor, ControlInv
  <2>2. pc' \in {"running", "panic"}
    BY <1>5, <2>1 DEF VerifyBoot
  <2>3. flag[0] # SECT_FLAG_UPDATED
    BY <2>1, AppQuiet, Control, FlagIs, SizeFacts DEF HeaderLost
  <2>. QED BY <1>1, <2>2, <2>3, SMTT(30) DEF TrialSafe
<1>. QED BY <1>2, <1>3, <1>4, <1>5, SMTT(30)

\* An update of an image on trial is refused only when nothing in UPDATE can be
\* rolled back to.
LEMMA UpdateTrial ==
  ASSUME Known, TrialSafe, UpdateReject \/ UpdateBegin
  PROVE  TrialSafe'
<1>1. UNCHANGED <<flash, ran, job, fb>> /\ pc = "update" /\ OnTrial' = OnTrial
  BY DEF UpdateReject, UpdateBegin, OnTrial
<1>2. CASE UpdateReject
  <2>1. pc' = "verify"
    BY <1>2, Control, SMTT(30) DEF UpdateReject, UpdateFailed, ControlInv
  <2>2. OnTrial /\ ran => ~Verified(upd)
    BY <1>1, <1>2 DEF UpdateReject, UpdateAllowed, Verified, TrialSafe
  <2>3. Verified(upd)' = Verified(upd)
    BY <1>1, Zenon DEF Verified, Header
  <2>. QED BY <1>1, <2>1, <2>2, <2>3, SMTT(30) DEF TrialSafe
<1>3. CASE UpdateBegin
  <2>1. pc' = "swap"
    BY <1>3 DEF UpdateBegin
  <2>. QED BY <1>1, <2>1, SMTT(30) DEF TrialSafe
<1>. QED BY <1>2, <1>3

\* The loop: BOOT gets its new first sector when the image is no longer the one
\* that was started.
LEMMA LoopTrial ==
  ASSUME Known, TrialSafe,
         SwapSector \/ NextSector \/ SwapDone \/ CopyBegin \/ CopyEnd \/ SetSectorFlag
  PROVE  TrialSafe'
<1>1. pc' \in {"swap", "copy", "copying", "flag", "final_flags", "testing",
              "remainder"}
  BY DEF SwapSector, NextSector, SwapDone, CopyBegin, CopyEnd, SetSectorFlag,
     AfterCopy, Known, TypeOK, Jobs
<1>2. ran' => ran
  BY Zenon DEF SwapSector, NextSector, SwapDone, CopyBegin, CopyEnd, SetSectorFlag
<1>3. flag'[0] = SECT_FLAG_UPDATED => ~ran'
  <2>1. CASE UNCHANGED flag
    BY <1>2, <2>1 DEF TrialSafe
  <2>2. CASE SetSectorFlag
    <3>1. pc = "flag" /\ job \in SwapJobs /\ UNCHANGED ran
      BY <2>2, SMTT(30) DEF SetSectorFlag, Known, TypeOK
    <3>2. flag'[0] = SECT_FLAG_UPDATED =>
            flag[0] = SECT_FLAG_UPDATED \/ job = "swap_boot"
      BY <2>2, <3>1, SizeFacts, SMTT(30)
        DEF SetSectorFlag, Program, NextFlag, Known, TypeOK,
         SectFlags, SwapJobs
    <3>. QED BY <3>1, <3>2, SMTT(30) DEF TrialSafe
  <2>. QED BY <2>1, <2>2
       DEF SwapSector, NextSector, SwapDone, CopyBegin, CopyEnd
<1>4. pc' \in {"copying", "flag"} /\ job' = "swap_boot" => ~ran'
  BY Zenon DEF SwapSector, NextSector, SwapDone, CopyBegin, CopyEnd, SetSectorFlag,
     TrialSafe
<1>. QED BY <1>1, <1>3, <1>4, SMTT(30) DEF TrialSafe

\* After the loop nothing that was started is in BOOT, until the next boot.
LEMMA FinalTrial ==
  ASSUME Known, TrialSafe,
         \/ EraseRemainder \/ FinalErase \/ SetFinalFlags \/ EraseBootTrailer
         \/ EraseStaging \/ MarkTesting \/ EraseUpdateTrailer
  PROVE  TrialSafe'
<1>1. Swapped \/ ustate = IMG_STATE_FINAL_FLAGS
  BY Control, Zenon DEF EraseRemainder, FinalErase, SetFinalFlags, EraseBootTrailer,
     EraseStaging, MarkTesting, EraseUpdateTrailer, ControlInv, Swapped,
     Staged, Finishing, Restoring
<1>2. ~ran
  BY <1>1, FirstFlag, SMTT(30) DEF TrialSafe
<1>3. UNCHANGED ran
  BY DEF EraseRemainder, FinalErase, SetFinalFlags, EraseBootTrailer,
     EraseStaging, MarkTesting, EraseUpdateTrailer
<1>. QED BY <1>2, <1>3, SMTT(30) DEF TrialSafe

\* The application, resets and power cuts end at no step that a trial is about.
LEMMA OtherTrial ==
  ASSUME Known, TrialSafe,
         \/ RollbackDone \/ Success \/ Trigger \/ TriggerState \/ Download
         \/ AppErase \/ AppEraseTrailer \/ AppWrite \/ DownloadEnd \/ Reboot
         \/ PowerCut
  PROVE  TrialSafe'
<1>. DEFINE Quiet == /\ UNCHANGED ran
                     /\ flag'[0] \in {flag[0], SECT_FLAG_NEW}
                     /\ pc' \in {"rollback_done", "verify", "start"} \cup AppPcs
                     /\ pc' = "verify" => ~OnTrial'
<1>1. ASSUME RollbackDone PROVE Quiet
  <2>1. UNCHANGED <<ran, flag>> /\ pc' \in {"rollback_done", "verify"}
    BY <1>1, SMTT(30) DEF RollbackDone, SetBootState
  <2>2. pc' = "verify" => ~OnTrial'
    BY <1>1 DEF RollbackDone, SetBootState, Program, OnTrial, Known, TypeOK,
       ImgStates
  <2>. QED BY <2>1, <2>2
<1>2. ASSUME Success \/ TriggerState PROVE Quiet
  <2>1. UNCHANGED <<ran, flag>> /\ pc' \in {"running", "trigger"}
    BY <1>2 DEF Success, TriggerState, SetBootState, SetUpdateState
  <2>. QED BY <2>1, SMTT(30) DEF AppPcs
<1>3. ASSUME Trigger \/ AppEraseTrailer PROVE Quiet
  <2>1. UNCHANGED ran /\ pc' \in {"trigger", "app_write"}
    BY <1>3, SMTT(30) DEF Trigger, AppEraseTrailer
  <2>2. flag'[0] = SECT_FLAG_NEW
    BY <1>3, SizeFacts DEF Trigger, AppEraseTrailer, ErasedUpdateTrailer
  <2>. QED BY <2>1, <2>2, SMTT(30) DEF AppPcs
<1>4. ASSUME Download \/ AppErase \/ AppWrite \/ DownloadEnd PROVE Quiet
  <2>1. UNCHANGED <<ran, flag>>
    BY <1>4, Zenon DEF Download, AppErase, AppWrite, DownloadEnd
  <2>2. pc' \in {"running", "app_erase", "app_write"}
    BY <1>4, Zenon DEF Download, AppErase, AppWrite, DownloadEnd
  <2>3. pc' \in AppPcs /\ pc' # "verify"
    BY <2>2 DEF AppPcs
  <2>. QED BY <2>1, <2>3
<1>5. ASSUME Reboot \/ PowerCut PROVE Quiet
  <2>1. UNCHANGED <<ran, flag>> /\ pc' = "start"
    BY <1>5, SMTT(30) DEF Reboot, PowerCut, Restart
  <2>. QED BY <2>1, SMTT(30)
<1>6. Quiet
  BY <1>1, <1>2, <1>3, <1>4, <1>5
<1>. QED BY <1>6 DEF TrialSafe, AppPcs

--------------------------------------------------------------------------------
\* As long as no copy fails and downloads erase UPDATE first, an image on trial
\* that has been started reaches the end of a boot only when UPDATE holds nothing
\* to fall back to (TrialSafe).
THEOREM TrialSafeInductive ==
  ASSUME MaxErrors = 0, EraseFirst = TRUE
  PROVE  Spec => []TrialSafe
<1>1. Init => TrialSafe
  BY DEF Init, TrialSafe
<1>2. Known /\ Known' /\ TrialSafe /\ [Next]_vars => TrialSafe'
  <2>. SUFFICES ASSUME Known, Known', TrialSafe, [Next]_vars
                PROVE  TrialSafe'
    BY SMTT(30)
  <2>1. ~CopyFail
    BY DEF CopyFail, Known, TypeOK
  <2>2. CASE UNCHANGED vars
    <3>1. UNCHANGED <<flash, pc, locals, ghosts>>
      BY <2>2 DEF vars
    <3>2. OnTrial' = OnTrial /\ Verified(upd)' = Verified(upd)
      BY <3>1, Zenon DEF OnTrial, Verified, Header
    <3>. QED BY <3>1, <3>2, SMTT(30) DEF TrialSafe
  <2>3. CASE Next
    BY <2>1, <2>3, StartTrial, UpdateTrial, LoopTrial, FinalTrial, OtherTrial,
       Zenon DEF Next, Bootloader, Application
  <2>. QED BY <2>2, <2>3
<1>3. Spec => []Known
  BY TypeCorrect, FinalFlagsInductive, SwapSafeInductive, PTL DEF Known
<1>. QED BY <1>1, <1>2, <1>3, PTL DEF Spec

\* Under the same conditions an image in state TESTING that was started is not
\* started again while UPDATE holds an image to roll back to (TestedOnce).
THEOREM TestedOnceSafe ==
  ASSUME MaxErrors = 0, EraseFirst = TRUE
  PROVE  Spec => TestedOnce
<1>1. TrialSafe => [(pc = "verify" /\ pc' = "running"
                       /\ BootState = IMG_STATE_TESTING /\ ran)
                      => ~Verified(upd)]_vars
  BY DEF TrialSafe, OnTrial, BootState
<1>. QED BY <1>1, TrialSafeInductive, PTL DEF TestedOnce
==============================================================================
