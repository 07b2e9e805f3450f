------------------------------ MODULE UpdateFlash ------------------------------
(***************************************************************************)
(* The power-fail safe firmware update of wolfBoot on a device with a BOOT *)
(* partition, an UPDATE partition and a one-sector SWAP area.              *)
(*                                                                         *)
(* src/src/update_flash.c   wolfBoot_start, wolfBoot_update,               *)
(*                          wolfBoot_swap_and_final_erase,                 *)
(*                          wolfBoot_copy_sector                           *)
(* src/src/libwolfboot.c    the partition trailers (state and sector       *)
(*                          flags), wolfBoot_update_trigger,               *)
(*                          wolfBoot_success                               *)
(*                                                                         *)
(* Every step below is one flash operation (or a run of reads), so a power *)
(* cut can fall between any two flash operations.  The build modelled is   *)
(* the default one: trailers in flash that clears bits in place, images    *)
(* not encrypted, no delta updates, no downgrade, backup enabled.          *)
(*                                                                         *)
(* A definition X_Y is X with the plausible mistake Y.  It stands before X *)
(* and is used nowhere: put in the place of X it breaks a property.        *)
(***************************************************************************)
EXTENDS Naturals

CONSTANTS
  N,          \* sectors in the BOOT and in the UPDATE partition, the last
              \* one of each holds the trailer
  Versions,   \* the firmware images that exist, named by their version
  Size,       \* Size[v]: sectors image v spans, manifest header included
  Acceptable, \* the images of the right type and size with a valid
              \* signature; any other image fails wolfBoot's verification
  Confirms,   \* the images whose application calls wolfBoot_success
  EraseFirst, \* TRUE: the application erases the whole UPDATE partition
              \* before a download; FALSE: it erases sector by sector
  MaxCuts,    \* bound on the number of power cuts
  MaxErrors,  \* bound on the number of failing flash copies
  Blank       \* a sector with no readable image data: erased or torn

Data    == 0 .. N - 2    \* the sectors of a partition that hold image data
Staging == N - 2         \* tmpBootPos / WOLFBOOT_SECTOR_SIZE

\* What a data sector holds of image v: all of its part s, or (first sector
\* only) the manifest header without all of the rest, after a torn write or
\* erase.
Whole(v, s) == [ver |-> v, sec |-> s, whole |-> TRUE]
Content == [ver : Versions, sec : Data, whole : BOOLEAN] \cup {Blank}

ASSUME ConstantsAssumption ==
  /\ N \in Nat /\ N >= 2
  /\ Versions \subseteq Nat \ {0}
  /\ Size \in [Versions -> 1 .. N - 1]
  /\ Acceptable \subseteq Versions
  /\ Confirms \subseteq Versions
  /\ EraseFirst \in BOOLEAN
  /\ MaxCuts \in Nat /\ MaxErrors \in Nat
  /\ Blank \notin [ver : Versions, sec : Data, whole : BOOLEAN]

(***************************************************************************)
(* Trailer values.  Each is a bit-subset of the one before, so programming *)
(* flash, which only clears bits, yields the smaller of the two values.    *)
(***************************************************************************)
IMG_STATE_NEW         == 255   \* 0xFF
IMG_STATE_UPDATING    == 112   \* 0x70
IMG_STATE_FINAL_FLAGS == 48    \* 0x30
IMG_STATE_TESTING     == 16    \* 0x10
IMG_STATE_SUCCESS     == 0     \* 0x00
NoTrailer             == 256   \* the getters return -1: magic not present
ImgStates == {IMG_STATE_NEW, IMG_STATE_UPDATING, IMG_STATE_FINAL_FLAGS,
              IMG_STATE_TESTING, IMG_STATE_SUCCESS}

SECT_FLAG_NEW      == 15
SECT_FLAG_SWAPPING == 7
SECT_FLAG_BACKUP   == 3
SECT_FLAG_UPDATED  == 0
SectFlags == {SECT_FLAG_NEW, SECT_FLAG_SWAPPING, SECT_FLAG_BACKUP,
              SECT_FLAG_UPDATED}

Program(old, new) == IF new < old THEN new ELSE old

VARIABLES
  \* flash: survives a power cut
  boot, upd,      \* data sectors of the partitions
  swap,           \* the SWAP sector
  bmagic, bstate, \* trailer of BOOT: magic present, state byte
  umagic, ustate, \* trailer of UPDATE
  flag,           \* sector flags, in the trailer of UPDATE
  \* the running program
  pc,
  bs, us,         \* bootState and updateState as wolfBoot_start read them
  fb,             \* fallback_allowed
  emerg,          \* wolfBoot_update called as emergency update
  rollback,       \* rollback_needed
  resume,         \* argument of wolfBoot_swap_and_final_erase
  sector,         \* loop counter
  bsz, usz,       \* boot.fw_size and update.fw_size, header included, in sectors
  job,            \* which call of wolfBoot_copy_sector is under way
  dl,             \* the image the application is downloading
  \* bookkeeping
  cuts, errors,
  top,            \* highest version ever confirmed, or an older one that an
                  \* image on trial downloaded since (history)
  ran             \* the BOOT image has been started since it was installed

\* Where the program is: in wolfBoot, stopped by wolfBoot_panic, or in the
\* application.
BootPcs == {"start", "dispatch", "mark_updating", "update", "swap", "copy",
            "copying", "flag", "remainder", "remainder_update", "final_flags",
            "erase_boot_trailer", "erase_staging", "testing",
            "erase_update_trailer", "rollback_done", "verify", "panic"}
AppPcs  == {"running", "trigger", "app_erase", "app_write"}

images   == <<boot, upd, swap>>
trailers == <<bmagic, bstate, umagic, ustate, flag>>
flash    == <<images, trailers>>
locals   == <<bs, us, fb, emerg, rollback, resume, sector, bsz, usz, job, dl>>
ghosts   == <<cuts, errors, top, ran>>
vars     == <<flash, pc, locals, ghosts>>

--------------------------------------------------------------------------------
(* Reading flash *)

\* wolfBoot_open_image: the manifest header is readable.
Header(p) == p[0] # Blank /\ p[0].sec = 0

\* img->fw_size plus the header, in sectors; fw_size stays 0 when the open
\* fails, and the header alone then spans one sector.
Sectors(p) == IF Header(p) THEN Size[p[0].ver] ELSE 1

\* wolfBoot_get_image_version: 0 when there is no image.
Version(p) == IF Header(p) THEN p[0].ver ELSE 0

\* The image checks of wolfBoot_verify_integrity and _authenticity.
Verified(p) ==
  /\ Header(p)
  /\ p[0].ver \in Acceptable
  /\ \A s \in 0 .. Size[p[0].ver] - 1 : p[s] = Whole(p[0].ver, s)

BootState   == IF bmagic THEN bstate ELSE NoTrailer
UpdateState == IF umagic THEN ustate ELSE NoTrailer
SectorFlag(s) == IF umagic THEN flag[s] ELSE SECT_FLAG_NEW

\* wolfBoot_get_total_size
TotalSize == IF usz > bsz THEN usz ELSE bsz

(* Writing flash *)

\* What is left of a sector whose erase or write is interrupted.
Torn(c) ==
  IF c # Blank /\ c.sec = 0 THEN [ver |-> c.ver, sec |-> 0, whole |-> FALSE]
  ELSE Blank

\* The contents a sector goes through while `old` is erased and `new` written.
Between(old, new) == {Torn(old), Blank, Torn(new)}

\* wolfBoot_set_partition_state: the magic first when it is missing, then the
\* state byte; two separate flash writes.
SetBootState(st, next) ==
  /\ \/ /\ ~bmagic
        /\ bmagic' = TRUE
        /\ UNCHANGED <<bstate, pc>>
     \/ /\ bmagic
        /\ bstate' = Program(bstate, st)
        /\ pc' = next
        /\ UNCHANGED bmagic
  /\ UNCHANGED <<umagic, ustate, flag>>

SetUpdateState(st, next) ==
  /\ \/ /\ ~umagic
        /\ umagic' = TRUE
        /\ UNCHANGED <<ustate, pc>>
     \/ /\ umagic
        /\ ustate' = Program(ustate, st)
        /\ pc' = next
        /\ UNCHANGED umagic
  /\ UNCHANGED <<bmagic, bstate, flag>>

ErasedUpdateTrailer ==
  /\ umagic' = FALSE
  /\ ustate' = IMG_STATE_NEW
  /\ flag' = [s \in Data |-> SECT_FLAG_NEW]
  /\ UNCHANGED <<bmagic, bstate>>

--------------------------------------------------------------------------------
(* wolfBoot_copy_sector, called from five places *)

SwapJobs == {"update_swap", "boot_update", "swap_boot"}   \* the swap loop
Jobs     == SwapJobs \cup {"stage", "restore"}            \* the final erase

\* The value the destination ends with.  Blocks beyond the source image are
\* not written, so the destination sector stays erased there.
Copied ==
  CASE job = "update_swap"               -> IF sector < usz THEN upd[sector] ELSE Blank
    [] job \in {"boot_update", "stage"}  -> IF sector < bsz THEN boot[sector] ELSE Blank
    [] job \in {"swap_boot", "restore"}  -> swap

Destination ==
  CASE job \in {"update_swap", "stage"}  -> swap
    [] job = "boot_update"               -> upd[sector]
    [] job \in {"swap_boot", "restore"}  -> boot[sector]

SetDestination(c) ==
  /\ swap' = IF job \in {"update_swap", "stage"} THEN c ELSE swap
  /\ upd'  = IF job = "boot_update" THEN [upd EXCEPT ![sector] = c] ELSE upd
  /\ boot' = IF job \in {"swap_boot", "restore"}
             THEN [boot EXCEPT ![sector] = c] ELSE boot

\* The statement after the call.
AfterCopy ==
  CASE job \in SwapJobs -> "flag"
    [] job = "stage"    -> "final_flags"
    [] job = "restore"  -> "testing"

\* Every update that fails is the end.
UpdateFailed_Panic == "panic"

\* wolfBoot_update returns -1 to wolfBoot_start.
UpdateFailed == IF emerg THEN "panic" ELSE "verify"

CopyBegin ==
  /\ pc = "copy"
  /\ \E c \in Between(Destination, Copied) : SetDestination(c)
  /\ pc' = "copying"
  /\ ran' = (ran /\ job # "swap_boot")
  /\ UNCHANGED <<trailers, locals, cuts, errors, top>>

CopyEnd ==
  /\ pc = "copying"
  /\ SetDestination(Copied)
  /\ pc' = AfterCopy
  /\ UNCHANGED <<trailers, locals, ghosts>>

\* The flash driver reports an error: the swap loop gives up, the final erase
\* ignores the result.
CopyFail ==
  /\ pc = "copying"
  /\ errors < MaxErrors
  /\ errors' = errors + 1
  /\ pc' = IF job \in SwapJobs THEN UpdateFailed ELSE AfterCopy
  /\ UNCHANGED <<flash, locals, cuts, top, ran>>

--------------------------------------------------------------------------------
(* wolfBoot_start *)

\* An interrupted final erase is not resumed.
Start_NoResume ==
  /\ pc = "start"
  /\ bs' = BootState
  /\ us' = UpdateState
  /\ resume' = FALSE
  /\ bsz' = Sectors(boot)
  /\ pc' = "dispatch"
  /\ UNCHANGED <<flash, fb, emerg, rollback, sector, usz, job, dl, ghosts>>

\* The trailer states are read before an interrupted final erase is resumed.
Start ==
  /\ pc = "start"
  /\ bs' = BootState
  /\ us' = UpdateState
  /\ resume' = (UpdateState = IMG_STATE_FINAL_FLAGS)
  /\ bsz' = Sectors(boot)
  /\ pc' = IF UpdateState = IMG_STATE_FINAL_FLAGS
           THEN "erase_boot_trailer" ELSE "dispatch"
  /\ UNCHANGED <<flash, fb, emerg, rollback, sector, usz, job, dl, ghosts>>

\* The fall back is made with wolfBoot_update(0).
Dispatch_NoFallback ==
  /\ pc = "dispatch"
  /\ fb' = FALSE
  /\ pc' = IF bs = IMG_STATE_TESTING
           THEN IF us = NoTrailer THEN "mark_updating" ELSE "update"
           ELSE IF us = IMG_STATE_UPDATING THEN "update" ELSE "verify"
  /\ UNCHANGED <<flash, bs, us, emerg, rollback, resume, sector, bsz, usz, job,
                 dl, ghosts>>

\* Fall back from an unconfirmed image, start or resume an update, or boot.
Dispatch ==
  /\ pc = "dispatch"
  /\ fb' = (bs = IMG_STATE_TESTING)
  /\ pc' = IF bs = IMG_STATE_TESTING
           THEN IF us = NoTrailer THEN "mark_updating" ELSE "update"
           ELSE IF us = IMG_STATE_UPDATING THEN "update" ELSE "verify"
  /\ UNCHANGED <<flash, bs, us, emerg, rollback, resume, sector, bsz, usz, job,
                 dl, ghosts>>

MarkUpdating ==
  /\ pc = "mark_updating"
  /\ SetUpdateState(IMG_STATE_UPDATING, "update")
  /\ UNCHANGED <<images, locals, ghosts>>

\* A broken BOOT image is the end.
VerifyBoot_NoEmergency ==
  /\ pc = "verify"
  /\ pc' = IF Verified(boot) THEN "running" ELSE "panic"
  /\ ran' = (ran \/ Verified(boot))
  /\ UNCHANGED <<flash, locals, cuts, errors, top>>

\* Verify the BOOT image; when it is broken try an emergency update, once.
VerifyBoot ==
  /\ pc = "verify"
  /\ \/ /\ Verified(boot)
        /\ pc' = "running"
        /\ ran' = TRUE
        /\ UNCHANGED <<fb, emerg>>
     \/ /\ ~Verified(boot) /\ ~emerg
        /\ pc' = "update"
        /\ fb' = TRUE
        /\ emerg' = TRUE
        /\ UNCHANGED ran
     \/ /\ ~Verified(boot) /\ emerg
        /\ pc' = "panic"
        /\ UNCHANGED <<fb, emerg, ran>>
  /\ UNCHANGED <<flash, bs, us, rollback, resume, sector, bsz, usz, job, dl,
                 cuts, errors, top>>

--------------------------------------------------------------------------------
(* wolfBoot_update: the checks, then the interruptible swap *)

\* The version is not compared.
UpdateAllowed_AnyVersion ==
  /\ Header(upd)
  /\ SectorFlag(0) = SECT_FLAG_NEW => Verified(upd)

\* A resumed update is verified like a new one.
UpdateAllowed_AlwaysVerified ==
  /\ Header(upd)
  /\ Verified(upd)
  /\ fb \/ Version(upd) > Version(boot)

\* A new update (flag of sector 0 still NEW) must verify and, unless a
\* fallback is allowed, be newer than the BOOT image.
UpdateAllowed ==
  /\ Header(upd)
  /\ SectorFlag(0) = SECT_FLAG_NEW =>
       /\ Verified(upd)
       /\ fb \/ Version(upd) > Version(boot)

UpdateReject ==
  /\ pc = "update"
  /\ ~UpdateAllowed
  /\ pc' = UpdateFailed
  /\ UNCHANGED <<flash, locals, ghosts>>

UpdateBegin ==
  /\ pc = "update"
  /\ UpdateAllowed
  /\ rollback' = (BootState = IMG_STATE_TESTING /\ fb
                    /\ Version(boot) >= Version(upd))
  /\ sector' = 0
  /\ bsz' = Sectors(boot)
  /\ usz' = Sectors(upd)
  /\ pc' = "swap"
  /\ UNCHANGED <<flash, bs, us, fb, emerg, resume, job, dl, ghosts>>

\* One leg of the three-way copy of a sector, chosen by its flag.
SwapSector ==
  /\ pc = "swap"
  /\ sector < TotalSize
  /\ SectorFlag(sector) # SECT_FLAG_UPDATED
  /\ job' = CASE SectorFlag(sector) = SECT_FLAG_NEW      -> "update_swap"
              [] SectorFlag(sector) = SECT_FLAG_SWAPPING -> "boot_update"
              [] SectorFlag(sector) = SECT_FLAG_BACKUP   -> "swap_boot"
  /\ pc' = "copy"
  /\ UNCHANGED <<flash, bs, us, fb, emerg, rollback, resume, sector, bsz, usz,
                 dl, ghosts>>

\* The sector is taken for backed up once it is in SWAP.
NextFlag_SkipsBackup ==
  CASE job = "update_swap" -> SECT_FLAG_BACKUP
    [] job = "boot_update" -> SECT_FLAG_BACKUP
    [] job = "swap_boot"   -> SECT_FLAG_UPDATED

\* The last leg is not recorded.
NextFlag_NeverUpdated ==
  CASE job = "update_swap" -> SECT_FLAG_SWAPPING
    [] job = "boot_update" -> SECT_FLAG_BACKUP
    [] job = "swap_boot"   -> SECT_FLAG_BACKUP

NextFlag ==
  CASE job = "update_swap" -> SECT_FLAG_SWAPPING
    [] job = "boot_update" -> SECT_FLAG_BACKUP
    [] job = "swap_boot"   -> SECT_FLAG_UPDATED

\* wolfBoot_set_update_sector_flag
SetSectorFlag ==
  /\ pc = "flag"
  /\ \/ /\ ~umagic
        /\ umagic' = TRUE
        /\ UNCHANGED <<flag, pc>>
     \/ /\ umagic
        /\ flag' = [flag EXCEPT ![sector] = Program(@, NextFlag)]
        /\ pc' = "swap"
        /\ UNCHANGED umagic
  /\ UNCHANGED <<images, bmagic, bstate, ustate, locals, ghosts>>

\* The sizes are not exchanged with the headers.
NextSector_KeepsSizes ==
  /\ pc = "swap"
  /\ sector < TotalSize
  /\ SectorFlag(sector) = SECT_FLAG_UPDATED
  /\ sector' = sector + 1
  /\ UNCHANGED <<flash, pc, bs, us, fb, emerg, rollback, resume, bsz, usz, job, dl,
                 ghosts>>

\* After sector 0 both headers are in place, in exchanged partitions: reopen
\* the images and exchange the sizes.
NextSector ==
  /\ pc = "swap"
  /\ sector < TotalSize
  /\ SectorFlag(sector) = SECT_FLAG_UPDATED
  /\ sector' = sector + 1
  /\ bsz' = IF sector = 0 THEN Sectors(upd) ELSE bsz
  /\ usz' = IF sector = 0 THEN Sectors(boot) ELSE usz
  /\ UNCHANGED <<flash, pc, bs, us, fb, emerg, rollback, resume, job, dl, ghosts>>

SwapDone ==
  /\ pc = "swap"
  /\ sector >= TotalSize
  /\ pc' = "remainder"
  /\ UNCHANGED <<flash, locals, ghosts>>

\* The sector of the trailer is not spared.
EraseRemainder_WholePartition ==
  /\ \/ /\ pc = "remainder"
        /\ sector < N
        /\ boot' = [boot EXCEPT ![sector] = Blank]
        /\ pc' = "remainder_update"
        /\ UNCHANGED <<upd, sector>>
     \/ /\ pc = "remainder_update"
        /\ upd' = [upd EXCEPT ![sector] = Blank]
        /\ sector' = sector + 1
        /\ pc' = "remainder"
        /\ UNCHANGED boot
  /\ UNCHANGED <<swap, trailers, bs, us, fb, emerg, rollback, resume, bsz, usz,
                 job, dl, ghosts>>

\* Erase what is left of both partitions up to the trailer, a sector of BOOT
\* and then the same sector of UPDATE.
EraseRemainder ==
  /\ \/ /\ pc = "remainder"
        /\ sector < N - 1
        /\ boot' = [boot EXCEPT ![sector] = Blank]
        /\ pc' = "remainder_update"
        /\ UNCHANGED <<upd, sector>>
     \/ /\ pc = "remainder_update"
        /\ upd' = [upd EXCEPT ![sector] = Blank]
        /\ sector' = sector + 1
        /\ pc' = "remainder"
        /\ UNCHANGED boot
  /\ UNCHANGED <<swap, trailers, bs, us, fb, emerg, rollback, resume, bsz, usz,
                 job, dl, ghosts>>

--------------------------------------------------------------------------------
(* wolfBoot_swap_and_final_erase *)

FinalErase ==
  /\ pc = "remainder"
  /\ sector >= N - 1
  /\ resume' = FALSE
  /\ bsz' = Sectors(boot)
  /\ sector' = Staging
  /\ job' = "stage"
  /\ pc' = IF UpdateState = IMG_STATE_FINAL_FLAGS
           THEN "erase_boot_trailer" ELSE "copy"
  /\ UNCHANGED <<flash, bs, us, fb, emerg, rollback, usz, dl, ghosts>>

SetFinalFlags ==
  /\ pc = "final_flags"
  /\ SetUpdateState(IMG_STATE_FINAL_FLAGS, "erase_boot_trailer")
  /\ UNCHANGED <<images, locals, ghosts>>

EraseBootTrailer ==
  /\ pc = "erase_boot_trailer"
  /\ bmagic' = FALSE
  /\ bstate' = IMG_STATE_NEW
  /\ sector' = Staging
  /\ job' = "restore"
  /\ pc' = IF Staging < bsz THEN "copy" ELSE "erase_staging"
  /\ UNCHANGED <<images, umagic, ustate, flag, bs, us, fb, emerg, rollback,
                 resume, bsz, usz, dl, ghosts>>

EraseStaging ==
  /\ pc = "erase_staging"
  /\ boot' = [boot EXCEPT ![Staging] = Blank]
  /\ pc' = "testing"
  /\ UNCHANGED <<upd, swap, trailers, locals, ghosts>>

MarkTesting ==
  /\ pc = "testing"
  /\ SetBootState(IMG_STATE_TESTING, "erase_update_trailer")
  /\ UNCHANGED <<images, locals, ghosts>>

EraseUpdateTrailer ==
  /\ pc = "erase_update_trailer"
  /\ ErasedUpdateTrailer
  /\ pc' = IF resume THEN "dispatch"
           ELSE IF rollback THEN "rollback_done" ELSE "verify"
  /\ UNCHANGED <<images, locals, ghosts>>

\* An image that was rolled back to needs no new confirmation.
RollbackDone ==
  /\ pc = "rollback_done"
  /\ SetBootState(IMG_STATE_SUCCESS, "verify")
  /\ UNCHANGED <<images, locals, ghosts>>

--------------------------------------------------------------------------------
(* The application, and the power supply *)

\* The magic is written and the state is not.
Success_MagicOnly ==
  /\ pc = "running"
  /\ Version(boot) \in Confirms
  /\ BootState # IMG_STATE_SUCCESS
  /\ bmagic' = TRUE
  /\ top' = IF bmagic /\ Version(boot) > top THEN Version(boot) ELSE top
  /\ UNCHANGED <<images, bstate, umagic, ustate, flag, pc, locals, cuts, errors,
                 ran>>

\* wolfBoot_success
Success ==
  /\ pc = "running"
  /\ Version(boot) \in Confirms
  /\ BootState # IMG_STATE_SUCCESS
  /\ SetBootState(IMG_STATE_SUCCESS, "running")
  /\ top' = IF bmagic /\ Version(boot) > top THEN Version(boot) ELSE top
  /\ UNCHANGED <<images, locals, cuts, errors, ran>>

\* wolfBoot_update_trigger: erase the trailer sector, then set the state.
Trigger ==
  /\ pc = "running"
  /\ ErasedUpdateTrailer
  /\ pc' = "trigger"
  /\ UNCHANGED <<images, locals, ghosts>>

TriggerState ==
  /\ pc = "trigger"
  /\ SetUpdateState(IMG_STATE_UPDATING, "running")
  /\ UNCHANGED <<images, locals, ghosts>>

\* The application's download of an image into UPDATE.
Download ==
  /\ pc = "running"
  /\ \E v \in Versions :
       /\ dl' = v
       /\ top' = IF BootState = IMG_STATE_TESTING /\ v < top THEN v ELSE top
  /\ sector' = 0
  /\ pc' = IF EraseFirst THEN "app_erase" ELSE "app_write"
  /\ UNCHANGED <<flash, bs, us, fb, emerg, rollback, resume, bsz, usz, job,
                 cuts, errors, ran>>

AppErase ==
  /\ pc = "app_erase"
  /\ sector < N - 1
  /\ \/ upd' = [upd EXCEPT ![sector] = Torn(@)] /\ UNCHANGED sector
     \/ upd' = [upd EXCEPT ![sector] = Blank] /\ sector' = sector + 1
  /\ UNCHANGED <<boot, swap, trailers, pc, bs, us, fb, emerg, rollback, resume,
                 bsz, usz, job, dl, ghosts>>

AppEraseTrailer ==
  /\ pc = "app_erase"
  /\ sector = N - 1
  /\ ErasedUpdateTrailer
  /\ sector' = 0
  /\ pc' = "app_write"
  /\ UNCHANGED <<images, bs, us, fb, emerg, rollback, resume, bsz, usz, job, dl,
                 ghosts>>

AppWrite ==
  /\ pc = "app_write"
  /\ sector < Size[dl]
  /\ \/ /\ \E c \in Between(upd[sector], Whole(dl, sector)) :
             upd' = [upd EXCEPT ![sector] = c]
        /\ UNCHANGED sector
     \/ /\ upd' = [upd EXCEPT ![sector] = Whole(dl, sector)]
        /\ sector' = sector + 1
  /\ UNCHANGED <<boot, swap, trailers, pc, bs, us, fb, emerg, rollback, resume,
                 bsz, usz, job, dl, ghosts>>

\* The download is complete, or given up.
DownloadEnd ==
  /\ pc = "app_write"
  /\ pc' = "running"
  /\ sector' = 0
  /\ UNCHANGED <<flash, bs, us, fb, emerg, rollback, resume, bsz, usz, job, dl,
                 ghosts>>

\* Everything that is not in flash is lost.
Restart ==
  /\ pc' = "start"
  /\ bs' = NoTrailer /\ us' = NoTrailer
  /\ fb' = FALSE /\ emerg' = FALSE /\ rollback' = FALSE /\ resume' = FALSE
  /\ sector' = 0 /\ bsz' = 1 /\ usz' = 1
  /\ job' = "stage"
  /\ UNCHANGED <<flash, dl, errors, top, ran>>

\* A reset while the application runs, whatever it is doing.
Reboot ==
  /\ pc \in AppPcs
  /\ Restart
  /\ UNCHANGED cuts

\* A power cut while the boot loader works.
PowerCut ==
  /\ pc \in BootPcs \ {"start"}
  /\ cuts < MaxCuts
  /\ cuts' = cuts + 1
  /\ Restart

--------------------------------------------------------------------------------
\* The factory state: an acceptable image in BOOT, nothing else programmed.
Init ==
  /\ \E v \in Acceptable :
       /\ boot = [s \in Data |-> IF s < Size[v] THEN Whole(v, s) ELSE Blank]
       /\ top = v
       /\ dl = v
  /\ upd = [s \in Data |-> Blank]
  /\ swap = Blank
  /\ bmagic = FALSE /\ bstate = IMG_STATE_NEW
  /\ umagic = FALSE /\ ustate = IMG_STATE_NEW
  /\ flag = [s \in Data |-> SECT_FLAG_NEW]
  /\ pc = "start"
  /\ bs = NoTrailer /\ us = NoTrailer
  /\ fb = FALSE /\ emerg = FALSE /\ rollback = FALSE /\ resume = FALSE
  /\ sector = 0 /\ bsz = 1 /\ usz = 1
  /\ job = "stage"
  /\ cuts = 0 /\ errors = 0 /\ ran = FALSE

Bootloader ==
  \/ Start \/ Dispatch \/ MarkUpdating \/ VerifyBoot
  \/ UpdateReject \/ UpdateBegin
  \/ SwapSector \/ CopyBegin \/ CopyEnd \/ CopyFail \/ SetSectorFlag
  \/ NextSector \/ SwapDone \/ EraseRemainder
  \/ FinalErase \/ SetFinalFlags \/ EraseBootTrailer \/ EraseStaging
  \/ MarkTesting \/ EraseUpdateTrailer \/ RollbackDone

Application ==
  \/ Success \/ Trigger \/ TriggerState
  \/ Download \/ AppErase \/ AppEraseTrailer \/ AppWrite \/ DownloadEnd
  \/ Reboot

Next == Bootloader \/ Application \/ PowerCut

Spec == Init /\ [][Next]_vars

\* wolfBoot runs until it hands over to the application.
BootSpec == Spec /\ WF_vars(Bootloader)

\* Moreover the device is reset again and again, as a watchdog does to
\* firmware that hangs.
ResetSpec == BootSpec /\ WF_vars(Reboot)

--------------------------------------------------------------------------------
(* Properties *)

\* Every variable stays in its range; the sector being copied is a data sector.
TypeOK ==
  /\ boot \in [Data -> Content] /\ upd \in [Data -> Content]
  /\ swap \in Content
  /\ bmagic \in BOOLEAN /\ bstate \in ImgStates
  /\ umagic \in BOOLEAN /\ ustate \in ImgStates
  /\ flag \in [Data -> SectFlags]
  /\ pc \in BootPcs \cup AppPcs
  /\ bs \in ImgStates \cup {NoTrailer} /\ us \in ImgStates \cup {NoTrailer}
  /\ fb \in BOOLEAN /\ emerg \in BOOLEAN /\ rollback \in BOOLEAN
  /\ resume \in BOOLEAN /\ ran \in BOOLEAN
  /\ sector \in 0 .. N - 1
  /\ pc \in {"copy", "copying", "flag", "remainder_update"} => sector \in Data
  /\ bsz \in 1 .. N - 1 /\ usz \in 1 .. N - 1
  /\ job \in Jobs
  /\ pc = "flag" => job \in SwapJobs
  /\ dl \in Versions /\ top \in Versions
  /\ cuts \in 0 .. MaxCuts /\ errors \in 0 .. MaxErrors

\* Wherever power fails, and whatever an application does that erases UPDATE
\* before a download (EraseFirst), wolfBoot_start finds an image to boot: it
\* never reaches wolfBoot_panic.  No copy fails here, and the erase of a trailer
\* is one step.
NoPanic == pc # "panic"

\* When copies fail it may stop, but no single fault is enough: it takes a
\* failing copy and a power cut, or two failing copies.  Unless two copies failed
\* there really is "no boot option available", neither partition holds a valid
\* image.  The second failing copy can stop a device that has one: a copy that
\* fails in the emergency update ends it, and the one in the final erase is not
\* noticed.
PanicJustified ==
  pc = "panic" =>
    /\ cuts + errors >= 2
    /\ errors <= 1 => ~Verified(boot) /\ ~Verified(upd)

\* An application that runs is at least as new as every image that was ever
\* confirmed: neither a roll-back nor an update replaces confirmed firmware by
\* an older one.  A roll-back compares no versions, so an image on trial that
\* downloads an older image, and is then reset, is replaced by that one: this
\* is the only way below a confirmed version.
AntiRollback == pc = "running" => Version(boot) >= top

\* The comment on IMG_STATE_FINAL_FLAGS: the update state is NEW or UPDATING
\* (or absent) when the application boots.
FinalFlagsCleared ==
  pc = "running" =>
    UpdateState \in {NoTrailer, IMG_STATE_NEW, IMG_STATE_UPDATING}

\* The inductive form: FINAL_FLAGS is only ever set from the end of a swap to
\* the end of the final erase, or when the boot that resumes it begins.
FinalFlagsInv ==
  /\ ustate \in {IMG_STATE_NEW, IMG_STATE_UPDATING, IMG_STATE_FINAL_FLAGS}
  /\ ustate = IMG_STATE_FINAL_FLAGS =>
       /\ umagic
       /\ \/ pc \in {"start", "erase_boot_trailer", "erase_staging", "testing",
                    "erase_update_trailer"}
          \/ pc \in {"copy", "copying"} /\ job = "restore"

\* The sector flags say that a swap has begun and has not been completed.
SwapInProgress == SectorFlag(0) # SECT_FLAG_NEW

\* The one state of a swap that wolfBoot_update does not resume: the copy of
\* BOOT's first sector over UPDATE's was interrupted and left no header there.
HeaderLost == SectorFlag(0) = SECT_FLAG_SWAPPING /\ ~Header(upd)

\* A swap that was interrupted is picked up again before an application runs,
\* unless the header of UPDATE is lost; BOOT is untouched then.
SwapResumedOrLost == pc = "running" => (~SwapInProgress \/ HeaderLost)

\* From the first flag to the final erase, across power cuts, no sector of
\* either image is ever without a complete copy: it is where the flags say.
Intact(p, s, v) == s < Size[v] => p[s] = Whole(v, s)
BothImagesKept ==
  (SwapInProgress /\ UpdateState # IMG_STATE_FINAL_FLAGS /\ ~HeaderLost) =>
    \E o, n \in Acceptable : \A s \in Data :
      CASE flag[s] = SECT_FLAG_NEW ->
             Intact(boot, s, o) /\ Intact(upd, s, n)
        [] flag[s] = SECT_FLAG_SWAPPING ->
             Intact(boot, s, o) /\ (s < Size[n] => swap = Whole(n, s))
        [] flag[s] = SECT_FLAG_BACKUP ->
             Intact(upd, s, o) /\ (s < Size[n] => swap = Whole(n, s))
        [] flag[s] = SECT_FLAG_UPDATED ->
             Intact(upd, s, o) /\ Intact(boot, s, n)

\* An image in state TESTING is started at most once: when it is started again
\* UPDATE holds no valid image to roll back to.
TestedOnce ==
  [][(pc = "verify" /\ pc' = "running" /\ BootState = IMG_STATE_TESTING /\ ran)
       => ~Verified(upd)]_vars

\* Every boot ends, in the application or in wolfBoot_panic.
BootCompletes == pc = "start" ~> pc \in {"running", "panic"}

\* An image on trial that never confirms itself runs, and UPDATE holds a valid
\* older image.
TrialRuns(v) ==
  /\ pc = "running" /\ Version(boot) = v /\ BootState = IMG_STATE_TESTING
  /\ Verified(upd) /\ Version(upd) < v

\* It has lost that image, or downloads over it.
FallbackGivenUp(v) ==
  \/ pc = "running" /\ ~(Verified(upd) /\ Version(upd) < v)
  \/ pc \in {"app_erase", "app_write"}

\* Wherever power fails, firmware that never confirms itself is replaced in BOOT
\* by the whole of the older image, unless that image is lost or the firmware
\* itself downloads over it.  That the older image is then started is not said:
\* see RolledBack.
RollbackHappens ==
  \A v \in Versions \ Confirms :
    TrialRuns(v) ~> \/ pc \in {"start", "running"} /\ Verified(boot) /\ Version(boot) < v
                    \/ FallbackGivenUp(v)

\* The documentation: failing to confirm triggers a roll-back, which installs the
\* firmware before the update.  So under the same conditions the older image
\* comes to run.
RolledBack ==
  \A v \in Versions \ Confirms :
    TrialRuns(v) ~> (pc = "running" /\ Version(boot) < v) \/ FallbackGivenUp(v)
================================================================================
