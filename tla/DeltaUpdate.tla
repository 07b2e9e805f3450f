------------------------------ MODULE DeltaUpdate ------------------------------
(***************************************************************************)
(* The update of UpdateFlash when the UPDATE partition holds a delta       *)
(* bundle: two patches, from the base image to the new one and back, that  *)
(* are applied to the BOOT image in place, sector by sector, through SWAP. *)
(*                                                                         *)
(* src/src/update_flash.c   wolfBoot_update (the delta branch),            *)
(*                          wolfBoot_delta_update                          *)
(* src/src/delta.c          module Delta                                   *)
(*                                                                         *)
(* The rest of the boot loader, the trailers, the application and the      *)
(* power supply are those of UpdateFlash.  A sector of the bundle in       *)
(* UPDATE is written Whole(Target, s), as the bundle carries the version   *)
(* of the image it makes.                                                  *)
(***************************************************************************)
EXTENDS UpdateFlash, Delta, Sequences

CONSTANTS
  Base, Target,  \* the versions of a base image and of the new one; any other
                 \* version is a bundle for a base that is not on the device
  Pairs          \* the bytes of the two images, [{Base, Target} -> Seq];
                 \* the first byte stands for the manifest header

ASSUME DeltaAssumption ==
  /\ Base \in Versions /\ Target \in Versions /\ Base < Target
  /\ SectorSize % BlockSize = 0 /\ BlockSize >= BLOCK_HDR_SIZE
  /\ \A i \in Pairs :
       /\ i[Base][1] # i[Target][1]
       /\ \A v \in {Base, Target} :
            Size[v] = (Len(i[v]) + SectorSize - 1) \div SectorSize

VARIABLES
  writeonce,     \* NVM_FLASH_WRITEONCE: trailer bytes can be set to any value
  img, patch,    \* the images and the two patches, by target; constant
  inverse,       \* arguments of wolfBoot_delta_update
  again,         \*   (again: its argument resume)
  ctx,           \* WB_PATCH_CTX
  patched,       \* sectors whose part of the patch has been read
  ssz,           \* ctx.src_size
  lost,          \* an interrupted patch was resumed in the other direction
  short          \* wb_patch returned -1 (lost, short: history)

setup     == <<writeonce, img, patch>>
engine    == <<inverse, again, ctx, patched, ssz>>
deltaVars == <<setup, engine, lost, short>>
allVars   == <<vars, deltaVars>>

DeltaPcs == {"mark_new", "delta", "patch", "trailer_copy"}
Goal     == IF inverse THEN Base ELSE Target

--------------------------------------------------------------------------------
(* The bytes of the sectors *)

Erased == 255
Padded(s) == [i \in 1 .. SectorSize |-> IF i <= Len(s) THEN s[i] ELSE Erased]

SectorBytes(c) ==
  [i \in 1 .. SectorSize |->
     IF c # Blank /\ c.sec * SectorSize + i <= Len(img[c.ver]) /\ (c.whole \/ i = 1)
     THEN img[c.ver][c.sec * SectorSize + i] ELSE Erased]

BootBytes ==
  [i \in 1 .. N * SectorSize |->
     LET s == (i - 1) \div SectorSize
     IN  IF s \in Data THEN SectorBytes(boot[s])[((i - 1) % SectorSize) + 1]
         ELSE Erased]

\* What `bytes`, written as sector s, are: part of an image, the header of one
\* with other data behind it, or nothing of use.  A sector that is the same in
\* both images is taken for one of the image whose header is in BOOT.
Named(bytes, s) ==
  LET whole  == {v \in {Base, Target} :
                   s < Size[v] /\ SectorBytes(Whole(v, s)) = Padded(bytes)}
      header == {v \in {Base, Target} :
                   s = 0 /\ bytes # <<>> /\ bytes[1] = img[v][1]}
  IN  IF Version(boot) \in whole THEN Whole(Version(boot), s)
      ELSE IF whole # {} THEN Whole(CHOOSE v \in whole : TRUE, s)
      ELSE IF header # {} THEN Torn(Whole(CHOOSE v \in header : TRUE, 0))
      ELSE Blank

--------------------------------------------------------------------------------
(* wolfBoot_update: the direction of the patch *)

\* The patch is resumed: it has touched a sector, or left BOOT without header.
Resumed == SectorFlag(0) # SECT_FLAG_NEW \/ Version(boot) = 0

\* An image that is not confirmed is as new as the bundle it was made by.
PingPong == ~Resumed /\ fb /\ Version(boot) = Version(upd)

\* The state of UPDATE is not consulted.
Inverse_NoState ==
  IF Resumed /\ umagic THEN Version(boot) < Version(upd)
  ELSE Version(boot) > Version(upd) \/ PingPong

\* Resumed: state UPDATING means forward, any other state means back if the
\* base's header is in place or none is.
Inverse ==
  IF Resumed /\ umagic
  THEN ustate # IMG_STATE_UPDATING /\ Version(boot) < Version(upd)
  ELSE Version(boot) > Version(upd) \/ PingPong

\* rollback_needed is not used in the delta branch.
DeltaBegin ==
  /\ pc = "update"
  /\ UpdateAllowed
  /\ inverse' = Inverse
  /\ again' = Resumed
  /\ lost' = (lost \/ (Resumed /\ Inverse # inverse))
  /\ rollback' = FALSE
  /\ pc' = IF PingPong THEN "mark_new" ELSE "delta"
  /\ UNCHANGED <<flash, bs, us, fb, emerg, resume, sector, bsz, usz, job, dl,
                 ghosts, setup, ctx, patched, ssz, short>>

\* wolfBoot_set_partition_state(PART_UPDATE, IMG_STATE_NEW): no effect on
\* flash that only clears bits.
MarkNew ==
  /\ pc = "mark_new"
  /\ \/ /\ ~(writeonce /\ umagic)
        /\ SetUpdateState(IMG_STATE_NEW, "delta")
     \/ /\ writeonce /\ umagic
        /\ ustate' = IMG_STATE_NEW
        /\ pc' = "delta"
        /\ UNCHANGED <<umagic, flag, bmagic, bstate>>
  /\ UNCHANGED <<images, locals, ghosts, deltaVars>>

--------------------------------------------------------------------------------
(* wolfBoot_delta_update *)

\* wolfBoot_get_diffbase_version
BaseVersion == IF Version(upd) = Target THEN Base ELSE 0

\* The base is checked when the patch is resumed, too.
DeltaAllowed_AlwaysBase == Version(boot) = IF inverse THEN Target ELSE BaseVersion

\* The base hash of the bundle is that of its base image, and a version names
\* an image, so the check of the hash is the check of the version.
DeltaAllowed ==
  LET cur == Version(boot)
  IN  \/ again
      \/ inverse /\ cur = Version(upd) /\ BaseVersion <= cur
      \/ inverse /\ cur = BaseVersion /\ Version(upd) >= cur
      \/ ~inverse /\ cur = BaseVersion

DeltaReject ==
  /\ pc = "delta"
  /\ ~DeltaAllowed
  /\ pc' = UpdateFailed
  /\ UNCHANGED <<flash, locals, ghosts, deltaVars>>

\* Without a header in BOOT a single sector is taken.
DeltaStart_OneSector ==
  /\ pc = "delta"
  /\ DeltaAllowed
  /\ bsz' = Sectors(boot)
  /\ usz' = Sectors(upd)
  /\ ssz' = IF Header(boot) THEN Len(img[Version(boot)]) ELSE SectorSize
  /\ ctx' = wb_patch_init
  /\ patched' = 0
  /\ sector' = 0
  /\ pc' = "swap"
  /\ UNCHANGED <<flash, bs, us, fb, emerg, rollback, resume, job, dl, ghosts,
                 setup, inverse, again, lost, short>>

\* Without a header in BOOT the whole partition is taken, trailer included.
DeltaStart ==
  /\ pc = "delta"
  /\ DeltaAllowed
  /\ bsz' = IF Header(boot) THEN Sectors(boot) ELSE N
  /\ usz' = Sectors(upd)
  /\ ssz' = IF Header(boot) THEN Len(img[Version(boot)]) ELSE N * SectorSize
  /\ ctx' = wb_patch_init
  /\ patched' = 0
  /\ sector' = 0
  /\ pc' = "swap"
  /\ UNCHANGED <<flash, bs, us, fb, emerg, rollback, resume, job, dl, ghosts,
                 setup, inverse, again, lost, short>>

\* A sector not patched yet: erase SWAP.
PatchErase ==
  /\ pc = "swap"
  /\ sector < TotalSize /\ sector \in Data
  /\ patched = sector /\ SectorFlag(sector) = SECT_FLAG_NEW
  /\ swap' = Blank
  /\ pc' = "patch"
  /\ UNCHANGED <<boot, upd, trailers, locals, ghosts, deltaVars>>

\* The next sector of the patched image, made from what BOOT holds now.
NextPatched == PatchedSector(BootBytes, ssz, patch[Goal], ctx)

PatchSector ==
  /\ pc = "patch"
  /\ LET r == NextPatched IN
     /\ swap' = IF r.ok THEN Named(r.out, sector) ELSE Blank
     /\ ctx' = r.ctx
     /\ short' = (short \/ ~r.ok)
     /\ pc' = IF r.ok THEN "flag" ELSE UpdateFailed
  /\ patched' = sector + 1
  /\ job' = "update_swap"
  /\ UNCHANGED <<boot, upd, trailers, bs, us, fb, emerg, rollback, resume,
                 sector, bsz, usz, dl, ghosts, setup, inverse, again, ssz, lost>>

\* The patch is not read for a sector that is already patched.
Consume_Nothing ==
  /\ pc = "swap"
  /\ sector < TotalSize /\ sector \in Data
  /\ patched = sector /\ SectorFlag(sector) # SECT_FLAG_NEW
  /\ patched' = sector + 1
  /\ UNCHANGED <<flash, pc, locals, ghosts, setup, inverse, again, ctx, ssz, lost,
                 short>>

\* A sector that was patched before the power cut: its part of the patch is
\* read again, for the position, and thrown away.
Consume ==
  /\ pc = "swap"
  /\ sector < TotalSize /\ sector \in Data
  /\ patched = sector /\ SectorFlag(sector) # SECT_FLAG_NEW
  /\ LET r == NextPatched IN
     /\ ctx' = r.ctx
     /\ short' = (short \/ ~r.ok)
     /\ pc' = IF r.ok THEN "swap" ELSE UpdateFailed
  /\ patched' = sector + 1
  /\ UNCHANGED <<flash, locals, ghosts, setup, inverse, again, ssz, lost>>

CopySwap ==
  /\ pc = "swap"
  /\ patched = sector + 1 /\ SectorFlag(sector) = SECT_FLAG_SWAPPING
  /\ job' = "swap_boot"
  /\ pc' = "copy"
  /\ UNCHANGED <<flash, bs, us, fb, emerg, rollback, resume, sector, bsz, usz,
                 dl, ghosts, deltaVars>>

\* After sector 0 the size of the image that is being made is known.  It is that
\* of a valid header, so the code's checks of total_size pass.
DeltaNextSector ==
  /\ pc = "swap"
  /\ patched = sector + 1 /\ SectorFlag(sector) = SECT_FLAG_UPDATED
  /\ sector' = sector + 1
  /\ bsz' = IF sector = 0 /\ Sectors(boot) > bsz THEN Sectors(boot) ELSE bsz
  /\ UNCHANGED <<flash, pc, bs, us, fb, emerg, rollback, resume, usz, job, dl,
                 ghosts, deltaVars>>

\* The loop reaches the trailer of BOOT when it began without a header: the
\* patch has no more data, and the sector is erased like any other.  The flag
\* of that sector is set to SWAPPING and is never read again before the trailer
\* of UPDATE is erased; it is left out.
TrailerSector ==
  /\ \/ /\ pc = "swap"
        /\ sector < TotalSize /\ sector = N - 1
        /\ swap' = Blank
        /\ pc' = "trailer_copy"
        /\ UNCHANGED <<bmagic, bstate>>
     \/ /\ pc = "trailer_copy"
        /\ bmagic' = FALSE
        /\ bstate' = IMG_STATE_NEW
        /\ pc' = "remainder"
        /\ UNCHANGED swap
  /\ UNCHANGED <<boot, upd, umagic, ustate, flag, locals, ghosts, deltaVars>>

\* The sector of the trailer is not spared.
DeltaRemainder_WholePartition ==
  /\ \/ pc = "swap" /\ sector >= TotalSize
     \/ pc = "remainder"
  /\ sector < N
  /\ boot' = [boot EXCEPT ![sector] = Blank]
  /\ sector' = sector + 1
  /\ pc' = "remainder"
  /\ UNCHANGED <<upd, swap, trailers, bs, us, fb, emerg, rollback, resume, bsz,
                 usz, job, dl, ghosts, deltaVars>>

\* Erase what is left of BOOT, up to the trailer.
DeltaRemainder ==
  /\ \/ pc = "swap" /\ sector >= TotalSize
     \/ pc = "remainder"
  /\ \/ /\ sector < N - 1
        /\ boot' = [boot EXCEPT ![sector] = Blank]
        /\ sector' = sector + 1
        /\ pc' = "remainder"
     \/ /\ pc = "swap" /\ sector = N - 1
        /\ pc' = "remainder"
        /\ UNCHANGED <<boot, sector>>
  /\ UNCHANGED <<upd, swap, trailers, bs, us, fb, emerg, rollback, resume, bsz,
                 usz, job, dl, ghosts, deltaVars>>

DeltaPowerCut ==
  /\ pc \in (BootPcs \cup DeltaPcs) \ {"start"}
  /\ cuts < MaxCuts
  /\ cuts' = cuts + 1
  /\ Restart
  /\ again' = FALSE /\ ctx' = wb_patch_init /\ patched' = 0 /\ ssz' = 0
  /\ UNCHANGED <<setup, inverse, lost, short>>

--------------------------------------------------------------------------------
\* The factory state: the base image in BOOT.
DeltaInit ==
  /\ Init
  /\ Version(boot) = Base
  /\ writeonce \in BOOLEAN
  /\ img \in Pairs
  /\ patch = [v \in {Base, Target} |->
                IF v = Target THEN wb_diff(img[Base], img[Target])
                              ELSE wb_diff(img[Target], img[Base])]
  /\ inverse = FALSE /\ again = FALSE
  /\ ctx = wb_patch_init /\ patched = 0 /\ ssz = 0
  /\ lost = FALSE /\ short = FALSE

\* The actions of UpdateFlash that a delta update shares.
SharedBootloader ==
  /\ \/ Start \/ Dispatch \/ MarkUpdating \/ VerifyBoot \/ UpdateReject
     \/ CopyBegin \/ CopyEnd \/ SetSectorFlag
     \/ FinalErase \/ SetFinalFlags \/ EraseBootTrailer \/ EraseStaging
     \/ MarkTesting \/ EraseUpdateTrailer
  /\ UNCHANGED deltaVars

DeltaBootloader ==
  \/ SharedBootloader
  \/ DeltaBegin \/ MarkNew \/ DeltaReject \/ DeltaStart
  \/ PatchErase \/ PatchSector \/ Consume \/ CopySwap \/ DeltaNextSector
  \/ TrailerSector \/ DeltaRemainder

\* The application downloads bundles, and nothing else, into UPDATE.
DeltaApplication ==
  /\ \/ Success \/ Trigger \/ TriggerState
     \/ (Download /\ dl' # Base)
     \/ AppErase \/ AppEraseTrailer \/ AppWrite \/ DownloadEnd
     \/ Reboot
  /\ UNCHANGED deltaVars

DeltaNext == DeltaBootloader \/ DeltaApplication \/ DeltaPowerCut

DeltaSpec == DeltaInit /\ [][DeltaNext]_allVars

--------------------------------------------------------------------------------
(* Properties *)

\* Every variable stays in its range; the patch is never read past its end.
DeltaTypeOK ==
  /\ boot \in [Data -> Content] /\ swap \in Content
  /\ pc \in BootPcs \cup AppPcs \cup DeltaPcs
  /\ sector \in 0 .. N - 1
  /\ bsz \in 1 .. N /\ usz \in 1 .. N
  /\ ssz \in 0 .. N * SectorSize
  /\ pc \in {"swap", "patch", "flag"} =>
       ctx \in [p_off : 0 .. Len(patch[Goal]), blk_off : 0 .. ssz, blk_sz : 0 .. ssz]
  /\ (pc \in {"flag", "copy", "copying"} /\ job \in SwapJobs) =>
       patched = sector + 1

\* What is written to SWAP for a sector is that sector of the image the patch
\* makes, although BOOT, from which it is made, is old in one part and new in
\* the other, and although power may have failed any number of times since the
\* patch was begun.
PatchExact ==
  (pc = "flag" /\ job = "update_swap" /\ ~lost) =>
    swap = IF sector < Size[Goal] THEN Whole(Goal, sector) ELSE Blank

\* wolfBoot_panic is reached only after a patch was resumed in the wrong
\* direction or failed.
DeltaPanicJustified == pc = "panic" => (lost \/ short)

\* The direction is lost only in a fallback: an update that the application
\* of a confirmed image triggered is resumed as an update.
UpdateKept == [][lost' # lost => fb]_allVars

\* A patch fails only when it is resumed, and makes the smaller image of the
\* two: the header in BOOT, from which the size of the base is read, is then
\* already the new one.
FitsUnlessShrinking ==
  [][short' # short =>
       /\ again
       /\ \A v \in {Base, Target} : Len(img[v]) >= Len(img[Goal])]_allVars

\* wolfBoot_update, on resuming: "use the update partition state, updating
\* means regular, new means reverting".  The patch goes on as it began.
DirectionKept == ~lost

\* The patch of a bundle that was made for the base image can be applied, in
\* one go or resumed.
PatchApplies == ~short
================================================================================
