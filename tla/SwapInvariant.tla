---------------------------- MODULE SwapInvariant ----------------------------
(***************************************************************************)
(* The inductive invariants behind the safety of the swap: what the        *)
(* images, the trailers and the control state have to do with each other,  *)
(* at every step and after every power cut.  SwapSafe is about the images, *)
(* VersionSafe and TrialSafe are about which of them may be in BOOT.  They *)
(* hold when no copy fails (MaxErrors = 0) and the application erases      *)
(* UPDATE before a download (EraseFirst).                                  *)
(***************************************************************************)
EXTENDS UpdateFlash

\* Partition p holds all of image v.
Holds(p, v) == \A s \in Data : Intact(p, s, v)

(* Phases *)

\* The swap loop.
Looping ==
  \/ pc = "swap"
  \/ pc \in {"copy", "copying", "flag"} /\ job \in SwapJobs

\* After the loop, before FINAL_FLAGS is set.
Staged  == pc \in {"copy", "copying"} /\ job = "stage"
Swapped == pc \in {"remainder", "remainder_update", "final_flags"} \/ Staged

\* The final erase.
Restoring == pc \in {"copy", "copying"} /\ job = "restore"
Finishing ==
  \/ pc \in {"erase_boot_trailer", "erase_staging", "testing",
             "erase_update_trailer"}
  \/ Restoring

--------------------------------------------------------------------------------
(* Trailers and control *)

\* Sectors are exchanged in order, one at a time, and an absent trailer hides
\* nothing.
FlagsInv ==
  /\ ~umagic => /\ ustate = IMG_STATE_NEW
                /\ \A s \in Data : flag[s] = SECT_FLAG_NEW
  /\ \A s, t \in Data :
       s < t /\ flag[t] # SECT_FLAG_NEW => flag[s] = SECT_FLAG_UPDATED

\* The next boot will call wolfBoot_update.
Requested ==
  \/ ustate = IMG_STATE_UPDATING
  \/ bmagic /\ bstate = IMG_STATE_TESTING

\* What the program relies on of the trailers is so where it relies on it; the
\* states read before a resumed final erase included.
ControlInv ==
  /\ ~emerg /\ pc # "panic"
  /\ Finishing => ustate = IMG_STATE_FINAL_FLAGS
  /\ resume => us = IMG_STATE_FINAL_FLAGS
  /\ pc = "dispatch" =>
       /\ bs = IMG_STATE_TESTING => bmagic /\ bstate = IMG_STATE_TESTING
       /\ us = IMG_STATE_UPDATING => ustate = IMG_STATE_UPDATING
  /\ pc = "mark_updating" => bmagic /\ bstate = IMG_STATE_TESTING
  /\ pc = "update" \/ Looping \/ Swapped => Requested
  /\ Restoring \/ pc \in {"erase_staging", "testing"} => bstate = IMG_STATE_NEW
  /\ pc = "erase_update_trailer" => bmagic /\ bstate = IMG_STATE_TESTING
  /\ pc \in {"trigger", "app_write"} => flag[0] = SECT_FLAG_NEW

--------------------------------------------------------------------------------
(* Images: o is the one that is or was in BOOT, n the one that replaces it *)

\* No swap has begun.
IdleInv(o, n) ==
  flag[0] = SECT_FLAG_NEW =>
    /\ Holds(boot, o)
    /\ Looping => Holds(upd, n) /\ usz = Size[n]

\* The swap was given up because the header of UPDATE is lost.
LostInv(o) == HeaderLost /\ ~Looping => Holds(boot, o)

\* A swap is under way or will be resumed; each flag says where the two
\* versions of its sector are.
SwapInv(o, n) ==
  /\ flag[0] # SECT_FLAG_NEW /\ ustate # IMG_STATE_FINAL_FLAGS
  /\ ~HeaderLost \/ Looping
  =>
  /\ \/ Looping \/ Swapped
     \/ pc \in {"start", "dispatch", "mark_updating", "update"}
  /\ Requested
  /\ pc = "dispatch" => bs = IMG_STATE_TESTING \/ us = IMG_STATE_UPDATING
  /\ \A s \in Data :
       /\ flag[s] = SECT_FLAG_NEW => Intact(boot, s, o) /\ Intact(upd, s, n)
       /\ flag[s] = SECT_FLAG_SWAPPING =>
            Intact(boot, s, o) /\ (s < Size[n] => swap = Whole(n, s))
       /\ flag[s] = SECT_FLAG_BACKUP =>
            Intact(upd, s, o) /\ (s < Size[n] => swap = Whole(n, s))
       /\ flag[s] = SECT_FLAG_UPDATED =>
            Intact(upd, s, o) /\ Intact(boot, s, n)
       /\ flag[s] # SECT_FLAG_NEW => s < Size[o] \/ s < Size[n]

\* The loop: sizes, counter and copy agree with the flags.
LoopInv(o, n) ==
  Looping =>
    /\ \A s \in Data : s < sector => flag[s] = SECT_FLAG_UPDATED
    /\ sector > 0 => bsz = Size[o] /\ usz = Size[n]
    /\ pc \in {"copy", "copying", "flag"} =>
         /\ sector < Size[o] \/ sector < Size[n]
         /\ job = "update_swap" => flag[sector] = SECT_FLAG_NEW
         /\ job = "boot_update" => flag[sector] = SECT_FLAG_SWAPPING
         /\ job = "swap_boot"   => flag[sector] = SECT_FLAG_BACKUP
    /\ pc = "flag" =>
         /\ job = "update_swap" => (sector < Size[n] => swap = Whole(n, sector))
         /\ job = "boot_update" => Intact(upd, sector, o)
         /\ job = "swap_boot"   => Intact(boot, sector, n)

\* After the loop: what is erased is beyond both images, and the staging
\* sector is saved before FINAL_FLAGS is set.
SwappedInv(o, n) ==
  /\ Swapped =>
       \A s \in Data : s < Size[o] \/ s < Size[n] => flag[s] = SECT_FLAG_UPDATED
  /\ pc \in {"remainder", "remainder_update"} =>
       sector >= Size[o] /\ sector >= Size[n]
  /\ Staged \/ pc = "final_flags" => bsz = Size[n]
  /\ Staged => sector = Staging
  /\ pc = "final_flags" => (Staging < Size[n] => swap = Whole(n, Staging))

\* The final erase: only the staging sector of BOOT may be missing, and SWAP
\* has it.
FinalInv(n) ==
  ustate = IMG_STATE_FINAL_FLAGS =>
    /\ flag[0] = SECT_FLAG_UPDATED
    /\ \A s \in Data : s # Staging => Intact(boot, s, n)
    /\ Staging < Size[n] => swap = Whole(n, Staging)
    /\ pc = "erase_boot_trailer" => bsz = Size[n]
    /\ Restoring => sector = Staging /\ Staging < Size[n]
    /\ pc = "erase_staging" => Staging >= Size[n]
    /\ pc \in {"testing", "erase_update_trailer"} => Intact(boot, Staging, n)

ImagesInv(o, n) ==
  /\ IdleInv(o, n) /\ LostInv(o) /\ SwapInv(o, n) /\ LoopInv(o, n)
  /\ SwappedInv(o, n) /\ FinalInv(n)

SwapSafeFor(o, n) == FlagsInv /\ ControlInv /\ ImagesInv(o, n)

\* At every step of wolfBoot_update and wolfBoot_swap_and_final_erase, and in
\* every state a power cut leaves behind, flash holds all of an image that can
\* be booted, and the flags, the trailer states and the locals of the program
\* say where its sectors are.
SwapSafe == \E o, n \in Acceptable : SwapSafeFor(o, n)

--------------------------------------------------------------------------------
(* Versions *)

\* A sector that may become the first one of BOOT is not of an older image.
NotOlder(c) == c # Blank => c.ver >= top

\* The next boot may fall back.
OnTrial == bmagic /\ bstate = IMG_STATE_TESTING

\* The first sector of UPDATE is, or may become, part of a swap that does not
\* compare versions any more.
UpdateCounts ==
  \/ OnTrial \/ Looping \/ Swapped \/ ustate = IMG_STATE_FINAL_FLAGS
  \/ flag[0] # SECT_FLAG_NEW /\ ~HeaderLost

\* SWAP holds the first sector of an image.
SwapCounts ==
  \/ flag[0] \in {SECT_FLAG_SWAPPING, SECT_FLAG_BACKUP} /\ (~HeaderLost \/ Looping)
  \/ pc = "flag" /\ sector = 0
  \/ Staging = 0 /\ (pc = "final_flags" \/ ustate = IMG_STATE_FINAL_FLAGS)

\* Wherever a header is from which a later step, of this boot or of the one
\* after a power cut, makes the header of BOOT, it is not that of an image older
\* than a confirmed one.
VersionSafe ==
  /\ NotOlder(boot[0])
  /\ UpdateCounts => NotOlder(upd[0])
  /\ SwapCounts => NotOlder(swap)
  /\ ~bmagic => bstate = IMG_STATE_NEW
  /\ pc \in {"mark_updating", "update"} /\ fb => OnTrial
  /\ pc \in {"app_erase", "app_write"} /\ OnTrial => dl >= top

--------------------------------------------------------------------------------
(* Trials *)

\* An image that has been started is not the one a swap has put into BOOT; when
\* it is on trial the next boot reads that state, allows a fall back, and gets
\* to the verification of BOOT only when there is nothing to fall back to.
TrialSafe ==
  /\ flag[0] = SECT_FLAG_UPDATED => ~ran
  /\ pc \in {"copying", "flag"} /\ job = "swap_boot" => ~ran
  /\ OnTrial /\ ran =>
       /\ pc = "dispatch" => bs = IMG_STATE_TESTING
       /\ pc \in {"mark_updating", "update"} => fb
       /\ pc = "verify" => ~Verified(upd)
==============================================================================
