----------------------------- MODULE SwapPhaseProofs -----------------------------
(***************************************************************************)
(* What the swap invariant says in each phase, and that the steps of       *)
(* wolfBoot_start preserve it.                                             *)
(***************************************************************************)
EXTENDS SwapInvariant, UpdateFlashProofs

USE DEF IMG_STATE_NEW, IMG_STATE_UPDATING, IMG_STATE_FINAL_FLAGS,
        IMG_STATE_TESTING, IMG_STATE_SUCCESS, NoTrailer,
        SECT_FLAG_NEW, SECT_FLAG_SWAPPING, SECT_FLAG_BACKUP, SECT_FLAG_UPDATED,
        images, trailers, flash, locals, ghosts

(* Images and partitions *)

\* A sector of an image is not blank and names its image and its place.
LEMMA WholeFacts ==
  ASSUME NEW v \in Versions, NEW s \in Data
  PROVE  /\ Whole(v, s) # Blank
         /\ Whole(v, s).ver = v /\ Whole(v, s).sec = s
<1>1. Whole(v, s) \in [ver : Versions, sec : Data, whole : BOOLEAN]
  BY DEF Whole
<1>. QED BY <1>1, ConstantsAssumption, Zenon DEF Whole

\* Sector 0 and the staging sector hold data; an image fits in a partition.
LEMMA SizeFacts ==
  /\ 0 \in Data /\ Staging \in Data
  /\ \A v \in Acceptable : v \in Versions /\ Size[v] \in 1 .. N - 1
BY ConstantsAssumption DEF Data, Staging

\* Where the first sector of v is, v's header and size are read.
LEMMA HeaderIs ==
  ASSUME NEW v \in Acceptable, NEW p, Intact(p, 0, v)
  PROVE  Header(p) /\ Sectors(p) = Size[v] /\ p[0].ver = v
<1>1. p[0] = Whole(v, 0)
  BY SizeFacts DEF Intact
<1>. QED BY <1>1, SizeFacts, WholeFacts DEF Header, Sectors

\* A partition that holds an acceptable image verifies.
LEMMA HoldsVerified ==
  ASSUME NEW v \in Acceptable, NEW p, Holds(p, v)
  PROVE  Verified(p)
<1>1. Header(p) /\ p[0].ver = v
  BY HeaderIs, SizeFacts DEF Holds
<1>2. \A s \in 0 .. Size[v] - 1 : s \in Data /\ s < Size[v]
  BY SizeFacts, ConstantsAssumption DEF Data
<1>. QED BY <1>1, <1>2 DEF Verified, Holds, Intact

\* A partition that verifies holds an acceptable image.
LEMMA VerifiedHolds ==
  ASSUME NEW p, Verified(p)
  PROVE  \E v \in Acceptable : Holds(p, v) /\ Sectors(p) = Size[v]
<1>1. p[0].ver \in Acceptable /\ Sectors(p) = Size[p[0].ver]
  BY DEF Verified, Sectors
<1>2. \A v \in Acceptable, s \in Data : s < Size[v] => s \in 0 .. Size[v] - 1
  BY SizeFacts, ConstantsAssumption DEF Data
<1>. QED BY <1>1, <1>2 DEF Verified, Holds, Intact

--------------------------------------------------------------------------------
(* What the invariant says in each phase *)

\* A missing trailer magic hides no sector flag.
LEMMA FlagIs ==
  ASSUME FlagsInv
  PROVE  \A s \in Data : SectorFlag(s) = flag[s]
BY DEF FlagsInv, SectorFlag

\* Where the header of UPDATE is lost, BOOT still holds the old image.
LEMMA LostHolds ==
  ASSUME TypeOK, FlagsInv, NEW o \in Acceptable, NEW n \in Acceptable,
         ImagesInv(o, n), HeaderLost
  PROVE  Holds(boot, o)
<1>1. flag[0] = SECT_FLAG_SWAPPING
  BY FlagIs, SizeFacts DEF HeaderLost
<1>2. \A s \in Data : s # 0 => flag[s] = SECT_FLAG_NEW
  BY <1>1, SizeFacts DEF FlagsInv, Data
<1>3. ustate # IMG_STATE_FINAL_FLAGS
  BY <1>1 DEF ImagesInv, FinalInv
<1>. QED BY <1>1, <1>2, <1>3, SizeFacts
     DEF ImagesInv, LostInv, SwapInv, Holds

\* When BOOT is verified, and while the application runs, no swap is in progress
\* or it was lost, and BOOT holds the old image.
LEMMA QuietFacts ==
  ASSUME TypeOK, FinalFlagsInv, FlagsInv,
         NEW o \in Acceptable, NEW n \in Acceptable, ImagesInv(o, n),
         pc \in {"verify", "rollback_done"} \cup AppPcs
  PROVE  /\ Holds(boot, o) /\ ustate # IMG_STATE_FINAL_FLAGS
         /\ flag[0] = SECT_FLAG_NEW \/ HeaderLost
<1>1. ustate # IMG_STATE_FINAL_FLAGS
  BY DEF FinalFlagsInv, AppPcs
<1>2. flag[0] = SECT_FLAG_NEW \/ HeaderLost
  BY <1>1 DEF ImagesInv, SwapInv, Looping, Swapped, Staged, AppPcs
<1>. QED BY <1>1, <1>2, LostHolds DEF ImagesInv, IdleInv

\* Once every sector is exchanged, BOOT holds the new image and no flag asks for
\* what is in SWAP.
LEMMA SwappedFacts ==
  ASSUME TypeOK, FinalFlagsInv, FlagsInv,
         NEW o \in Acceptable, NEW n \in Acceptable, ImagesInv(o, n), Swapped
  PROVE  /\ ustate # IMG_STATE_FINAL_FLAGS
         /\ flag[0] = SECT_FLAG_UPDATED /\ ~HeaderLost
         /\ Holds(boot, n) /\ Sectors(boot) = Size[n]
         /\ \A s \in Data : flag[s] \in {SECT_FLAG_NEW, SECT_FLAG_UPDATED}
<1>1. ustate # IMG_STATE_FINAL_FLAGS
  BY DEF FinalFlagsInv, Swapped, Staged
<1>2. \A s \in Data : s < Size[o] \/ s < Size[n] => flag[s] = SECT_FLAG_UPDATED
  BY DEF ImagesInv, SwappedInv
<1>3. flag[0] = SECT_FLAG_UPDATED
  BY <1>2, SizeFacts
<1>4. ~HeaderLost
  BY <1>3, FlagIs, SizeFacts DEF HeaderLost
<1>5. Holds(boot, n)
  BY <1>1, <1>2, <1>3, <1>4 DEF ImagesInv, SwapInv, Holds, Intact
<1>6. Sectors(boot) = Size[n]
  BY <1>5, HeaderIs, SizeFacts DEF Holds
<1>7. \A s \in Data : flag[s] \in {SECT_FLAG_NEW, SECT_FLAG_UPDATED}
  BY <1>1, <1>2, <1>3, <1>4, SMTT(30) DEF ImagesInv, SwapInv
<1>. QED BY <1>1, <1>3, <1>4, <1>5, <1>6, <1>7

(* What a step has to establish to end in each phase *)

\* No swap in progress, or a lost one: BOOT holds an image.
LEMMA ToQuiet ==
  ASSUME NEW o, NEW n, ~Looping', ~Swapped',
         ustate' # IMG_STATE_FINAL_FLAGS,
         flag'[0] = SECT_FLAG_NEW \/ HeaderLost', Holds(boot', o)
  PROVE  ImagesInv(o, n)'
BY DEF ImagesInv, IdleInv, LostInv, SwapInv, LoopInv, SwappedInv, FinalInv,
       Swapped

\* The swap loop.
LEMMA ToLooping ==
  ASSUME NEW o, NEW n, Looping', ~Swapped', ustate' # IMG_STATE_FINAL_FLAGS,
         IdleInv(o, n)', SwapInv(o, n)', LoopInv(o, n)'
  PROVE  ImagesInv(o, n)'
BY DEF ImagesInv, LostInv, SwappedInv, FinalInv, Swapped

\* The end of the swap.
LEMMA ToSwapped ==
  ASSUME NEW o, NEW n, ~Looping', ustate' # IMG_STATE_FINAL_FLAGS,
         flag'[0] = SECT_FLAG_UPDATED, ~HeaderLost',
         SwapInv(o, n)', SwappedInv(o, n)'
  PROVE  ImagesInv(o, n)'
BY DEF ImagesInv, IdleInv, LostInv, LoopInv, FinalInv

\* The final erase.
LEMMA ToFinishing ==
  ASSUME NEW o, NEW n, ~Looping', ~Swapped',
         ustate' = IMG_STATE_FINAL_FLAGS, flag'[0] = SECT_FLAG_UPDATED,
         FinalInv(n)'
  PROVE  ImagesInv(o, n)'
BY DEF ImagesInv, IdleInv, LostInv, SwapInv, LoopInv, SwappedInv, Swapped,
       HeaderLost, SectorFlag

--------------------------------------------------------------------------------
(* One lemma per action: the step preserves the invariant. *)

USE SizeFacts DEF Looping, Swapped, Staged, Restoring, Finishing, Requested,
                  SwapJobs, SwapSafeFor

(* wolfBoot_start *)

\* A boot that finds FINAL_FLAGS reads the size of the new image from BOOT, even
\* when the staging sector is the first one.
LEMMA StartStep ==
  ASSUME TypeOK, FinalFlagsInv, NEW o \in Acceptable, NEW n \in Acceptable,
         SwapSafeFor(o, n), Start
  PROVE  SwapSafeFor(o, n)'
<1>1. /\ pc = "start" /\ UNCHANGED <<flash, emerg>>
      /\ bs' = BootState /\ us' = UpdateState /\ bsz' = Sectors(boot)
      /\ pc' = IF UpdateState = IMG_STATE_FINAL_FLAGS
               THEN "erase_boot_trailer" ELSE "dispatch"
      /\ resume' => us' = IMG_STATE_FINAL_FLAGS
  BY Zenon DEF Start
<1>2. FlagsInv' /\ ControlInv'
  BY <1>1 DEF ControlInv, FlagsInv, FinalFlagsInv, BootState, UpdateState
<1>3. CASE ustate = IMG_STATE_FINAL_FLAGS
  <2>1. pc' = "erase_boot_trailer" /\ flag[0] = SECT_FLAG_UPDATED
    BY <1>1, <1>3 DEF FinalFlagsInv, UpdateState, ImagesInv, FinalInv
  <2>2. bsz' = Size[n]
    <3>1. CASE Staging = 0
      BY <1>1, <3>1, SectorsType, ConstantsAssumption, SMTT(30) DEF Staging, TypeOK
    <3>2. CASE Staging # 0
      BY <1>1, <1>3, <3>2, HeaderIs, SMTT(30) DEF ImagesInv, FinalInv
    <3>. QED BY <3>1, <3>2, SMTT(30)
  <2>3. FinalInv(n)'
    BY <1>1, <1>3, <2>1, <2>2 DEF ImagesInv, FinalInv
  <2>. QED BY <1>1, <1>2, <1>3, <2>1, <2>3, ToFinishing, SMTT(30)
<1>4. CASE ustate # IMG_STATE_FINAL_FLAGS
  <2>1. pc' = "dispatch"
    BY <1>1, <1>4, SMTT(30) DEF UpdateState
  <2>2. HeaderLost' = HeaderLost
    BY <1>1, SMTT(30) DEF HeaderLost, SectorFlag, Header
  <2>3. CASE flag[0] = SECT_FLAG_NEW \/ HeaderLost
    BY <1>1, <1>2, <1>4, <2>1, <2>2, <2>3, LostHolds, ToQuiet, SMTT(30)
       DEF ImagesInv, IdleInv
  <2>4. CASE flag[0] # SECT_FLAG_NEW /\ ~HeaderLost
    <3>1. bs' = IMG_STATE_TESTING \/ us' = IMG_STATE_UPDATING
      BY <1>1, <1>4, <2>4, SMTT(30)
         DEF ImagesInv, SwapInv, FlagsInv, BootState, UpdateState
    <3>2. SwapInv(o, n)'
      BY <1>1, <1>4, <2>1, <2>4, <3>1, SMTT(30) DEF ImagesInv, SwapInv
    <3>. QED BY <1>1, <1>2, <1>4, <2>1, <2>2, <2>4, <3>2, SMTT(30)
         DEF ImagesInv, IdleInv, LostInv, LoopInv, SwappedInv, FinalInv
  <2>. QED BY <2>3, <2>4
<1>. QED BY <1>3, <1>4

\* A swap in progress is dispatched to wolfBoot_update.
LEMMA DispatchStep ==
  ASSUME TypeOK, FinalFlagsInv, NEW o \in Acceptable, NEW n \in Acceptable,
         SwapSafeFor(o, n), Dispatch
  PROVE  SwapSafeFor(o, n)'
<1>1. /\ pc = "dispatch" /\ pc' \in {"mark_updating", "update", "verify"}
      /\ bs = IMG_STATE_TESTING \/ us = IMG_STATE_UPDATING => pc' # "verify"
      /\ UNCHANGED <<flash, sector, bsz, usz, job>>
  BY Zenon DEF Dispatch
<1>2. FlagsInv' /\ ControlInv'
  BY SMTT(30) DEF Dispatch, FlagsInv, ControlInv, FinalFlagsInv
<1>3. HeaderLost' = HeaderLost
  BY <1>1, Zenon DEF HeaderLost, SectorFlag, Header
<1>4. ustate # IMG_STATE_FINAL_FLAGS
  BY <1>1 DEF FinalFlagsInv
<1>5. IdleInv(o, n)' /\ LostInv(o)'
  BY <1>1, <1>3, SMTT(30) DEF ImagesInv, IdleInv, LostInv
<1>6. SwapInv(o, n)'
  BY <1>1, <1>3, SMTT(30) DEF ImagesInv, SwapInv
<1>. QED BY <1>1, <1>2, <1>4, <1>5, <1>6, SMTT(30)
     DEF ImagesInv, LoopInv, SwappedInv, FinalInv

\* The state of UPDATE is set while BOOT is in TESTING.
LEMMA MarkUpdatingStep ==
  ASSUME TypeOK, FinalFlagsInv, NEW o \in Acceptable, NEW n \in Acceptable,
         SwapSafeFor(o, n), MarkUpdating
  PROVE  SwapSafeFor(o, n)'
<1>1. /\ pc = "mark_updating" /\ pc' \in {"mark_updating", "update"}
      /\ UNCHANGED <<images, bmagic, bstate, flag, locals>>
  BY Zenon DEF MarkUpdating, SetUpdateState
<1>2. FlagsInv' /\ ControlInv'
  BY SMTT(30) DEF MarkUpdating, SetUpdateState, Program, FlagsInv, ControlInv,
     FinalFlagsInv, TypeOK
<1>3. ustate # IMG_STATE_FINAL_FLAGS /\ ustate' # IMG_STATE_FINAL_FLAGS
  BY SMTT(30) DEF MarkUpdating, SetUpdateState, Program, FinalFlagsInv
<1>4. HeaderLost' = HeaderLost
  <2>1. SectorFlag(0) = flag[0]
    BY FlagIs
  <2>2. SectorFlag(0)' = flag'[0]
    BY <1>2, SMTT(30) DEF FlagsInv, SectorFlag
  <2>. QED BY <1>1, <2>1, <2>2, Zenon DEF HeaderLost, Header
<1>5. Requested'
  BY <1>1, SMTT(30) DEF ControlInv, Requested
<1>6. IdleInv(o, n)' /\ LostInv(o)'
  BY <1>1, <1>4, SMTT(30) DEF ImagesInv, IdleInv, LostInv
<1>7. SwapInv(o, n)'
  BY <1>1, <1>3, <1>4, <1>5, SMTT(30) DEF ImagesInv, SwapInv
<1>. QED BY <1>1, <1>2, <1>3, <1>6, <1>7, SMTT(30)
     DEF ImagesInv, LoopInv, SwappedInv, FinalInv

\* BOOT is only verified in states where it holds the old image: no emergency
\* update is ever tried.
LEMMA VerifyBootStep ==
  ASSUME TypeOK, FinalFlagsInv, NEW o \in Acceptable, NEW n \in Acceptable,
         SwapSafeFor(o, n), VerifyBoot
  PROVE  SwapSafeFor(o, n)'
<1>1. /\ Holds(boot, o) /\ ustate # IMG_STATE_FINAL_FLAGS
      /\ flag[0] = SECT_FLAG_NEW \/ HeaderLost
  BY QuietFacts DEF VerifyBoot
<1>2. Verified(boot)
  BY <1>1, HoldsVerified
<1>3. /\ pc = "verify" /\ pc' = "running"
      /\ UNCHANGED <<flash, bs, us, emerg, resume>>
  BY <1>2, SMTT(30) DEF VerifyBoot
<1>4. FlagsInv' /\ ControlInv'
  BY <1>3, SMTT(30) DEF FlagsInv, ControlInv
<1>5. HeaderLost' = HeaderLost
  BY <1>3 DEF HeaderLost, SectorFlag, Header
<1>. QED BY <1>1, <1>3, <1>4, <1>5, ToQuiet
==============================================================================
