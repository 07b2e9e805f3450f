------------------------------ MODULE DualBoot ------------------------------
(***************************************************************************)
(* Boot loaders that choose between two bootable partitions instead of     *)
(* swapping their sectors: update_flash_hwswap.c (the flash banks are      *)
(* exchanged by hardware), update_ram.c (the image is loaded from either   *)
(* partition) and update_disk.c (from either of two partitions of a disk), *)
(* with the candidate selection of libwolfboot.c and the application's     *)
(* calls.  Power can fail at any step, an image can decay between two      *)
(* boots, and reads of the disk can fail.                                  *)
(***************************************************************************)
EXTENDS Integers

CONSTANTS
  Builds,    \* builds of the boot loader, see Build
  Versions,  \* versions of the images that are downloaded
  Good,      \* whether complete images verify: a subset of BOOLEAN
  MaxCuts,   \* bound on power cuts
  MaxDecays, \* bound on the images that stop verifying
  MaxFaults  \* bound on the reads of the disk that fail

\* the source file of wolfBoot_start, and a build option
Build == [start : {"update_flash_hwswap", "update_ram", "update_disk"},
          ALLOW_DOWNGRADE : BOOLEAN]

ASSUME DualAssumption ==
  /\ Builds \subseteq Build
  /\ Versions \subseteq Nat \ {0} /\ Versions # {}
  /\ Good \subseteq BOOLEAN /\ Good # {} 
  /\ MaxCuts \in Nat /\ MaxDecays \in Nat /\ MaxFaults \in Nat

VARIABLES
  build,   \* the build that this device runs
  part,    \* the two partitions
  pc,      \* where wolfBoot_start is, or "app"
  active,  \* the partition it tries
  maxv,    \* versions of BOOT and UPDATE as read at the start (update_ram.c
           \* and update_disk.c)
  failures,\* attempts of this boot (update_disk.c)
  errs,    \* history: failed reads of each partition in this boot
  want,    \* the image being downloaded verifies when it is complete
  cuts,    \* history: power cuts so far
  decays,  \* history: images that stopped verifying so far
  faults   \* history: reads of the disk that failed so far

disk == <<failures, errs, faults>>
vars == <<build, part, pc, active, maxv, want, cuts, decays, disk>>

HwSwap == build.start = "update_flash_hwswap"
Disk   == build.start = "update_disk"
ALLOW_DOWNGRADE == build.ALLOW_DOWNGRADE

MAX_FAILURES == 4

\* BOOT and UPDATE are partitions A and B of a disk
PART_BOOT == 0
PART_UPDATE == 1
Parts == {PART_BOOT, PART_UPDATE}

Other(p) == 1 - p

\* a partition: the version in its header (0 when there is none), whether the
\* image verifies, the state in its trailer and, as history, whether the image
\* called wolfBoot_success since it was last triggered
Partition == [ver : Versions \cup {0}, good : BOOLEAN,
              st : {"NEW", "UPDATING", "TESTING", "SUCCESS"}, conf : BOOLEAN]

Empty == [ver |-> 0, good |-> FALSE, st |-> "NEW", conf |-> FALSE]

\* what an interrupted erase can leave
TornErase(p) == {[ver |-> v, good |-> FALSE, st |-> s, conf |-> FALSE]
                   : v \in {0, p.ver}, s \in {"NEW", p.st}}

Highest(v) == IF v[PART_BOOT] > v[PART_UPDATE] THEN v[PART_BOOT]
                                              ELSE v[PART_UPDATE]

Ver == [p \in Parts |-> part[p].ver]

Init ==
  /\ build \in Builds
  /\ \E v \in Versions :
       part = [p \in Parts |->
                 IF p = PART_BOOT
                 THEN [ver |-> v, good |-> TRUE, st |-> "SUCCESS", conf |-> TRUE]
                 ELSE Empty]
  /\ pc = "start" /\ active = PART_BOOT
  /\ maxv = [p \in Parts |-> 0] /\ want = TRUE /\ cuts = 0 /\ decays = 0
  /\ failures = 0 /\ errs = [p \in Parts |-> 0] /\ faults = 0

-----------------------------------------------------------------------------
(* wolfBoot_dualboot_candidate *)

\* the versions are not compared in builds that allow a downgrade
Candidate_Downgrade ==
  IF Ver[PART_BOOT] = 0
       \/ (~ALLOW_DOWNGRADE /\ Ver[PART_UPDATE] > Ver[PART_BOOT])
  THEN PART_UPDATE ELSE PART_BOOT

\* the partition with the higher version, BOOT when they are equal
Candidate ==
  IF Ver[PART_BOOT] = 0 \/ Ver[PART_UPDATE] > Ver[PART_BOOT]
  THEN PART_UPDATE ELSE PART_BOOT

\* the candidate never confirmed itself and may be given up for the other one
GiveUp ==
  /\ Ver[PART_BOOT] > 0 /\ Ver[PART_UPDATE] > 0
  /\ part[Candidate].st = "TESTING"
  /\ ALLOW_DOWNGRADE \/ Ver[Other(Candidate)] >= Ver[Candidate]

\* the answer when the versions are not read
fallback_is_possible_Always == TRUE

\* both partitions hold an image
wolfBoot_fallback_is_possible == Ver[PART_BOOT] > 0 /\ Ver[PART_UPDATE] > 0

\* wolfBoot_start selects a candidate or panics
Start ==
  /\ pc = "start" /\ ~Disk
  /\ maxv' = Ver
  /\ IF Ver[PART_BOOT] = 0 /\ Ver[PART_UPDATE] = 0
     THEN pc' = "panic" /\ active' = active
     ELSE pc' = (IF GiveUp THEN "erase" ELSE "check") /\ active' = Candidate
  /\ UNCHANGED <<build, part, want, cuts, decays, disk>>

\* update_disk.c: the disk cannot be opened, or the two headers are read, each
\* with success or not; A is selected unless B is newer
StartDisk ==
  /\ pc = "start" /\ Disk
  /\ failures' = 0
  /\ \/ /\ errs' = [p \in Parts |-> 1] /\ maxv' = [p \in Parts |-> 0]
        /\ faults' = faults + 1
     \/ /\ errs' \in [Parts -> {0, 1}]
        /\ maxv' = [p \in Parts |-> IF errs'[p] = 1 THEN 0 ELSE Ver[p]]
        /\ faults' = faults + errs'[PART_BOOT] + errs'[PART_UPDATE]
  /\ faults' <= MaxFaults
  /\ active' = IF maxv'[PART_UPDATE] > maxv'[PART_BOOT]
               THEN PART_UPDATE ELSE PART_BOOT
  /\ pc' = IF Highest(maxv') = 0 THEN "panic" ELSE "check"
  /\ UNCHANGED <<build, part, want, cuts, decays>>

-----------------------------------------------------------------------------
(* the loop of wolfBoot_start *)

\* no version guard
Check_NoGuard ==
  /\ pc = "check"
  /\ pc' = "verify"
  /\ failures' = IF Disk THEN failures + 1 ELSE failures
  /\ UNCHANGED <<build, part, active, maxv, want, cuts, decays, errs, faults>>

\* the version guard; update_flash_hwswap.c reads the versions again
Check ==
  /\ pc = "check"
  /\ LET v == IF HwSwap THEN Ver ELSE maxv
     IN pc' = IF ~ALLOW_DOWNGRADE /\ v[active] < Highest(v)
              THEN "panic" ELSE "verify"
  /\ failures' = IF Disk THEN failures + 1 ELSE failures
  /\ UNCHANGED <<build, part, active, maxv, want, cuts, decays, errs, faults>>

\* the failing image is not erased
Verify_KeepsFailing ==
  /\ pc = "verify" /\ ~Disk
  /\ IF part[active].good THEN pc' = "mark" /\ active' = active
     ELSE IF ~wolfBoot_fallback_is_possible
     THEN pc' = "panic" /\ active' = active
     ELSE pc' = "check" /\ active' = Other(active)
  /\ UNCHANGED <<build, part, maxv, want, cuts, decays, disk>>

\* open the image, check its hash and its signature; when that fails try the
\* other one: update_flash_hwswap.c erases the failing image first
Verify ==
  /\ pc = "verify" /\ ~Disk
  /\ IF part[active].good THEN pc' = "mark" /\ active' = active
     ELSE IF ~wolfBoot_fallback_is_possible
     THEN pc' = "panic" /\ active' = active
     ELSE IF HwSwap
     THEN pc' = "erase" /\ active' = active
     ELSE pc' = "check" /\ active' = Other(active)
  /\ UNCHANGED <<build, part, maxv, want, cuts, decays, disk>>

\* update_disk.c: read the header and the image, and verify it; when a step
\* fails try the other partition, MAX_FAILURES times in all
VerifyDisk ==
  /\ pc = "verify" /\ Disk
  /\ \/ /\ part[active].good
        /\ pc' = "app" /\ failures' = 0
        /\ UNCHANGED <<active, errs, faults>>
     \/ /\ \/ ~part[active].good /\ UNCHANGED <<errs, faults>>
           \/ /\ faults < MaxFaults
              /\ faults' = faults + 1
              /\ errs' = [errs EXCEPT ![active] = @ + 1]
        /\ active' = Other(active)
        /\ pc' = IF failures < MAX_FAILURES THEN "check" ELSE "panic"
        /\ failures' = failures
  /\ UNCHANGED <<build, part, maxv, want, cuts, decays>>

\* only the header is erased
Erase_Header ==
  /\ pc = "erase"
  /\ part' = [part EXCEPT ![active].ver = 0]
  /\ active' = Other(active)
  /\ pc' = "check"
  /\ UNCHANGED <<build, maxv, want, cuts, decays, disk>>

\* wolfBoot_erase_partition, and on to the other partition
Erase ==
  /\ pc = "erase"
  /\ part' = [part EXCEPT ![active] = Empty]
  /\ active' = Other(active)
  /\ pc' = "check"
  /\ UNCHANGED <<build, maxv, want, cuts, decays, disk>>

\* every boot puts the image on trial
Marked_Always(p) == [p EXCEPT !.st = "TESTING"]

\* the first boot of an update puts it on trial
Marked(p) == [p EXCEPT !.st = IF @ = "UPDATING" THEN "TESTING" ELSE @]

Mark ==
  /\ pc = "mark"
  /\ part' = IF HwSwap /\ active = PART_UPDATE THEN part
             ELSE [part EXCEPT ![active] = Marked(@)]
  /\ pc' = IF HwSwap /\ active = PART_UPDATE THEN "swap" ELSE "app"
  /\ UNCHANGED <<build, active, maxv, want, cuts, decays, disk>>

\* hal_flash_dualbank_swap exchanges the banks, and may reset the device
Swap ==
  /\ pc = "swap"
  /\ part' = [p \in Parts |-> part[Other(p)]]
  /\ active' = PART_BOOT
  /\ pc' \in {"mark", "start"}
  /\ UNCHANGED <<build, maxv, want, cuts, decays, disk>>

-----------------------------------------------------------------------------
(* The application *)

\* wolfBoot_success always writes the trailer of BOOT
Success ==
  /\ pc = "app" /\ ~Disk
  /\ part' = [part EXCEPT ![PART_BOOT].st = "SUCCESS", ![active].conf = TRUE]
  /\ UNCHANGED <<build, pc, active, maxv, want, cuts, decays, disk>>

\* an application writes UPDATE, a system on a disk the partition that it was
\* not loaded from
Dest == IF Disk THEN Other(active) ELSE PART_UPDATE

\* a download erases the partition, writes the first sector with the header,
\* and then the rest
DownloadErase ==
  /\ pc = "app"
  /\ \/ part' = [part EXCEPT ![Dest] = Empty] /\ pc' = "download"
     \/ /\ \E p \in TornErase(part[Dest]) : part' = [part EXCEPT ![Dest] = p]
        /\ pc' = "start"
  /\ UNCHANGED <<build, active, maxv, want, cuts, decays, disk>>

DownloadHeader ==
  /\ pc = "download"
  /\ \E v \in Versions : part' = [part EXCEPT ![Dest].ver = v]
  /\ want' \in Good
  /\ pc' = "body"
  /\ UNCHANGED <<build, active, maxv, cuts, decays, disk>>

DownloadBody ==
  /\ pc = "body"
  /\ part' = [part EXCEPT ![Dest].good = want]
  /\ pc' = "app"
  /\ UNCHANGED <<build, active, maxv, want, cuts, decays, disk>>

\* wolfBoot_update_trigger
Trigger ==
  /\ pc = "app" /\ ~Disk
  /\ part' = [part EXCEPT ![PART_UPDATE].st = "UPDATING",
                           ![PART_UPDATE].conf = FALSE]
  /\ UNCHANGED <<build, pc, active, maxv, want, cuts, decays, disk>>

Reset ==
  /\ pc \in {"app", "download", "body"}
  /\ pc' = "start"
  /\ UNCHANGED <<build, part, active, maxv, want, cuts, decays, disk>>

\* an image that verified stops verifying
Decay ==
  /\ pc = "app" /\ decays < MaxDecays
  /\ \E p \in Parts : part[p].good /\ part' = [part EXCEPT ![p].good = FALSE]
  /\ decays' = decays + 1
  /\ UNCHANGED <<build, pc, active, maxv, want, cuts, disk>>

\* a power cut while the boot loader runs
PowerCut ==
  /\ pc \in {"check", "verify", "erase", "mark", "swap"} /\ cuts < MaxCuts
  /\ IF pc = "erase"
     THEN \E p \in TornErase(part[active]) :
            part' \in {part, [part EXCEPT ![active] = p]}
     ELSE part' = part
  /\ pc' = "start"
  /\ cuts' = cuts + 1
  /\ UNCHANGED <<build, active, maxv, want, decays, disk>>

Boot == Start \/ StartDisk \/ Check \/ Verify \/ VerifyDisk \/ Erase \/ Mark \/ Swap

\* wolfBoot_panic and boot_panic never return
Panic == pc = "panic" /\ UNCHANGED vars

Next ==
  \/ Boot \/ Panic
  \/ Success \/ DownloadErase \/ DownloadHeader \/ DownloadBody \/ Trigger
  \/ Reset \/ Decay \/ PowerCut

Spec == Init /\ [][Next]_vars

\* the boot loader is a sequential program that nothing blocks
BootSpec == Spec /\ WF_vars(Boot)

-----------------------------------------------------------------------------
(* Properties *)

\* The partitions and the locals of wolfBoot_start keep their types, and an
\* image that verifies has a version in its header.
TypeOK ==
  /\ build \in Builds
  /\ part \in [Parts -> Partition]
  /\ \A p \in Parts : part[p].good => part[p].ver # 0
  /\ pc \in {"start", "check", "verify", "erase", "mark", "swap", "app",
             "download", "body", "panic"}
  /\ active \in Parts /\ maxv \in [Parts -> Versions \cup {0}]
  /\ want \in BOOLEAN /\ cuts \in 0 .. MaxCuts /\ decays \in 0 .. MaxDecays
  /\ failures \in 0 .. MAX_FAILURES /\ errs \in [Parts -> Nat]
  /\ faults \in 0 .. MaxFaults

\* The device stops only when no partition holds an image that verifies, with
\* two exceptions.  Without ALLOW_DOWNGRADE update_ram.c and update_disk.c do not
\* erase an image that fails, and refuse an older one that verifies; this also
\* defeats the retries of update_disk.c after a read that failed.  With
\* ALLOW_DOWNGRADE it takes two failed reads of an image, unless no header
\* could be read at all.
PanicJustified ==
  pc = "panic" =>
    \A p \in Parts : part[p].good =>
      \/ ~HwSwap /\ ~ALLOW_DOWNGRADE /\ part[p].ver < Highest(Ver)
      \/ ~ALLOW_DOWNGRADE /\ errs[p] > 0
      \/ errs[p] >= IF Highest(maxv) = 0 THEN 1 ELSE 2

\* do_boot
BootApp == pc \in {"mark", "verify"} /\ pc' = "app"

\* The image that starts has the highest version of those that verify, also
\* when a newer one failed, was given up or lost its header.  On a disk an
\* image that could not be read counts as one that failed.
NewestBoots ==
  [][BootApp =>
       \A p \in Parts : part[p].good =>
         part[active].ver >= part[p].ver \/ errs[p] > 0]_vars

\* With ALLOW_DOWNGRADE off an image does not start while a newer one is
\* present, whether that one verifies or not, unless a read of it failed: a
\* header on the disk that cannot be read at the start counts as absent.
NoDowngrade ==
  [][BootApp /\ ~ALLOW_DOWNGRADE =>
       \A p \in Parts : part[active].ver >= part[p].ver \/ errs[p] > 0]_vars

\* The boot loader never erases an image that verifies and that called
\* wolfBoot_success after it was installed.  In update_ram.c this takes
\* ALLOW_DOWNGRADE off: wolfBoot_success writes the trailer of BOOT, so an
\* image that runs from UPDATE stays on trial.
ConfirmedKept ==
  pc = "erase" /\ (HwSwap \/ ~ALLOW_DOWNGRADE) =>
    ~(part[active].good /\ part[active].conf)

\* With update_flash_hwswap.c and update_disk.c every boot that is not
\* interrupted ends: the image that failed is erased, or the attempts are
\* counted.
BootEnds == pc = "start" /\ (HwSwap \/ Disk) ~> pc \in {"app", "panic"}
=============================================================================
