--------------------------- MODULE DualBootProofs ---------------------------
(***************************************************************************)
(* Proofs that the boot loaders of DualBoot choose the newest image that   *)
(* verifies and stop only when they must, for any builds, versions and     *)
(* number of power cuts, decays and failed reads.                          *)
(*                                                                         *)
(* The version guard and the choice of the candidate are steps apart, and  *)
(* update_ram.c and update_disk.c compare versions that they read before   *)
(* an image was tried or erased, so the properties need an invariant that  *)
(* ties the locals to the partitions.  It has a part for each              *)
(* wolfBoot_start (HwInv, RamInv and DiskInv), one for the control points  *)
(* (ControlInv) and one for the trailers (ConfInv).                        *)
(***************************************************************************)
EXTENDS DualBoot, TLAPS

\* What the control point says of the build, the active partition and the
\* versions in the headers.
ControlInv ==
  /\ pc = "body" => part[Dest].ver # 0
  /\ pc \in {"erase", "mark", "swap"} => ~Disk
  /\ pc = "swap" => HwSwap /\ active = PART_UPDATE
  /\ HwSwap /\ pc \in {"app", "download", "body"} => active = PART_BOOT
  /\ pc = "erase" => part[PART_BOOT].ver > 0 /\ part[PART_UPDATE].ver > 0

\* An image that confirmed itself has SUCCESS in its trailer, where
\* wolfBoot_success can write it.
ConfInv ==
  /\ part[PART_BOOT].conf => part[PART_BOOT].st = "SUCCESS" \/ Disk
  /\ HwSwap /\ part[PART_UPDATE].conf => part[PART_UPDATE].st = "SUCCESS"
  /\ ConfirmedKept

\* update_flash_hwswap.c: the active image is the newest one from the selection
\* on, because a failing image is erased.
HwInv ==
  HwSwap /\ pc \in {"check", "verify", "mark", "swap"} =>
    part[active].ver >= part[Other(active)].ver

\* update_ram.c: the versions read at the start are those of the headers until
\* the other image is erased, and the other image is newer only when it failed.
RamInv ==
  ~HwSwap /\ ~Disk =>
    /\ pc \in {"check", "verify", "mark"} =>
         /\ part[active].ver > 0
         /\ \/ /\ maxv = Ver
               /\ part[active].ver >= part[Other(active)].ver \/ ~part[Other(active)].good
            \/ /\ part[Other(active)].ver = 0
               /\ ALLOW_DOWNGRADE \/ maxv[active] >= maxv[Other(active)]
    /\ pc \in {"verify", "mark"} =>
         ALLOW_DOWNGRADE \/ part[active].ver >= part[Other(active)].ver
    /\ pc = "erase" =>
         /\ maxv = Ver
         /\ ALLOW_DOWNGRADE \/ part[Other(active)].ver >= part[active].ver

\* update_disk.c: a version read at the start is that of the header or missing
\* after a failed read; the other image was selected first only when it failed;
\* and an image that verifies failed in every second attempt, so its failed
\* reads bound the number of attempts.
DiskInv ==
  Disk /\ pc \in {"check", "verify"} =>
    /\ \A p \in Parts : maxv[p] = part[p].ver \/ (errs[p] > 0 /\ maxv[p] = 0)
    /\ maxv[PART_BOOT] > 0 \/ maxv[PART_UPDATE] > 0
    /\ \/ maxv[active] >= maxv[Other(active)]
       \/ ~part[Other(active)].good \/ errs[Other(active)] > 0
    /\ pc = "check" =>
         /\ failures < MAX_FAILURES
         /\ part[active].good => 2 * errs[active] + 1 >= failures
         /\ part[Other(active)].good => 2 * errs[Other(active)] >= failures
    /\ pc = "verify" =>
         /\ failures > 0
         /\ part[active].good => 2 * errs[active] + 2 >= failures
         /\ part[Other(active)].good => 2 * errs[Other(active)] + 1 >= failures
         /\ ALLOW_DOWNGRADE \/ maxv[active] >= maxv[Other(active)]

\* The inductive invariant.
Inv == TypeOK /\ ControlInv /\ ConfInv /\ HwInv /\ RamInv /\ DiskInv /\ PanicJustified

\* What TypeOK says of one partition.
PartitionOK(q) ==
  /\ q \in Partition
  /\ q.good => q.ver # 0

\* Versions are numbers, and 0 means that a partition has no header.
LEMMA VersionsNat ==
  /\ Versions \subseteq Nat
  /\ 0 \notin Versions
  /\ Versions \cup {0} \subseteq Nat
  /\ \A q \in Partition : q.ver \in Nat
<1>1. Versions \subseteq Nat /\ 0 \notin Versions
  BY DualAssumption
<1>2. \A q \in Partition : q.ver \in Versions \cup {0}
  BY Zenon DEF Partition
<1>3. Versions \cup {0} \subseteq Nat
  BY <1>1
<1>. QED
  BY <1>1, <1>2, <1>3, Zenon

\* An erased partition is well-formed.
LEMMA EmptyOK == PartitionOK(Empty)
BY Zenon DEF PartitionOK, Partition, Empty

\* What an interrupted erase leaves is well-formed and unconfirmed.
LEMMA TornOK ==
  ASSUME NEW q \in Partition, NEW t \in TornErase(q)
  PROVE  PartitionOK(t) /\ ~t.conf
<1>1. PICK v \in {0, q.ver}, s \in {"NEW", q.st} :
        t = [ver |-> v, good |-> FALSE, st |-> s, conf |-> FALSE]
  BY DEF TornErase
<1>2. q.ver \in Versions \cup {0} /\ q.st \in {"NEW", "UPDATING", "TESTING", "SUCCESS"}
  BY Zenon DEF Partition
<1>3. v \in Versions \cup {0} /\ s \in {"NEW", "UPDATING", "TESTING", "SUCCESS"}
  BY <1>2
<1>4. FALSE \in BOOLEAN
  OBVIOUS
<1>5. t \in Partition
  BY <1>1, <1>3, <1>4, Zenon DEF Partition
<1>. QED
  BY <1>1, <1>5, Zenon DEF PartitionOK

\* Writing one partition keeps both well-formed and the other one as it was.
LEMMA UpdateOK ==
  ASSUME NEW p \in Parts, NEW q, PartitionOK(q),
         part \in [Parts -> Partition],
         \A r \in Parts : part[r].good => part[r].ver # 0,
         part' = [part EXCEPT ![p] = q]
  PROVE  /\ part' \in [Parts -> Partition]
         /\ \A r \in Parts : part'[r].good => part'[r].ver # 0
         /\ part'[p] = q
         /\ \A r \in Parts : r # p => part'[r] = part[r]
BY SMTT(30) DEF PartitionOK

\* Every step keeps the types: the partitions, the locals and the bounds.
LEMMA TypeStep ==
  ASSUME TypeOK, ControlInv, DiskInv, [Next]_vars
  PROVE  TypeOK'
<1>. USE DEF TypeOK
<1>0. Parts = {0, 1} /\ PART_BOOT = 0 /\ PART_UPDATE = 1
  BY DEF Parts, PART_BOOT, PART_UPDATE
<1>1. \A p \in Parts : Other(p) \in Parts
  BY DEF Other, Parts, PART_BOOT, PART_UPDATE
<1>2. Ver \in [Parts -> Versions \cup {0}]
  <2>1. \A p \in Parts : part[p].ver \in Versions \cup {0}
    BY Zenon DEF Partition
  <2>. QED
    BY <2>1, Zenon DEF Ver
<1>3. Dest \in Parts
  BY <1>0, <1>1 DEF Dest
<1>4. \A p \in Parts : PartitionOK(part[p])
  BY Zenon DEF PartitionOK
<1>5. CASE Start
  BY <1>0, <1>2, <1>5 DEF Start, disk, Candidate
<1>6. CASE StartDisk
  BY <1>0, <1>2, <1>6 DEF StartDisk, MAX_FAILURES
<1>7. CASE Check
  <2>1. failures' \in 0 .. MAX_FAILURES
    BY <1>7 DEF Check, DiskInv, MAX_FAILURES
  <2>. QED
    BY <2>1, <1>7 DEF Check
<1>8. CASE Verify
  BY <1>1, <1>8 DEF Verify, disk
<1>9. CASE VerifyDisk
  BY <1>1, <1>9, DualAssumption DEF VerifyDisk, MAX_FAILURES
<1>10. CASE Erase
  BY <1>1, <1>10, EmptyOK, UpdateOK, Zenon DEF Erase, disk
<1>11. CASE Mark
  <2>1. PartitionOK(Marked(part[active]))
    BY <1>4, Zenon DEF Marked, PartitionOK, Partition
  <2>2. CASE part' = part
    BY <2>2, <1>11 DEF Mark, disk
  <2>3. CASE part' = [part EXCEPT ![active] = Marked(@)]
    BY <2>1, <2>3, <1>11, UpdateOK, Zenon DEF Mark, disk
  <2>. QED
    BY <1>11, <2>2, <2>3 DEF Mark
<1>12. CASE Swap
  <2>1. /\ part' \in [Parts -> Partition]
        /\ \A p \in Parts : part'[p].good => part'[p].ver # 0
    BY <1>1, <1>12 DEF Swap
  <2>. QED
    BY <2>1, <1>0, <1>12 DEF Swap, disk
<1>13. CASE Success
  <2>1. PartitionOK([part[PART_BOOT] EXCEPT !.st = "SUCCESS"])
    BY <1>0, <1>4, Zenon DEF PartitionOK, Partition
  <2>2. \A q : PartitionOK(q) => PartitionOK([q EXCEPT !.conf = TRUE])
    BY Zenon DEF PartitionOK, Partition
  <2>3. /\ part' \in [Parts -> Partition]
        /\ \A p \in Parts : part'[p].good => part'[p].ver # 0
    BY <1>0, <1>13, <2>1, <2>2, Zenon DEF Success, PartitionOK
  <2>. QED
    BY <2>3, <1>13, SMTT(30) DEF Success, disk
<1>14. CASE DownloadErase
  <2>1. PICK q : PartitionOK(q) /\ part' = [part EXCEPT ![Dest] = q]
    BY <1>3, <1>14, EmptyOK, TornOK DEF DownloadErase
  <2>. QED
    BY <2>1, <1>3, <1>14, UpdateOK, Zenon DEF DownloadErase, disk
<1>15. CASE DownloadHeader
  <2>1. PICK v \in Versions : part' = [part EXCEPT ![Dest].ver = v]
    BY <1>15, Zenon DEF DownloadHeader
  <2>2. PartitionOK([part[Dest] EXCEPT !.ver = v])
    BY <1>3, <1>4, VersionsNat, Zenon DEF PartitionOK, Partition
  <2>3. want' \in BOOLEAN
    BY <1>15, DualAssumption, Zenon DEF DownloadHeader
  <2>. QED
    BY <2>1, <2>2, <2>3, <1>3, <1>15, UpdateOK, Zenon DEF DownloadHeader, disk
<1>16. CASE DownloadBody
  <2>1. PartitionOK([part[Dest] EXCEPT !.good = want])
    BY <1>3, <1>4, <1>16, Zenon DEF PartitionOK, Partition, ControlInv, DownloadBody
  <2>. QED
    BY <2>1, <1>3, <1>16, UpdateOK, Zenon DEF DownloadBody, disk
<1>17. CASE Trigger
  <2>1. PartitionOK([part[PART_UPDATE] EXCEPT !.st = "UPDATING", !.conf = FALSE])
    BY <1>0, <1>4, Zenon DEF PartitionOK, Partition
  <2>2. part' = [part EXCEPT ![PART_UPDATE] =
                   [@ EXCEPT !.st = "UPDATING", !.conf = FALSE]]
    BY <1>0, <1>17, Zenon DEF Trigger
  <2>. QED
    BY <2>1, <2>2, <1>0, <1>17, UpdateOK, Zenon DEF Trigger, disk
<1>18. CASE Reset
  BY <1>18 DEF Reset, disk
<1>19. CASE Decay
  <2>1. PICK p \in Parts : part' = [part EXCEPT ![p].good = FALSE]
    BY <1>19, Zenon DEF Decay
  <2>2. PartitionOK([part[p] EXCEPT !.good = FALSE])
    BY <1>4, Zenon DEF PartitionOK, Partition
  <2>3. /\ part' \in [Parts -> Partition]
        /\ \A r \in Parts : part'[r].good => part'[r].ver # 0
    BY <2>1, <2>2, UpdateOK, Zenon
  <2>4. decays' \in 0 .. MaxDecays
    BY <1>19, DualAssumption DEF Decay
  <2>. QED
    BY <2>3, <2>4, <1>19 DEF Decay, disk
<1>20. CASE PowerCut
  <2>1. PICK q : PartitionOK(q) /\ part' = [part EXCEPT ![active] = q]
    BY <1>4, <1>20, TornOK DEF PowerCut
  <2>2. /\ part' \in [Parts -> Partition]
        /\ \A r \in Parts : part'[r].good => part'[r].ver # 0
    BY <2>1, UpdateOK, Zenon
  <2>3. cuts' \in 0 .. MaxCuts
    BY <1>20, DualAssumption DEF PowerCut
  <2>. QED
    BY <2>2, <2>3, <1>20 DEF PowerCut, disk
<1>21. CASE UNCHANGED vars
  BY <1>21 DEF vars, disk
<1>. QED
  BY <1>5, <1>6, <1>7, <1>8, <1>9, <1>10, <1>11, <1>12, <1>13, <1>14, <1>15,
     <1>16, <1>17, <1>18, <1>19, <1>20, <1>21, Zenon DEF Next, Boot, Panic

\* The types in the form that the arithmetic of the other lemmas needs.
LEMMA Facts ==
  ASSUME TypeOK
  PROVE  /\ Parts = {0, 1} /\ PART_BOOT = 0 /\ PART_UPDATE = 1
         /\ active \in Parts /\ Other(0) = 1 /\ Other(1) = 0
         /\ part = [p \in Parts |-> part[p]]
         /\ \A p \in Parts :
              /\ part[p].ver \in Nat /\ maxv[p] \in Nat /\ errs[p] \in Nat
              /\ part[p].good => part[p].ver > 0
              /\ Ver[p] = part[p].ver
         /\ failures \in 0 .. 4 /\ MAX_FAILURES = 4
<1>1. Parts = {0, 1} /\ PART_BOOT = 0 /\ PART_UPDATE = 1
  BY DEF Parts, PART_BOOT, PART_UPDATE
<1>2. \A p \in Parts : part[p] \in Partition
  BY DEF TypeOK
<1>3. \A p \in Parts : part[p].ver \in Nat
  BY <1>2, VersionsNat, Zenon
<1>4. \A p \in Parts : maxv[p] \in Nat /\ errs[p] \in Nat
  <2>1. \A p \in Parts : maxv[p] \in Versions \cup {0} /\ errs[p] \in Nat
    BY DEF TypeOK
  <2>. QED
    BY <2>1, VersionsNat, Zenon
<1>5. \A p \in Parts : part[p].good => part[p].ver > 0
  BY <1>3 DEF TypeOK
<1>. QED
  BY <1>1, <1>3, <1>4, <1>5 DEF TypeOK, Other, Ver, MAX_FAILURES

\* The build of a device does not change.
LEMMA BuildStep ==
  ASSUME [Next]_vars
  PROVE  /\ build' = build
         /\ Disk' = Disk /\ HwSwap' = HwSwap /\ ALLOW_DOWNGRADE' = ALLOW_DOWNGRADE
         /\ ~(Disk /\ HwSwap)
<1>1. build' = build
  BY SMTT(30)
    DEF Next, vars, Boot, Start, StartDisk, Check, Verify, VerifyDisk, Erase, Mark,
         Swap, Panic, Success, DownloadErase, DownloadHeader, DownloadBody,
         Trigger, Reset, Decay, PowerCut
<1>. QED
  BY <1>1, SMTT(30) DEF Disk, HwSwap, ALLOW_DOWNGRADE

\* Every step keeps what the control point says of the state.
LEMMA ControlStep ==
  ASSUME TypeOK, TypeOK', ControlInv, [Next]_vars
  PROVE  ControlInv'
<1>. USE Facts, BuildStep
<1>. USE DEF ControlInv, Dest, disk
<1>1. CASE Start
  BY <1>1 DEF Start, GiveUp
<1>2. CASE StartDisk \/ Check \/ Reset \/ UNCHANGED vars
  BY <1>2 DEF StartDisk, Check, Reset, vars
<1>3. CASE Verify \/ VerifyDisk
  BY <1>3 DEF Verify, VerifyDisk, wolfBoot_fallback_is_possible
<1>4. CASE Erase
  BY <1>4 DEF Erase
<1>9. CASE Mark
  <2>1. pc' = "swap" => HwSwap /\ active' = PART_UPDATE
    BY <1>9 DEF Mark
  <2>2. pc' = "app" /\ HwSwap => active' = PART_BOOT
    BY <1>9 DEF Mark
  <2>3. pc' \in {"swap", "app"} /\ ~Disk
    BY <1>9 DEF Mark
  <2>. QED
    BY <2>1, <2>2, <2>3
<1>5. CASE Swap
  <2>1. pc = "swap" /\ pc' \in {"mark", "start"}
    BY <1>5, Zenon DEF Swap
  <2>2. ~Disk'
    BY <2>1, Zenon
  <2>. QED
    BY <2>1, <2>2
<1>6. CASE Success \/ DownloadErase \/ Trigger \/ Decay
  BY <1>6 DEF Success, DownloadErase, Trigger, Decay
<1>7. CASE DownloadHeader
  BY <1>7, VersionsNat DEF DownloadHeader
<1>8. CASE DownloadBody \/ PowerCut
  BY <1>8 DEF DownloadBody, PowerCut
<1>. QED
  BY <1>1, <1>2, <1>3, <1>4, <1>5, <1>6, <1>7, <1>8, <1>9, Zenon DEF Next, Boot, Panic

\* The newest image stays active in update_flash_hwswap.c: the candidate is the
\* newest, an erased partition has version 0, and the swap moves the image.
LEMMA HwStep ==
  ASSUME TypeOK, ControlInv, HwInv, [Next]_vars
  PROVE  HwInv'
<1>. USE Facts, BuildStep
<1>. USE DEF HwInv, disk
<1>1. CASE Start
  BY <1>1 DEF Start, Candidate
<1>2. CASE StartDisk \/ Check \/ Reset \/ UNCHANGED vars
  BY <1>2, Zenon DEF StartDisk, Check, Reset, vars
<1>3. CASE Verify \/ VerifyDisk
  BY <1>3, Zenon DEF Verify, VerifyDisk
<1>4. CASE Erase
  <2>1. part'[Other(active')].ver = 0 /\ part'[active'].ver \in Nat
    BY <1>4 DEF Erase, Empty
  <2>. QED
    BY <2>1
<1>5. CASE Mark
  <2>1. \A p \in Parts : part'[p].ver = part[p].ver
    BY <1>5 DEF Mark, Marked, TypeOK, Partition
  <2>. QED
    BY <2>1, <1>5 DEF Mark
<1>6. CASE Swap
  <2>1. part'[0] = part[1] /\ part'[1] = part[0] /\ active' = 0 /\ active = 1
    BY <1>6 DEF Swap, ControlInv
  <2>. QED
    BY <2>1, <1>6, Zenon DEF Swap
<1>7. CASE \/ Success \/ DownloadErase \/ DownloadHeader \/ DownloadBody
           \/ Trigger \/ Decay \/ PowerCut
  BY <1>7 DEF Success, DownloadErase, DownloadHeader, DownloadBody, Trigger,
              Decay, PowerCut
<1>. QED
  BY <1>1, <1>2, <1>3, <1>4, <1>5, <1>6, <1>7 DEF Next, Boot, Panic

\* A confirmed image keeps SUCCESS in its trailer, so that it is not given up,
\* and an image that is erased for failing does not verify.
LEMMA ConfStep ==
  ASSUME TypeOK, ControlInv, ConfInv, [Next]_vars
  PROVE  ConfInv'
<1>. USE Facts, BuildStep
<1>. USE DEF ConfInv, ConfirmedKept, disk
<1>1. CASE Start
  BY <1>1, SMTT(30) DEF Start, GiveUp, Candidate
<1>2. CASE StartDisk \/ Check \/ Reset \/ UNCHANGED vars
  BY <1>2 DEF StartDisk, Check, Reset, vars
<1>3. CASE Verify \/ VerifyDisk
  BY <1>3 DEF Verify, VerifyDisk
<1>4. CASE Erase
  BY <1>4 DEF Erase, Empty
<1>5. CASE Mark
  BY <1>5 DEF Mark, Marked, TypeOK, Partition
<1>6. CASE Swap
  <2>1. part'[0] = part[1] /\ part'[1] = part[0]
    BY <1>6 DEF Swap
  <2>. QED
    BY <2>1, <1>6 DEF Swap, ControlInv
<1>7. CASE Success
  BY <1>7 DEF Success, ControlInv, TypeOK, Partition
<1>8. CASE DownloadErase
  BY <1>8 DEF DownloadErase, Empty, TornErase, Dest
<1>9. CASE DownloadHeader
  BY <1>9 DEF DownloadHeader, Dest, TypeOK, Partition
<1>10. CASE DownloadBody
  BY <1>10 DEF DownloadBody, Dest, TypeOK, Partition
<1>11. CASE Trigger
  BY <1>11 DEF Trigger, TypeOK, Partition
<1>12. CASE Decay
  BY <1>12 DEF Decay, TypeOK, Partition
<1>13. CASE PowerCut
  BY <1>13, SMTT(30) DEF PowerCut, TornErase
<1>. QED
  BY <1>1, <1>2, <1>3, <1>4, <1>5, <1>6, <1>7, <1>8, <1>9, <1>10, <1>11, <1>12,
     <1>13, Zenon DEF Next, Boot, Panic

\* update_ram.c keeps the versions that it read in step with the partitions.
LEMMA RamStep ==
  ASSUME TypeOK, TypeOK', ControlInv, RamInv, [Next]_vars
  PROVE  RamInv'
<1>. USE Facts, BuildStep
<1>. USE DEF RamInv, disk
<1>. SUFFICES ASSUME ~HwSwap, ~Disk
              PROVE  RamInv'
  BY SMTT(30)
<1>1. CASE Start
  <2>1. part' = part /\ Ver' = Ver /\ maxv' = Ver
    BY <1>1 DEF Start, Ver
  <2>2. CASE pc' = "panic"
    BY <2>2
  <2>3. CASE pc' = "check"
    BY <1>1, <2>1, <2>3 DEF Start, Candidate
  <2>4. CASE pc' = "erase"
    BY <1>1, <2>1, <2>4, SMTT(30) DEF Start, Candidate, GiveUp
  <2>. QED
    BY <1>1, <2>2, <2>3, <2>4 DEF Start
<1>2. CASE Check
  <2>1. part' = part /\ Ver' = Ver /\ maxv' = maxv /\ active' = active
    BY <1>2 DEF Check, Ver
  <2>2. CASE pc' = "panic"
    BY <2>2
  <2>3. CASE pc' = "verify"
    BY <1>2, <2>1, <2>3, SMTT(30) DEF Check, Highest
  <2>. QED
    BY <1>2, <2>2, <2>3 DEF Check
<1>3. CASE Verify
  <2>1. part' = part /\ Ver' = Ver /\ maxv' = maxv
    BY <1>3 DEF Verify, Ver
  <2>2. CASE pc' = "mark"
    BY <1>3, <2>1, <2>2 DEF Verify
  <2>3. CASE pc' = "check"
    BY <1>3, <2>1, <2>3 DEF Verify, wolfBoot_fallback_is_possible
  <2>4. CASE pc' = "panic"
    BY <2>4
  <2>. QED
    BY <1>3, <2>2, <2>3, <2>4 DEF Verify
<1>4. CASE Erase
  <2>1. /\ part'[active].ver = 0
        /\ part'[Other(active)] = part[Other(active)]
        /\ active' = Other(active) /\ maxv' = maxv /\ pc' = "check"
    BY <1>4 DEF Erase, Empty
  <2>. QED
    BY <1>4, <2>1 DEF Erase, ControlInv
<1>5. CASE Mark
  <2>1. pc' = "app"
    BY <1>5 DEF Mark
  <2>. QED
    BY <2>1
<1>6. CASE Swap \/ StartDisk \/ VerifyDisk
  BY <1>6 DEF Swap, StartDisk, VerifyDisk, ControlInv
<1>7. CASE \/ Success \/ DownloadErase \/ DownloadHeader \/ DownloadBody
           \/ Trigger \/ Decay \/ Reset \/ PowerCut
  <2>1. pc' \in {"app", "start", "download", "body"}
    BY <1>7 DEF Success, DownloadErase, DownloadHeader, DownloadBody, Trigger,
                Decay, PowerCut, Reset
  <2>. QED
    BY <2>1
<1>8. CASE UNCHANGED vars
  BY <1>8, SMTT(30) DEF vars, Ver
<1>. QED
  BY <1>1, <1>2, <1>3, <1>4, <1>5, <1>6, <1>7, <1>8, Zenon DEF Next, Boot, Panic

\* update_disk.c keeps the versions and the attempts in step with the failed
\* reads: every attempt at an image that verifies costs a failed read.
LEMMA DiskStep ==
  ASSUME TypeOK, TypeOK', ControlInv, DiskInv, [Next]_vars
  PROVE  DiskInv'
<1>. USE Facts, BuildStep
<1>. USE DEF DiskInv, disk
<1>. SUFFICES ASSUME Disk
              PROVE  DiskInv'
  BY Zenon
<1>1. CASE StartDisk
  <2>1. part' = part /\ failures' = 0
    BY <1>1 DEF StartDisk
  <2>2. /\ \A p \in Parts : maxv'[p] \in Nat /\ errs'[p] \in Nat
        /\ \A p \in Parts : maxv'[p] = part[p].ver \/ (errs'[p] > 0 /\ maxv'[p] = 0)
    <3>1. \A p \in Parts : maxv'[p] = part[p].ver \/ (errs'[p] > 0 /\ maxv'[p] = 0)
      BY <1>1 DEF StartDisk
    <3>2. errs' \in [Parts -> Nat]
      BY DEF TypeOK
    <3>. QED
      BY <3>1, <3>2
  <2>3. maxv'[active'] >= maxv'[Other(active')]
    BY <1>1, <2>2 DEF StartDisk
  <2>4. pc' = "panic" \/ (pc' = "check" /\ (maxv'[0] > 0 \/ maxv'[1] > 0))
    BY <1>1, <2>2 DEF StartDisk, Highest
  <2>5. active' \in {0, 1} /\ Other(active') = 1 - active'
    BY <1>1 DEF StartDisk, Other
  <2>. QED
    BY <2>1, <2>2, <2>3, <2>4, <2>5
<1>2. CASE Check
  <2>1. /\ part' = part /\ maxv' = maxv /\ active' = active /\ errs' = errs
        /\ failures' = failures + 1
    BY <1>2 DEF Check
  <2>2. CASE pc' = "panic"
    BY <2>2
  <2>3. CASE pc' = "verify"
    BY <1>2, <2>1, <2>3, SMTT(30) DEF Check, Highest
  <2>. QED
    BY <1>2, <2>2, <2>3 DEF Check
<1>3. CASE VerifyDisk
  <2>1. CASE pc' = "check"
    <3>1. /\ part' = part /\ maxv' = maxv /\ active' = Other(active)
          /\ failures' = failures /\ failures < MAX_FAILURES
      BY <1>3, <2>1 DEF VerifyDisk
    <3>2. /\ errs'[Other(active)] = errs[Other(active)]
          /\ \/ ~part[active].good /\ errs'[active] = errs[active]
             \/ errs'[active] = errs[active] + 1
      BY <1>3, <2>1 DEF VerifyDisk, TypeOK
    <3>. QED
      BY <1>3, <2>1, <3>1, <3>2 DEF VerifyDisk
  <2>2. CASE pc' \in {"app", "panic"}
    BY <2>2
  <2>. QED
    BY <1>3, <2>1, <2>2 DEF VerifyDisk
<1>4. CASE Start \/ Verify \/ Erase \/ Mark \/ Swap
  BY <1>4 DEF Start, Verify, Erase, Mark, Swap, ControlInv
<1>5. CASE \/ Success \/ DownloadErase \/ DownloadHeader \/ DownloadBody
           \/ Trigger \/ Decay \/ Reset \/ PowerCut
  <2>1. pc' \in {"app", "start", "download", "body"}
    BY <1>5 DEF Success, DownloadErase, DownloadHeader, DownloadBody, Trigger,
                Decay, PowerCut, Reset
  <2>. QED
    BY <2>1
<1>6. CASE UNCHANGED vars
  BY <1>6, SMTT(30) DEF vars
<1>. QED
  BY <1>1, <1>2, <1>3, <1>4, <1>5, <1>6, Zenon DEF Next, Boot, Panic

\* Every step that ends in a panic is justified: by the version guard, by two
\* partitions without a valid image, or by failed reads.
LEMMA PanicStep ==
  ASSUME Inv, TypeOK', [Next]_vars
  PROVE  PanicJustified'
<1>. USE Facts, BuildStep
<1>. USE DEF PanicJustified, Inv, disk
<1>1. CASE Start
  BY <1>1 DEF Start, Highest
<1>2. CASE StartDisk
  <2>1. part' = part /\ \A p \in Parts : errs'[p] \in Nat /\ maxv'[p] \in Nat
    BY <1>2, VersionsNat DEF StartDisk, TypeOK
  <2>2. pc' = "panic" => \A p \in Parts : maxv'[p] = 0
    BY <1>2, <2>1 DEF StartDisk, Highest
  <2>3. \A p \in Parts : maxv'[p] = part[p].ver \/ errs'[p] > 0
    BY <1>2 DEF StartDisk
  <2>. QED
    BY <2>1, <2>2, <2>3 DEF Highest
<1>3. CASE Check
  <2>1. /\ part' = part /\ maxv' = maxv /\ active' = active /\ errs' = errs
        /\ Ver' = Ver
    BY <1>3 DEF Check, Ver
  <2>2. CASE HwSwap
    BY <1>3, <2>1, <2>2 DEF Check, Highest, HwInv
  <2>3. CASE ~HwSwap /\ ~Disk
    BY <1>3, <2>1, <2>3 DEF Check, Highest, RamInv
  <2>4. CASE Disk
    <3>. SUFFICES ASSUME pc' = "panic"
                  PROVE  PanicJustified'
      OBVIOUS
    <3>0. ~ALLOW_DOWNGRADE /\ maxv[active] < Highest(maxv)
      BY <1>3, <2>4, Zenon DEF Check
    <3>1. maxv[active] < maxv[Other(active)]
      BY <3>0 DEF Highest
    <3>2. ~part[Other(active)].good \/ errs[Other(active)] > 0
      BY <1>3, <2>4, <3>1 DEF Check, DiskInv
    <3>3. errs[active] > 0 \/ part[active].ver < Highest(Ver)
      BY <1>3, <2>4, <3>1 DEF Check, DiskInv, Highest
    <3>4. \A p \in Parts : p = active \/ p = Other(active)
      OBVIOUS
    <3>. QED
      BY <2>1, <2>4, <3>0, <3>2, <3>3, <3>4, Zenon
  <2>. QED
    BY <2>2, <2>3, <2>4
<1>4. CASE Verify
  <2>1. part' = part /\ maxv' = maxv /\ errs' = errs /\ Ver' = Ver
    BY <1>4 DEF Verify, Ver
  <2>. QED
    BY <1>4, <2>1 DEF Verify, wolfBoot_fallback_is_possible, Highest, HwInv, RamInv
<1>5. CASE VerifyDisk
  <2>1. part' = part /\ maxv' = maxv /\ Ver' = Ver
    BY <1>5 DEF VerifyDisk, Ver
  <2>2. /\ errs'[Other(active)] = errs[Other(active)]
        /\ pc' = "panic" =>
             /\ failures = 4
             /\ \/ ~part[active].good /\ errs'[active] = errs[active]
                \/ errs'[active] = errs[active] + 1
    BY <1>5 DEF VerifyDisk, TypeOK
  <2>. QED
    BY <1>5, <2>1, <2>2 DEF VerifyDisk, DiskInv, Highest
<1>6. CASE \/ Erase \/ Mark \/ Swap
           \/ Success \/ DownloadErase \/ DownloadHeader \/ DownloadBody
           \/ Trigger \/ Decay \/ Reset \/ PowerCut
  <2>1. pc' # "panic"
    BY <1>6 DEF Erase, Mark, Swap, Success, DownloadErase, DownloadHeader,
                DownloadBody, Trigger, Decay, PowerCut, Reset
  <2>. QED
    BY <2>1
<1>7. CASE UNCHANGED vars
  BY <1>7 DEF vars, Ver
<1>. QED
  BY <1>1, <1>2, <1>3, <1>4, <1>5, <1>6, <1>7 DEF Next, Boot, Panic

\* A device that leaves the factory satisfies the invariant.
LEMMA InitInv == Init => Inv
<1>. SUFFICES ASSUME Init
              PROVE  Inv
  OBVIOUS
<1>. USE DEF Init
<1>1. PICK v \in Versions :
        part = [p \in Parts |->
                  IF p = PART_BOOT
                  THEN [ver |-> v, good |-> TRUE, st |-> "SUCCESS", conf |-> TRUE]
                  ELSE Empty]
  BY Zenon
<1>2. /\ [ver |-> v, good |-> TRUE, st |-> "SUCCESS", conf |-> TRUE] \in Partition
      /\ Empty \in Partition /\ v # 0
  BY VersionsNat, EmptyOK, Zenon DEF PartitionOK, Partition
<1>3. TypeOK
  <2>1. part \in [Parts -> Partition]
    BY <1>1, <1>2, Zenon
  <2>2. \A p \in Parts : part[p].good => part[p].ver # 0
    BY <1>1, <1>2 DEF Empty
  <2>. QED
    BY <2>1, <2>2, DualAssumption DEF TypeOK, Parts, MAX_FAILURES
<1>4. ControlInv /\ HwInv /\ RamInv /\ DiskInv /\ PanicJustified
  BY DEF ControlInv, HwInv, RamInv, DiskInv, PanicJustified
<1>5. ConfInv
  BY <1>1 DEF ConfInv, ConfirmedKept, Empty, Parts, PART_BOOT, PART_UPDATE
<1>. QED
  BY <1>3, <1>4, <1>5 DEF Inv

\* Every step keeps the invariant.
LEMMA InvStep == Inv /\ [Next]_vars => Inv'
<1>. SUFFICES ASSUME Inv, [Next]_vars
              PROVE  Inv'
  OBVIOUS
<1>1. TypeOK /\ ControlInv /\ ConfInv /\ HwInv /\ RamInv /\ DiskInv
  BY Zenon DEF Inv
<1>2. TypeOK'
  BY <1>1, TypeStep, Zenon
<1>3. ControlInv'
  BY <1>1, <1>2, ControlStep, Zenon
<1>4. ConfInv'
  BY <1>1, ConfStep, Zenon
<1>5. HwInv'
  BY <1>1, HwStep, Zenon
<1>6. RamInv'
  BY <1>1, <1>2, RamStep, Zenon
<1>7. DiskInv'
  BY <1>1, <1>2, DiskStep, Zenon
<1>8. PanicJustified'
  BY <1>2, PanicStep, Zenon
<1>. QED
  BY <1>2, <1>3, <1>4, <1>5, <1>6, <1>7, <1>8, Zenon DEF Inv

\* The invariant holds in every reachable state.
THEOREM Invariance == Spec => []Inv
BY InitInv, InvStep, PTL DEF Spec

\* The partitions and the locals of wolfBoot_start keep their types.
THEOREM TypeCorrect == Spec => []TypeOK
<1>1. Inv => TypeOK
  BY DEF Inv
<1>. QED
  BY <1>1, Invariance, PTL

\* wolfBoot_panic is reached only when neither partition holds an image that
\* verifies and that the version guard accepts, or after failed reads of the disk.
THEOREM StopsJustified == Spec => []PanicJustified
<1>1. Inv => PanicJustified
  BY DEF Inv
<1>. QED
  BY <1>1, Invariance, PTL

\* The boot loader never erases a valid image that called wolfBoot_success.
THEOREM ConfirmedImageKept == Spec => []ConfirmedKept
<1>1. Inv => ConfirmedKept
  BY DEF Inv, ConfInv
<1>. QED
  BY <1>1, Invariance, PTL

\* Where an image is started: after the trailer was marked, from BOOT when the
\* banks are swapped, or on a disk right after it verified.
LEMMA BootAppCases ==
  ASSUME Inv, [Next]_vars, BootApp
  PROVE  /\ ~Disk => pc = "mark" /\ (HwSwap => active = PART_BOOT)
         /\ Disk => pc = "verify"
<1>. USE Facts, BuildStep
<1>. USE DEF BootApp
<1>1. CASE Mark
  BY <1>1 DEF Mark, Inv, ControlInv
<1>2. CASE VerifyDisk
  BY <1>2 DEF VerifyDisk
<1>3. CASE Verify
  BY <1>3 DEF Verify
<1>4. CASE UNCHANGED vars
  BY <1>4 DEF vars
<1>5. ~(Start \/ StartDisk \/ Check \/ Erase \/ Swap \/ Panic \/ Success
          \/ DownloadErase \/ DownloadHeader \/ DownloadBody \/ Trigger
          \/ Reset \/ Decay \/ PowerCut)
  BY DEF Start, StartDisk, Check, Erase, Swap, Panic, Success, DownloadErase,
         DownloadHeader, DownloadBody, Trigger, Reset, Decay, PowerCut, vars
<1>. QED
  BY <1>1, <1>2, <1>3, <1>4, <1>5 DEF Next, Boot

\* do_boot starts the image with the highest version of those that verify.
THEOREM NewestImageBoots == Spec => NewestBoots
<1>1. Inv /\ [Next]_vars =>
        [BootApp => \A p \in Parts : part[p].good =>
           part[active].ver >= part[p].ver \/ errs[p] > 0]_vars
  <2>. SUFFICES ASSUME Inv, [Next]_vars, BootApp
                PROVE  \A p \in Parts : part[p].good =>
                         part[active].ver >= part[p].ver \/ errs[p] > 0
    OBVIOUS
  <2>. USE Facts, BootAppCases
  <2>1. TypeOK
    BY DEF Inv
  <2>2. \A p \in Parts : p = active \/ p = Other(active)
    BY <2>1
  <2>3. CASE HwSwap
    BY <2>1, <2>2, <2>3, BuildStep DEF Inv, HwInv
  <2>4. CASE ~HwSwap /\ ~Disk
    BY <2>1, <2>2, <2>4 DEF Inv, RamInv
  <2>5. CASE Disk
    BY <2>1, <2>2, <2>5 DEF Inv, DiskInv
  <2>. QED
    BY <2>3, <2>4, <2>5
<1>. QED
  BY <1>1, Invariance, PTL DEF Spec, NewestBoots

\* Without ALLOW_DOWNGRADE do_boot starts no image while a newer one is present.
THEOREM NoOlderImageBoots == Spec => NoDowngrade
<1>1. Inv /\ [Next]_vars =>
        [BootApp /\ ~ALLOW_DOWNGRADE => \A p \in Parts :
           part[active].ver >= part[p].ver \/ errs[p] > 0]_vars
  <2>. SUFFICES ASSUME Inv, [Next]_vars, BootApp, ~ALLOW_DOWNGRADE
                PROVE  \A p \in Parts :
                         part[active].ver >= part[p].ver \/ errs[p] > 0
    OBVIOUS
  <2>. USE Facts, BootAppCases
  <2>1. TypeOK
    BY DEF Inv
  <2>2. \A p \in Parts : p = active \/ p = Other(active)
    BY <2>1
  <2>3. CASE HwSwap
    BY <2>1, <2>2, <2>3, BuildStep DEF Inv, HwInv
  <2>4. CASE ~HwSwap /\ ~Disk
    BY <2>1, <2>2, <2>4 DEF Inv, RamInv
  <2>5. CASE Disk
    BY <2>1, <2>2, <2>5 DEF Inv, DiskInv
  <2>. QED
    BY <2>3, <2>4, <2>5
<1>. QED
  BY <1>1, Invariance, PTL DEF Spec, NoDowngrade
=============================================================================
