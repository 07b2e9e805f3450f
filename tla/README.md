# wolfBoot in TLA+

TLA+ models of wolfBoot, the TLC runs that check them on small instances, and
proofs checked by TLAPS. Paths such as `src/src/update_flash.c` are relative to
the directory that holds `src/` and `tla/`.

## The system

wolfBoot is a boot loader for microcontrollers and small systems. It verifies a
signed firmware image, installs updates, and falls back to the previous image
when a new one does not confirm itself. Its parts:

| Part | Source | State it owns | Module |
|---|---|---|---|
| Swap update engine | `src/src/update_flash.c` | BOOT, UPDATE and SWAP flash | `UpdateFlash` |
| Delta updates | `src/src/update_flash.c`, `src/src/delta.c` | the patch context, BOOT patched in place | `DeltaUpdate`, `Delta` |
| Partition trailers | `src/src/libwolfboot.c` | magic, state byte and sector flags at the end of a partition | `UpdateFlash`; the write-once variant `NvmTrailer`, `Trailer`, `TrailerBytes` |
| Application API | `src/src/libwolfboot.c` | the same trailers | actions of `UpdateFlash` and `DualBoot` |
| Image manifest and verification | `src/src/image.c` | `struct wolfBoot_image` | predicates of `UpdateFlash` and `DualBoot` |
| Failure diagnostics | `src/src/libwolfboot.c` | a ring of flash sectors | `DiagLog` |
| Hardware swap, RAM boot, disk boot | `src/src/update_flash_hwswap.c`, `src/src/update_ram.c`, `src/src/update_disk.c` | which partition is active | `DualBoot` |
| Key vaults | `src/src/psa_store.c`, `src/src/pkcs11_store.c` | objects in flash, one backup sector, open handles | `KeyVault` |
| Remote flash | `src/src/uart_flash.c`, `src/tools/uart-flash-server/ufserver.c` | the position of two programs in a protocol | `UartFlash` |
| Encryption, loading, drivers, services | the rest of `src/src/`, `src/hal/` | | not modelled, see the end |

How they interact. The application downloads an image into UPDATE and calls
`wolfBoot_update_trigger`. At the next reset `wolfBoot_start` reads the two
trailers, and `wolfBoot_update` exchanges BOOT and UPDATE sector by sector
through SWAP, recording each of the three copies in a sector flag.
`wolfBoot_swap_and_final_erase` then resets the trailers and leaves BOOT in
state TESTING. The application calls `wolfBoot_success`, or the next reset
swaps back. When UPDATE holds a delta bundle the same flags record the progress
of a patch that rewrites BOOT in place. Other builds do not exchange sectors but
choose the partition to boot from. The trailers, the log and the vault live in
flash of their own; UPDATE may be on another system behind a serial line.

What makes this hard is that power can fail between any two flash operations,
that a driver can report an error in the middle of a swap, and that the decision
what to do next is taken again at every boot from what flash contains.

## Modules

| Module | What it is |
|---|---|
| `UpdateFlash` | the swap update engine, the trailers and the application API, with power cuts and failing copies |
| `SwapInvariant` | the inductive invariants of the swap: the images by phase, versions, trials |
| `UpdateFlashProofs`, `SwapPhaseProofs`, `SwapUpdateProofs`, `SwapCopyProofs`, `SwapInvariantProofs`, `VersionProofs`, `TrialProofs` | proofs about `UpdateFlash` |
| `Delta` | `wb_diff` and `wb_patch` as operators on sequences of bytes |
| `DeltaUpdate` | `UpdateFlash` with the delta branch of `wolfBoot_update` |
| `TrailerBytes` | the layout of a trailer and what each call makes of it |
| `Trailer` | the abstract trailer: calls that take effect at one instant |
| `NvmTrailer` | the write-once trailer over two sectors, which implements `Trailer` |
| `DiagLog` | the failure log |
| `DualBoot` | boot loaders that choose between two partitions |
| `DualBootProofs` | proofs about `DualBoot` |
| `KeyVault` | the object store with its backup sector |
| `UartFlash` | the calls of a device, the flash server and the line between them |
| `MC...` | instances for TLC |

### UpdateFlash

*State.* `boot`, `upd` and `swap` are the data sectors of the two partitions and
the SWAP sector. A sector holds a part of an image (`[ver, sec, whole]`) or is
`Blank`. The last sector of a partition holds its trailer: `bmagic`/`bstate`,
`umagic`/`ustate` and the sector flags `flag`. These survive a power cut. The
other variables are the locals of the running functions, `pc`, and history
variables (`cuts`, `errors`, `top`, `ran`) used by bounds and properties only.

*Steps.* Each action is one flash operation, or a run of reads. Copying a sector
is two actions: `CopyBegin` leaves the destination in any state that the erase
and the writes go through, `CopyEnd` completes it. Setting a partition state is
two writes when the trailer magic is missing. Programming flash can only clear
bits; the state and flag values are chosen so that each one is a bit-subset of
its predecessor, and `Program` is their minimum.

| Code | Actions |
|---|---|
| `wolfBoot_start` | `Start`, `Dispatch`, `MarkUpdating`, `VerifyBoot` |
| `wolfBoot_update` | `UpdateReject`, `UpdateBegin`, `SwapSector`, `SetSectorFlag`, `NextSector`, `SwapDone`, `EraseRemainder`, `RollbackDone` |
| `wolfBoot_copy_sector` | `CopyBegin`, `CopyEnd`, `CopyFail` |
| `wolfBoot_swap_and_final_erase` | `FinalErase`, `SetFinalFlags`, `EraseBootTrailer`, `EraseStaging`, `MarkTesting`, `EraseUpdateTrailer` |
| `wolfBoot_success`, `wolfBoot_update_trigger` | `Success`, `Trigger`, `TriggerState` |
| the download loops of the test applications | `Download`, `AppErase`, `AppEraseTrailer`, `AppWrite`, `DownloadEnd` |
| reset, power failure | `Reboot`, `PowerCut` |

*Build modelled.* Trailers in flash that clears bits in place, no encryption, no
downgrade, backup enabled.

*Abstractions.*
- The image type, the size limit, the hash and the signature are one predicate:
  the image is complete and its version is in `Acceptable`.
- A torn first sector keeps a readable header or is `Blank`; the header fields
  the code reads before verification are the magic, the size and the version,
  and they are written by the first write of the sector.
- A trailer sector is erased in one step. The code has no check that could tell
  a half-erased trailer from a valid one beyond the four-byte magic, so nothing
  is claimed of a cut inside such an erase.
- In all runs the application erases UPDATE and its trailer before it writes an
  image (`EraseFirst`). A download over an old trailer is in the module but not
  in a run: its flags may be those of an earlier swap, which the next update then
  resumes.
- The only flash errors are failing sector copies. The code ignores the results
  of trailer writes and of the erases outside `wolfBoot_copy_sector`.
- The swap-done marker in the staging sector is written by encrypted builds
  only, so the test for it is left out.
- Firmware installed in the factory counts as confirmed.

### Delta and DeltaUpdate

`Delta` has the encoder of the host and the decoder of the device on sequences
of bytes: literals, escaped bytes, blocks of the base image and blocks of the
new image itself. `wb_diff` searches as the code does (forward from the sector
being patched, backward in finished sectors); `wb_patch` fills one buffer and
keeps the rest of a block in its context.

`DeltaUpdate` extends `UpdateFlash`. UPDATE holds a bundle with the two patches
that `base_diff` of the sign tool makes, and every sector in flash has bytes
(`SectorBytes`), so that a patch which reads a sector that is already new reads
wrong bytes. `DeltaBegin` is the branch of `wolfBoot_update` with the choice of
the direction, `MarkNew` the write of the state for a fallback, `DeltaStart`
and `DeltaReject` the checks of `wolfBoot_delta_update`, and `PatchErase`,
`PatchSector`, `Consume`, `CopySwap`, `DeltaNextSector`, `TrailerSector` and
`DeltaRemainder` its loop. `writeonce` selects the kind of flash: on flash that
clears bits a state cannot be set back to NEW, on write-once flash it can.

*Abstractions.* A block header has three bytes instead of six, so the limits of
16 and 24 bits are not reached. The first byte of an image stands for its
manifest header. The application downloads bundles only; a bundle spans as many
sectors as the image it makes. The read cache of external flash is left out: the
patch is read at the offsets the code reads. The header of the sign tool and the
chunks in which it calls `wb_diff` have no effect on the patch.

### TrailerBytes, Trailer and NvmTrailer

On flash that can be written once between two erases a partition has two trailer
sectors. Every change copies the trailer, with the change, into the sector that
is not selected and then erases the selected one; `nvm_select_fresh_sector`
finds the current one by comparing the two. `NvmTrailer` has one action per
flash operation of `trailer_write`, `partition_magic_write` and
`nvm_select_fresh_sector`, and power cuts before and inside each. An erase that
is cut leaves the sector filled with one value, as the simulator does (`"fill"`,
`src/hal/sim.c`), or each byte old or erased (`"mix"`).

`Trailer` is what the callers rely on: one trailer, and calls that change it at
one instant, also when power fails. `OneTrailer` says that `NvmTrailer`
implements it with `val` mapped to what the next read would see (`Visible`).

*Abstractions.* The magic is one cell, and `Unit` cells are programmed together
with it. With `Unit = 2` the state is programmed with the magic, as on targets
that program double words of 64 bits; on flash programmed byte by byte a torn
write can leave a state without magic, and the implementation relation fails.
Which kind of tear the flash has is fixed for a device. Errors that the flash
driver returns inside `trailer_write` are not modelled.

### DiagLog

`WOLFBOOT_PERSIST_FAILURE_STATUS`: a ring of sectors, each with a generation and
record slots. `wolfBoot_record_failure` appends to the sector with the highest
generation; when that is full, or its next slot was torn by a cut, it erases the
next sector of the ring and writes its header first. A record is its sequence
number; a CRC tells whole from torn. Records are read newest first
(`wolfBoot_get_failure`), and the log can be cleared.

### DualBoot

Three versions of `wolfBoot_start` that boot from either of two partitions;
`build` says which one a device has and whether it allows downgrades.

| Code | Actions |
|---|---|
| `wolfBoot_dualboot_candidate` | `Start`, with `Candidate` and `GiveUp` |
| the loop of `wolfBoot_start` | `Check` (version guard), `Verify`, `Erase` |
| trial state, bank swap | `Mark`, `Swap` |
| `update_disk.c` | `StartDisk`, `Check`, `VerifyDisk` |
| application | `Success`, `Trigger`, `DownloadErase`, `DownloadHeader`, `DownloadBody`, `Reset` |
| environment | `PowerCut`, `Decay`; failed reads are part of `StartDisk` and `VerifyDisk` |

A partition is its version, whether it verifies, its trailer state and, as
history, whether its image has confirmed itself. Versions read once at the start
(`maxv`) are kept apart from those in the headers. An update on a disk is
written to the partition that the running system was not loaded from; wolfBoot
does not do this itself. Left out of the disk loader are the size limit of FSP
builds, which ends its loop, and the stop when flash cannot be protected.

### KeyVault

The store of `psa_store.c`; `pkcs11_store.c` is the same code. A call is a run of
`cache_commit`s, each of which erases and writes the backup and then the
destination: `todo` holds the flash operations of the commit, and `pc` says where
the call goes on. The next call after a cut repairs (`check_vault`,
`find_object_buffer`). Objects have up to `Cap` chunks of payload.

*Power cuts.* A cut drops the rest of `todo` and all handles, and may tear the
operation in progress, word by word. A torn erase (`TornErase`) of a header may
leave the magic with any of its nodes damaged and any bit of the bitmap erased;
of objects it may leave everything, the ids, or nothing. A torn write
(`TornWrite`), of the backup or of a destination, leaves a sector up to some
word. The code recognises a header by its magic and an object by its ids, so it
does not notice damage behind them. Three history variables say what that costs,
and the properties except exactly this:

- `hit`: objects in a sector that was being written. They may be gone as a whole,
  because the backup is read only when its own object is opened.
- `bad`: objects whose node was torn behind the magic, or whose data was torn
  behind the ids. Nothing is said of their contents until they are truncated or
  found absent.
- `leaked`: positions that a header torn behind its magic claims for no object.
  They stay claimed.

A node with an erased position (`ErasedPos`) makes the code compute an address
that wraps around to the backup sector; the model follows it there.

*Abstractions.* An object occupies one position; several positions may share a
sector. Of a node torn inside its ids it matters only that they match no object
(`Part`). The store does not keep a handle from outliving its object; the clients
are assumed not to remove an object, or open it for writing, while they have it
open (`On(o) = {}` in `Open` and `Remove`).

### UartFlash

`ext_flash_write`, `ext_flash_read` and `ext_flash_erase` send a header byte by
byte and wait for an acknowledgement of each byte. `dev` is the place of the
device in a call, `sv` that of the server in `serve_update` with its locals;
each action of the server is one `read` with all that follows up to the next
one. The two queues are the line. Faults are lost bytes (`LoseByte`), a device
that gives up too early (`EarlyTimeout`) and a reset in a call (`Reset`). When
nothing is on the line the device's counter runs out (`Timeout`), which is also
the normal end of `ext_flash_lock` and `ext_flash_unlock`.

`start` records flash and the line at the beginning of a call. The properties
are about calls that begin when the line is quiet (`Ready`), or when only the
last acknowledgement of a read was lost. After a call has failed, the server may
be in the middle of it and takes the next call for its rest; the protocol has no
means to start again. So nothing is claimed of later calls but that the server
stays inside its file (`TypeOK`) and that they return (`CallEnds`).

*Abstractions.* Addresses, lengths and versions have `WordBytes` bytes, four in
the code. The UART drivers are the queues.

## Runs

| Run | Module | Faults | Shows |
|---|---|---|---|
| `power` | `UpdateFlash` | 3 cuts | the device always boots (`NoPanic`); confirmed firmware is not replaced by older firmware, unless an image on trial has downloaded it (`AntiRollback`); FINAL_FLAGS never survives a boot (`FinalFlagsCleared`); both images stay complete while they are exchanged (`BothImagesKept`); every swap is resumed unless the header of UPDATE is lost (`SwapResumedOrLost`); an image on trial is started once (`TestedOnce`) |
| `rollback` | `UpdateFlash`, `SwapInvariant` | 3 cuts | when firmware on trial never confirms itself, the whole older image gets back into BOOT, unless it is lost or downloaded over (`RollbackHappens`); two of the inductive invariants of the proofs (`SwapSafe`, `VersionSafe`) |
| `errors` | `UpdateFlash` | 2 cuts, 2 failing copies | every boot ends (`BootCompletes`); no single fault stops the device, and unless two copies fail it stops only when neither partition holds a valid image (`PanicJustified`) |
| `delta` | `DeltaUpdate` | 2 cuts | what the patch writes is the sector of the image it promises, also when it is resumed (`PatchExact`); an update is resumed as an update (`UpdateKept`), and `AntiRollback` holds; a patch fails only when it is resumed and shrinks the image (`FitsUnlessShrinking`); the device stops only after such a failure or a fallback resumed in the wrong direction (`DeltaPanicJustified`) |
| `nvm` | `NvmTrailer` | 3 cuts, torn | the two sectors implement one trailer that every call changes at one instant, and every call returns (`OneTrailer`) |
| `diag` | `DiagLog` | 2 cuts, torn | records are read newest first (`NewestFirst`), and each one until the ring has wrapped to its sector (`KeptUntilWrap`) |
| `dual` | `DualBoot` | 2 cuts, 2 decays, 2 failed reads | the device stops only when nothing that it may boot verifies and can be read (`PanicJustified`); the newest valid image starts (`NewestBoots`, `NoDowngrade`); confirmed images are not erased (`ConfirmedKept`); boots of the hardware-swap and disk loaders end (`BootEnds`) |
| `vault` | `KeyVault` | 2 cuts, or 1 torn cut; 2 torn cuts with one position | every call is atomic, but for objects in a sector that was being written, which may be gone, and objects torn where the code cannot tell (`AtomicOrLost`); no position is handed out twice, and only a torn header loses one (`NoLostSpace`); handles name their objects (`HandlesValid`) |
| `uart` | `UartFlash` | 2 lost bytes, early timeouts or resets | a call that begins on a quiet line is exact (`ExactCalls`), fails only for a reason (`FailureExplained`), and every call returns (`CallEnds`) |
| `rolled_back` | `UpdateFlash` | 2 cuts | a sentence that the code does not keep, see below |
| `delta_direction`, `delta_size` | `DeltaUpdate` | 1 cut | two more of them |

Each module has one type invariant, which also says that the program stays
inside its data: no copy touches the trailer as data, no object grows beyond its
place, the flash server stays inside its file.

*Bounds.* `UpdateFlash` has `N = 3` sectors per partition (two of data and the
trailer; `power` has four, so that there is a sector between the first one and
the staging sector), image 1 of `N - 1` sectors and the others of one. Two
data sectors are the smallest number with a sector 0, which moves the headers,
and another one; image 1 fills the partition and so occupies the staging sector.
There are four versions, of which 4 does not verify: three that do are needed for
an image on trial to download an image older or newer than the one it would be
replaced by. `errors` has one version that verifies less, since its properties do
not compare versions, and `rolled_back` has just the two its behaviour needs.
Three cuts are one more than any of the failures that the properties except
needs. `delta` has base images of four
sectors and new ones of two, with six bytes each and a buffer of three: there
are blocks that cross a buffer and a sector, blocks of the new image, escaped
bytes, and a block whose offset would read as the escape byte. `nvm` has three
sectors, so that two flags share a byte and one does not. `diag` has a ring of
three sectors with two slots, and enough sequence numbers to go around it.
`dual` has every build and three versions, so that both partitions can hold a
newer image than the one that runs. `vault` has four kinds of vault: two objects
in sectors of their own, with two handles and one torn cut, or with one handle
and two cuts between operations; two objects that share a sector; and a vault
that is full with one object, with two torn cuts. `uart` has two bytes of flash and calls of
up to two bytes inside, across and outside it; the data include the byte of an
acknowledgement and the byte that begins a command; one call may begin on a line
that is not quiet. Deadlock is checked except where `wolfBoot_panic` is an end
state of the module (`errors`, `delta`).

*Fairness.* `BootSpec` (in `UpdateFlash` and `DualBoot`) adds weak fairness of
the boot loader: it is a sequential program that nothing blocks. `ResetSpec`,
used for `RollbackHappens` and `RolledBack`, adds weak fairness of a reset while the application
runs: the documentation speaks of what happens at "the next reboot", and
firmware that hangs is reset by a watchdog. `NvmTrailer` assumes that a call goes
on, for the same reason as `BootSpec`. `UartFlash` assumes that the device and
the server go on: the server blocks only in `read`, and the device counts while
it waits. No fairness is assumed of applications, faults or the line.

### Where the code and its documentation differ

Each of these runs checks one sentence, and TLC refutes it with one power cut, or
with two (`rolled_back`).

| Run | What happens |
|---|---|
| `rolled_back` | `docs/firmware_update.md` says that firmware which is not confirmed before the next reboot is rolled back. A cut in the final erase of the roll-back, before the older image is marked SUCCESS, makes the next boot swap the failing image in again; a second cut, after the first sector of that swap, makes `rollback_needed` true for it, because its header is already in BOOT. It is marked SUCCESS and stays |
| `delta_direction` | the comment in `wolfBoot_update` says that the state of UPDATE tells the direction of an interrupted patch. On flash that clears bits the write of NEW over UPDATING has no effect, and an interrupted fallback is resumed as the forward patch |
| `delta_size` | `docs/firmware_update.md` says that an interrupted update is continued. The size of the base image is read from the header in BOOT, which the first patched sector replaces: a resumed patch to a smaller image is refused by its bound check |

The properties of the passing runs except what the code does not ensure, and say
so where they are defined:

- A swap is not resumed when the cut falls while sector 0 of BOOT is copied over
  UPDATE: the header of UPDATE is gone, and `wolfBoot_update` returns before it
  reads the flags. The old image is intact (`HeaderLost` in `SwapResumedOrLost`).
- The older image gets back into BOOT, but with two cuts it need not stay there:
  see `rolled_back`. `RollbackHappens` therefore ends where BOOT holds the older
  image at the start of a boot or in the application.
- A fall back compares no versions and takes what is in UPDATE for the image
  before the update. When an image on trial downloads an older image and is
  reset, that one is installed, also when a newer one had been confirmed before
  (`top` in `Download`). When it downloads a newer one, that is put on trial; a
  cut in the final erase makes the next boot act on the states it read before,
  so that it swaps back and marks the first image SUCCESS (`RollbackHappens`
  excepts downloads by the image on trial).
- A failing copy in a roll-back leaves the sector flags behind, and the swap may
  be resumed after the image has confirmed itself. `errors` does not claim
  `AntiRollback`.
- A second failing copy can stop a device that has a valid image: one that fails
  in the emergency update ends it although the image in UPDATE verifies, and the
  result of the write-back in the final erase is ignored. `PanicJustified` says
  which image is left only for one failing copy.
- An object of the vault can be lost when the call after a cut is for another
  object (`hit`), damaged behind its ids or its header's magic (`bad`), and a
  position can stay claimed for ever (`leaked`).
- `update_ram.c` does not invalidate an image that fails: without downgrades it
  stops although an older image verifies, and with two failing images of one
  version its loop does not end. `wolfBoot_success` writes the trailer of BOOT
  also for an image that runs from UPDATE.
- `update_disk.c` tries the other partition after a failed read, but without
  downgrades the version guard refuses it; a header that cannot be read at the
  start counts as absent, so that an older image may boot.
- After a failed call of the UART protocol the two ends are out of step.

## Proofs

Eight modules hold theorems; every one is proved to the last leaf. A proof module
is kept small because the prover becomes slower with every obligation of a run.

### UpdateFlashProofs

These hold for every partition size, every set of images, every choice of which
images verify and which confirm, and every number of power cuts and flash errors
(`ConstantsAssumption` is the only assumption).

- `TypeCorrect`: `Spec => []TypeOK`. `TypeOK` is inductive. Beyond the ranges of
  the variables it says that the sector of a copy or an erase is a data sector,
  so the trailers are never touched as data. There is one step per action; what
  the actions have in common (contents of a torn sector, sizes, copies) are
  lemmas.
- `FinalFlagsSafe`: `Spec => []FinalFlagsCleared`. The inductive strengthening
  `FinalFlagsInv` says where the program can be while the state of UPDATE is
  FINAL_FLAGS, and that the trailer magic is then present, without which the boot
  after a power cut would not recognise the state.

### SwapInvariantProofs

Assumes in addition `MaxErrors = 0` (no copy fails) and `EraseFirst` (a download
erases UPDATE and its trailer first). Both are needed: with `N = 3` and two cuts
TLC refutes each of the three properties below when one of them is dropped. A
failing copy leaves its sector torn and the swap recorded as it was; a download
over stale flags makes the next boot resume a swap whose second image is no
longer there. The partition size, the images and the number of power cuts stay
arbitrary.

- `SwapSafeInductive`: `Spec => []SwapSafe`, with `TypeOK` and `FinalFlagsInv`.
- `NoPanicSafe`, `BothImagesKeptSafe` and `SwapResumedOrLostSafe` follow from it.
  None of the three is inductive: that BOOT can be verified at the end of a boot
  depends on what every earlier step kept.

`SwapSafe` says, for an image `o` that is or was in BOOT and an image `n` that
replaces it:

| Part | Says | Needed because |
|---|---|---|
| `FlagsInv` | sectors are exchanged in order; a trailer without magic has no flags | a missing magic reads as NEW and would restart a swap in the middle |
| `ControlInv` | what the program read of the trailers is so where it relies on it | the states read by `wolfBoot_start` are used after the resumed final erase |
| `IdleInv` | before the first flag BOOT holds `o`, and in the loop UPDATE holds `n` | a refused or interrupted update must leave BOOT bootable |
| `LostInv` | if the header of UPDATE is lost, BOOT still holds `o` | this swap is never resumed |
| `SwapInv` | each flag says where the two versions of its sector are, and the next boot resumes the swap | three copies per sector, any of them torn |
| `LoopInv` | counter, sizes and copy agree with the flags | the sizes change places after sector 0, also when the loop is resumed |
| `SwappedInv` | what is erased is beyond both images; the staging sector is saved in SWAP | the erase follows the loop with no flag to protect it |
| `FinalInv` | only the staging sector of BOOT may be missing, and SWAP has it | the final erase destroys that sector before it writes it back |

`o` and `n` are bound by an existential: a new update picks a new `n`, and the
end of a swap makes `n` the new `o`; every other step keeps both. With `N = 2`
the staging sector is sector 0, and the size the resumed final erase reads from
BOOT may be that of a missing header; the invariant covers this case too.

There is one lemma per action (`SwapPhaseProofs` holds those of `wolfBoot_start`,
`SwapUpdateProofs` those of the loop, `SwapCopyProofs` those of the copies and the
final erase, and `SwapInvariantProofs` those of the application and of resets). Each first lists what the action changes, then
shows the parts it can disturb, and closes with a lemma that says what has to be
shown for a state of the phase the action ends in (`ToQuiet`, `ToLooping`,
`ToSwapped`, `ToFinishing`).

### VersionProofs and TrialProofs

With the assumptions of `SwapInvariantProofs`, and on top of `SwapSafe`:

- `VersionSafeInductive` and `AntiRollbackSafe`: `Spec => []VersionSafe` and
  `Spec => []AntiRollback`. That the application runs a version not below `top`
  is not inductive: a swap that was begun, and a fall back, go on without
  comparing versions. `VersionSafe` therefore speaks of the first sector of BOOT,
  UPDATE and SWAP, each as long as a later step, of this boot or of one after a
  power cut, may still make it the header of BOOT: UPDATE while an image is on
  trial or a swap can be resumed (`UpdateCounts`), SWAP between its copy and the
  flag that ends its use, or as the copy of the staging sector when that is
  sector 0 (`SwapCounts`). What an image on trial downloads counts as well.
- `TrialSafeInductive` and `TestedOnceSafe`: `Spec => []TrialSafe` and
  `Spec => TestedOnce`, an action property. `TrialSafe` follows one boot of an
  image on trial: the state read is TESTING, the update allows a fall back, and
  it is refused only when UPDATE holds nothing that verifies. It also says that
  a swap that reached sector 0 of BOOT has replaced the image that was started,
  which rules out the resumed final erase, whose states are stale. No run
  checks `TrialSafe` itself; `power` checks `TestedOnce`.

### DualBootProofs

These hold for every set of builds and versions, whichever images verify, and
for every number of power cuts, decaying images and failed reads
(`DualAssumption` is the only assumption). `Invariance` proves the inductive
invariant `Inv`; from it follow `StopsJustified` (`PanicJustified`),
`ConfirmedImageKept`, and the two action properties `NewestImageBoots` and
`NoOlderImageBoots`. None of these four follows from types alone, because the
candidate is chosen in one step, compared in a second, verified in a third and
started in a fourth, and erasures and failed reads come between.

| Part | Says | Needed because |
|---|---|---|
| `ControlInv` | which loader reaches which step, and what is in the partitions there | the three loaders share their steps |
| `ConfInv` | a confirmed image has SUCCESS in its trailer, where `wolfBoot_success` can write it | only the trailer decides whether an image is given up |
| `HwInv` | the active image is the newest one from the selection on | a failing image is erased and the other one taken |
| `RamInv` | the versions read at the start are those of the headers until an image is erased; the other image is newer only when it failed | the guard compares with versions read earlier |
| `DiskInv` | a version read at the start is that of the header, or missing after a failed read; the attempts are bounded by twice the failed reads of an image that verifies | two failed reads are needed before the loop gives up a valid image |

### Only model-checked

All liveness (`RollbackHappens`, the refuted `RolledBack`, `BootCompletes`, `BootEnds`, `CallEnds`, the
fairness part of `OneTrailer`) is beyond the prover. The `PanicJustified` of
`UpdateFlash`, which is about failing copies, is checked but not proved, and so
is `AntiRollback` for delta updates. `Delta` has recursive operators that the
prover cannot use, and what they compute for every input would need induction
over data, so `DeltaUpdate` is checked for the patches of six pairs of images.
The safety parts of `NvmTrailer`, `DiagLog`, `KeyVault`
and `UartFlash` are checked on their instances.

## Not modelled

- *Encrypted partitions.* The ciphers are out of reach; without them what remains
  is address arithmetic, and the place of the key in flash, whose rewriting is
  not protected against power cuts.
- *Self-update of the boot loader.* One erase and one write of its own sectors,
  not power-fail safe by design.
- *Build variants.* `DISABLE_BACKUP`, `CUSTOM_PARTITION_TRAILER`, `FLAGS_HOME`,
  inverted flags, trailers in external flash, RAM boot without fixed partitions,
  the size limit of FSP builds.
- *Hand-off.* Loading into RAM, ELF, FIT, device trees, gzip and partition tables
  are sequential parsers over inputs far larger than an instance TLC can
  enumerate.
- *Drivers and platforms.* SPI, QSPI, SDHCI, PCI and AHCI drivers, platform
  start-up and most of the HAL are register accesses; they are by far the largest
  part of the repository.
- *Services.* Secure-world callables, TPM and wolfHSM code forward checked
  arguments to external libraries; DICE encodes certificates; the OTP keystore is
  a read-only lookup; the allocators serve calls made outside the repository.
- *Host tools.* Apart from the flash server and the patches of the sign tool they
  process files on a development machine.

`PROJECT.json` lists every part with its status, and the hazards of the code with
the properties that cover them.
