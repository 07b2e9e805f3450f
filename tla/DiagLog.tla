------------------------------ MODULE DiagLog ------------------------------
(***************************************************************************)
(* The persistent failure log of libwolfboot.c                             *)
(* (WOLFBOOT_PERSIST_FAILURE_STATUS): a ring of flash sectors, each with a *)
(* header that carries a generation and a fixed number of record slots.    *)
(* Power can fail before or inside any flash operation; a flash operation  *)
(* that returns an error ends the call in the same way, since no call      *)
(* leaves anything in RAM.                                                 *)
(*                                                                         *)
(* A record is its sequence number; a header is its generation.  The CRCs  *)
(* are modelled by what they tell apart: whole from torn.                  *)
(***************************************************************************)
EXTENDS Integers, SequencesExt

CONSTANTS
  N,         \* DIAG_N_SECTORS
  Slots,     \* DIAG_SLOTS_PER_SECTOR
  MaxSeq,    \* bound on sequence numbers
  MaxCuts    \* bound on power cuts

ASSUME DiagAssumption ==
  /\ N \in Nat \ {0} /\ Slots \in Nat \ {0}
  /\ MaxSeq \in Nat /\ MaxCuts \in Nat

VARIABLES
  hdr,    \* generation in each sector's header, NoHdr when it does not decode
  slot,   \* the record slots of each sector
  pc,     \* where the running call is
  at,     \* the sector it works on: active, target, or the loop counter
  gen,    \* the generation it writes into a header
  seq,    \* the sequence number it writes into a record
  log,    \* history: records whose call returned 0, since the last clear
  cuts    \* history: power cuts so far

vars == <<hdr, slot, pc, at, gen, seq, log, cuts>>

Ring == 0 .. N - 1

\* a header that does not decode; an erased slot; a slot torn by a power cut
NoHdr == 0
Blank == 0
Torn == -1

BlankSector == [k \in 1 .. Slots |-> Blank]

-----------------------------------------------------------------------------
(* Reading the log *)

\* diag_read_record: only a whole record decodes
Decodes(r) == r > 0

\* the index of the first record that fails to decode
diag_sector_count(s) ==
  Max({n \in 0 .. Slots : \A k \in 1 .. n : Decodes(s[k])})

Valid == {i \in Ring : hdr[i] # NoHdr}

\* diag_scan: the first sector with the highest generation
Active == CHOOSE i \in Valid : \A j \in Valid :
            hdr[j] < hdr[i] \/ (hdr[j] = hdr[i] /\ i <= j)

\* diag_ordered starts at sector 0
diag_ordered_FromZero ==
  SelectSeq([k \in 1 .. N |-> k - 1], LAMBDA i : i \in Valid)

\* the valid sectors from the oldest to the newest
diag_ordered ==
  IF Valid = {} THEN <<>>
  ELSE SelectSeq([k \in 1 .. N |-> (Active + k) % N], LAMBDA i : i \in Valid)

\* the records that can be read, oldest first
Stored ==
  LET order == diag_ordered
  IN FlattenSeq([k \in DOMAIN order |->
       SubSeq(slot[order[k]], 1, diag_sector_count(slot[order[k]]))])

wolfBoot_get_failure_count == Len(Stored)

\* index 0 is the most recent record
wolfBoot_get_failure(index) == Stored[Len(Stored) - index]

\* the highest sequence number among the last records of the sectors
diag_max_seq ==
  Max({0} \cup {slot[i][diag_sector_count(slot[i])]
                  : i \in {j \in Valid : diag_sector_count(slot[j]) > 0}})

-----------------------------------------------------------------------------
(* wolfBoot_record_failure *)

Init ==
  /\ hdr = [i \in Ring |-> NoHdr]
  /\ slot = [i \in Ring |-> BlankSector]
  /\ pc = "idle" /\ at = 0 /\ gen = 0 /\ seq = 0
  /\ log = {} /\ cuts = 0

\* the record goes to the first slot that does not decode, erased or not
Full_IgnoresTorn(s) == diag_sector_count(s) = Slots

\* the active sector is full, or its next slot holds a torn write
Full(s) ==
  \/ diag_sector_count(s) = Slots
  \/ s[diag_sector_count(s) + 1] # Blank

\* scan; initialise an empty region, rotate, or append
Record ==
  /\ pc = "idle"
  /\ IF Valid = {}
     THEN pc' = "erase" /\ at' = 0 /\ gen' = 1 /\ seq' = 1
     ELSE /\ seq' = diag_max_seq + 1
          /\ IF Full(slot[Active])
             THEN /\ pc' = "erase" /\ at' = (Active + 1) % N
                  /\ gen' = hdr[Active] + 1
             ELSE pc' = "append" /\ at' = Active /\ gen' = gen
  /\ seq' <= MaxSeq
  /\ UNCHANGED <<hdr, slot, log, cuts>>

\* diag_erase of the sector that becomes active
EraseTarget ==
  /\ pc = "erase"
  /\ hdr' = [hdr EXCEPT ![at] = NoHdr]
  /\ slot' = [slot EXCEPT ![at] = BlankSector]
  /\ pc' = "header"
  /\ UNCHANGED <<at, gen, seq, log, cuts>>

\* diag_write_header
WriteHeader ==
  /\ pc = "header"
  /\ hdr' = [hdr EXCEPT ![at] = gen]
  /\ pc' = "append"
  /\ UNCHANGED <<slot, at, gen, seq, log, cuts>>

\* diag_write of the record, and return 0; programming can only clear bits, so
\* a record written over another one does not decode
AppendRecord ==
  /\ pc = "append"
  /\ slot' = [slot EXCEPT ![at][diag_sector_count(slot[at]) + 1] =
                IF @ = Blank THEN seq ELSE Torn]
  /\ log' = log \cup {[seq |-> seq, gen |-> hdr[at]]}
  /\ pc' = "idle"
  /\ UNCHANGED <<hdr, at, gen, seq, cuts>>

-----------------------------------------------------------------------------
(* wolfBoot_clear_failures *)

Clear ==
  /\ pc = "idle"
  /\ pc' = "clear" /\ at' = 0
  /\ log' = {}
  /\ UNCHANGED <<hdr, slot, gen, seq, cuts>>

\* the loop runs one sector too far
ClearSector_PastEnd ==
  /\ pc = "clear"
  /\ hdr' = [hdr EXCEPT ![at] = NoHdr]
  /\ slot' = [slot EXCEPT ![at] = BlankSector]
  /\ IF at < N THEN pc' = "clear" /\ at' = at + 1
               ELSE pc' = "idle" /\ at' = at
  /\ UNCHANGED <<gen, seq, log, cuts>>

\* diag_erase of one sector after the other
ClearSector ==
  /\ pc = "clear"
  /\ hdr' = [hdr EXCEPT ![at] = NoHdr]
  /\ slot' = [slot EXCEPT ![at] = BlankSector]
  /\ IF at + 1 < N THEN pc' = "clear" /\ at' = at + 1
                   ELSE pc' = "idle" /\ at' = at
  /\ UNCHANGED <<gen, seq, log, cuts>>

-----------------------------------------------------------------------------
(* Power cuts *)

\* an interrupted erase leaves any part of the sector, and what is left of a
\* record may no longer decode
TornSlots(s) == {t \in [1 .. Slots -> {Blank, Torn} \cup ToSet(s)] :
                   \A k \in 1 .. Slots : t[k] \in {Blank, s[k]}
                                            \/ (t[k] = Torn /\ s[k] # Blank)}

\* what the flash operation that was running can leave behind
Interrupted ==
  CASE pc \in {"erase", "clear"} ->
         /\ hdr' \in {hdr, [hdr EXCEPT ![at] = NoHdr]}
         /\ \E s \in TornSlots(slot[at]) : slot' = [slot EXCEPT ![at] = s]
    [] pc = "append" ->
         /\ hdr' = hdr
         /\ slot' \in {slot, [slot EXCEPT
                                ![at][diag_sector_count(slot[at]) + 1] = Torn]}
    [] OTHER -> hdr' = hdr /\ slot' = slot

PowerCut ==
  /\ pc # "idle" /\ cuts < MaxCuts
  /\ Interrupted
  /\ pc' = "idle" /\ at' = 0 /\ gen' = 0 /\ seq' = 0
  /\ cuts' = cuts + 1
  /\ UNCHANGED log

Next ==
  \/ Record \/ EraseTarget \/ WriteHeader \/ AppendRecord
  \/ Clear \/ ClearSector
  \/ PowerCut

Spec == Init /\ [][Next]_vars

-----------------------------------------------------------------------------
(* Properties *)

\* Headers and slots hold what the code can decode or a torn write, and the
\* sector a call works on is in the ring.
TypeOK ==
  /\ hdr \in [Ring -> Nat]
  /\ slot \in [Ring -> [1 .. Slots -> -1 .. MaxSeq]]
  /\ pc \in {"idle", "erase", "header", "append", "clear"}
  /\ at \in Ring /\ gen \in Nat /\ seq \in 0 .. MaxSeq
  /\ log \subseteq [seq : 1 .. MaxSeq, gen : Nat]

\* wolfBoot_get_failure returns the records newest first, also while a sector
\* is half erased or a record or header is torn.
NewestFirst ==
  \A i, j \in 0 .. wolfBoot_get_failure_count - 1 :
    i < j => wolfBoot_get_failure(i) > wolfBoot_get_failure(j)

\* A record whose call returned can be read until the ring has wrapped around
\* to its sector, whatever power cuts do to the sectors that are erased in
\* between.
KeptUntilWrap ==
  \A r \in log :
    (\A i \in Ring : hdr[i] < r.gen + N - 1) => Contains(Stored, r.seq)
=============================================================================
