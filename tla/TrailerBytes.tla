---------------------------- MODULE TrailerBytes ----------------------------
(***************************************************************************)
(* The trailer at the end of a partition as libwolfboot.c lays it out: a   *)
(* row of bytes in which cell 0 stands for the magic word, cell 1 is the   *)
(* partition state and cell 2 + p holds the flags of the sectors 2p and    *)
(* 2p + 1, counted the way get_trailer_at counts them; and what each call  *)
(* makes of it.                                                            *)
(***************************************************************************)
EXTENDS Integers

CONSTANTS
  NSectors,  \* sectors that have a flag
  States     \* partition states that the callers set

ASSUME TrailerAssumption ==
  /\ NSectors \in Nat \ {0}
  /\ States \subseteq 0 .. 254

\* FLASH_BYTE_ERASED, also IMG_STATE_NEW
Erased == 255

\* the byte of WOLFBOOT_MAGIC_TRAIL at the lowest address stands for the word
Magic == 66

\* IMG_STATE_UPDATING
Updating == 112

\* SECT_FLAG_SWAPPING, SECT_FLAG_BACKUP, SECT_FLAG_UPDATED
Flags == {7, 3, 0}

\* the cells of a trailer
Cells == 0 .. 1 + (NSectors + 1) \div 2

\* the content of an erased trailer
Blank == [c \in Cells |-> Erased]

HasMagic(t) == t[0] = Magic

\* the old flag is not masked out of the byte
WithNibble_NoMask(byte, sector, flag) ==
  IF sector % 2 = 0 THEN (byte \div 16) * 16 + flag ELSE flag * 16 + byte

\* wolfBoot_set_update_sector_flag: two sectors share a byte, the even one has
\* the low nibble
WithNibble(byte, sector, flag) ==
  IF sector % 2 = 0 THEN (byte \div 16) * 16 + flag
                    ELSE flag * 16 + (byte % 16)

FlagCell(sector) == 2 + sector \div 2

NoCall == [call |-> "none"]

Calls ==
  [call : {"get", "trigger", "erase"}]
    \cup [call : {"state"}, st : States]
    \cup [call : {"flag"}, sector : 0 .. NSectors - 1, flag : Flags]

\* the cell a setter writes and the byte it writes there
Target(o) == IF o.call = "flag" THEN FlagCell(o.sector) ELSE 1

NewByte(t, o) ==
  CASE o.call = "state"   -> o.st
    [] o.call = "trigger" -> Updating
    [] o.call = "flag"    -> WithNibble(t[FlagCell(o.sector)], o.sector, o.flag)

\* the trailer after the call
Effect(t, o) ==
  CASE o.call = "get"   -> t
    [] o.call = "erase" -> Blank
    [] OTHER -> [t EXCEPT ![0] = Magic, ![Target(o)] = NewByte(t, o)]
=============================================================================
