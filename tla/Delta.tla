--------------------------------- MODULE Delta ---------------------------------
(***************************************************************************)
(* The binary patches of delta updates, src/src/delta.c: wb_diff, run by   *)
(* the sign tool on the host, and wb_patch, run by wolfBoot.               *)
(*                                                                         *)
(* An image and a patch are sequences of bytes.  Offsets count from 0, as  *)
(* in the code.  A block header has one offset byte and one size byte      *)
(* here, three and two in the code: it is <<ESC, offset, size>>.           *)
(***************************************************************************)
LOCAL INSTANCE Naturals
LOCAL INSTANCE Sequences
LOCAL INSTANCE FiniteSetsExt

CONSTANTS
  ESC,          \* the byte that begins a block header; doubled it is a literal
  SectorSize,   \* WOLFBOOT_SECTOR_SIZE, in bytes
  BlockSize     \* DELTA_BLOCK_SIZE, the buffer wb_patch fills

BLOCK_HDR_SIZE == 3

Slice(s, off, n) == SubSeq(s, off + 1, off + n)
Byte(s, off)     == s[off + 1]

--------------------------------------------------------------------------------
(* wb_diff *)

\* The offset byte follows ESC in the header, so it must not be ESC itself.
Encodable(start) == start # ESC

\* BLOCK_HDR_SIZE bytes of s at `start` equal those of b at `off`.
Matches(s, start, b, off) ==
  Slice(s, start, BLOCK_HDR_SIZE) = Slice(b, off, BLOCK_HDR_SIZE)

\* Where the base image a is matched: from the page being patched on, since
\* the pages before it are overwritten by then.
ForwardStart(off) == (off \div SectorSize) * SectorSize

ForwardMatches(a, b, off) ==
  {start \in ForwardStart(off) .. Len(a) - 1 :
     /\ Len(a) - start >= BLOCK_HDR_SIZE
     /\ SectorSize - (off % SectorSize) >= BLOCK_HDR_SIZE
     /\ Matches(a, start, b, off)
     /\ Encodable(start)}

\* A match in a is extended while the bytes are equal, up to but not including
\* the last byte of a and of the page of b.
ForwardSize(a, b, start, off) ==
  Min({n \in BLOCK_HDR_SIZE .. Len(b) :
         \/ start + n + 1 >= Len(a)
         \/ off + n >= Len(b)
         \/ Byte(a, start + n) # Byte(b, off + n)
         \/ off \div SectorSize < (off + n + 1) \div SectorSize})

\* What is patched already, at least a page back, is matched in b itself.
BackwardMatches(b, off) ==
  {start \in 0 .. ForwardStart(off) - 1 :
     /\ start + SectorSize <= ForwardStart(off)
     /\ Matches(b, start, b, off)
     /\ Encodable(start)}

BackwardSize(b, start, off) ==
  Min({n \in BLOCK_HDR_SIZE .. Len(b) :
         \/ start + n + 1 >= ForwardStart(off)
         \/ off + n >= Len(b)
         \/ Byte(b, start + n) # Byte(b, off + n)})

Literal(byte) == IF byte = ESC THEN <<ESC, ESC>> ELSE <<byte>>

\* The patch that makes b from off on; the first match is taken.
RECURSIVE DiffFrom(_, _, _)
DiffFrom(a, b, off) ==
  LET searched == off + BLOCK_HDR_SIZE < Len(b)
      forward  == IF searched THEN ForwardMatches(a, b, off) ELSE {}
      backward == IF searched THEN BackwardMatches(b, off) ELSE {}
      Block(start, n) == <<ESC, start, n>> \o DiffFrom(a, b, off + n)
  IN  IF off >= Len(b) THEN <<>>
      ELSE IF forward # {} THEN
        Block(Min(forward), ForwardSize(a, b, Min(forward), off))
      ELSE IF backward # {} THEN
        Block(Min(backward), BackwardSize(b, Min(backward), off))
      ELSE Literal(Byte(b, off)) \o DiffFrom(a, b, off + 1)

wb_diff(a, b) == DiffFrom(a, b, 0)

--------------------------------------------------------------------------------
(* wb_patch *)

\* What is kept from one buffer to the next: the position in the patch, and
\* the rest of a block that did not fit.
wb_patch_init == [p_off |-> 0, blk_off |-> 0, blk_sz |-> 0]

Error(ctx) == [ctx |-> ctx, out |-> <<>>, ok |-> FALSE]

\* The iterations of wb_patch that fill a buffer of len bytes, of which out
\* is there.  src is what BOOT holds, ssz the size the bounds are checked with.
RECURSIVE PatchLoop(_, _, _, _, _, _)
PatchLoop(src, ssz, p, ctx, out, len) ==
  LET matching == ctx.blk_sz > 0
      room     == len - Len(out)
      left     == Len(p) - ctx.p_off
      Copy(off, sz, checked, p_off) ==
        LET n == Min({sz, room}) IN
        IF off > ssz \/ checked > ssz - off THEN Error(ctx)
        ELSE PatchLoop(src, ssz, p,
               [p_off |-> p_off,
                blk_off |-> IF sz > n THEN off + n ELSE 0,
                blk_sz |-> sz - n],
               out \o Slice(src, off, n), len)
      Put(byte, n) ==
        PatchLoop(src, ssz, p, [ctx EXCEPT !.p_off = @ + n],
                  Append(out, byte), len)
  IN  IF room = 0 \/ (~matching /\ left = 0) THEN
        [ctx |-> ctx, out |-> out, ok |-> TRUE]
      ELSE IF matching THEN
        Copy(ctx.blk_off, ctx.blk_sz, Min({ctx.blk_sz, len}), ctx.p_off)
      ELSE IF Byte(p, ctx.p_off) # ESC THEN Put(Byte(p, ctx.p_off), 1)
      ELSE IF left < 2 THEN Error(ctx)
      ELSE IF Byte(p, ctx.p_off + 1) = ESC THEN Put(ESC, 2)
      ELSE IF left < BLOCK_HDR_SIZE THEN Error(ctx)
      ELSE Copy(Byte(p, ctx.p_off + 1), Byte(p, ctx.p_off + 2),
                Byte(p, ctx.p_off + 2), ctx.p_off + BLOCK_HDR_SIZE)

wb_patch(src, ssz, p, ctx) == PatchLoop(src, ssz, p, ctx, <<>>, BlockSize)

\* The buffers that make up one sector, of which `out` is there.
RECURSIVE SectorLoop(_, _, _, _, _)
SectorLoop(src, ssz, p, ctx, out) ==
  LET r == wb_patch(src, ssz, p, ctx)
  IN  IF Len(out) >= SectorSize THEN [ctx |-> ctx, out |-> out, ok |-> TRUE]
      ELSE IF ~r.ok THEN r
      ELSE IF r.out = <<>> THEN [ctx |-> r.ctx, out |-> out, ok |-> TRUE]
      ELSE SectorLoop(src, ssz, p, r.ctx, out \o r.out)

PatchedSector(src, ssz, p, ctx) == SectorLoop(src, ssz, p, ctx, <<>>)
================================================================================
