------------------------------ MODULE KeyVault ------------------------------
(***************************************************************************)
(* The object store of the secure world: psa_store.c, and pkcs11_store.c,  *)
(* which has the same code.  A header sector holds a table of nodes and a  *)
(* bitmap of positions, the sector after it is a backup of whatever sector *)
(* was written last, and the others hold the objects, each one marked with *)
(* its ids.  Every change goes through cache_commit: the new sector is     *)
(* written to the backup and then to its place.  Power can fail before or  *)
(* inside a flash operation, and the next call repairs what it can tell    *)
(* from a whole sector: a header by its magic, an object by its ids.       *)
(*                                                                         *)
(* Payload is counted in chunks, one for each write.                       *)
(***************************************************************************)
EXTENDS Integers, Sequences

CONSTANTS
  Objects,     \* objects: a type, a token id and an object id
  Cap,         \* chunks in an object of KEYVAULT_OBJ_SIZE
  Chunks,      \* contents of a chunk
  Layouts,     \* kinds of vault: KEYVAULT_MAX_ITEMS, how many objects share a
               \* sector, MAX_OPEN_STORES; and bounds: how many power cuts there
               \* are, and whether they can tear a flash operation
  None,        \* WOLFPSA_INVALID_ID; no handle; no chunk; no object
  Part         \* the ids of an object, some of them erased

ASSUME VaultAssumption ==
  /\ Cap \in Nat \ {0}
  /\ Layouts \subseteq [items : Nat \ {0}, per : Nat \ {0}, handles : Nat \ {0},
                         cuts : Nat, torn : BOOLEAN]
  /\ None \notin Objects /\ None \notin Chunks
  /\ Part \notin Objects /\ Part # None

VARIABLES
  layout,  \* the vault of this device
  flash,   \* its sectors: 0 the header, 1 the backup, then the objects
  todo,    \* flash operations that the running call has started
  pc,      \* where the call goes on after them
  op,      \* the running call
  handle,  \* openstores_handles
  may,     \* history: the contents that each object may have
  hit,     \* history: objects that only the backup may hold since a cut
  bad,     \* history: objects that a cut damaged where the code cannot tell
  leaked,  \* history: positions that a cut left claimed without a node
  cuts     \* history: power cuts so far

ghosts == <<may, hit, bad, leaked, cuts>>
vars == <<layout, flash, todo, pc, op, handle, ghosts>>

Positions == 0 .. layout.items - 1
Handles == 1 .. layout.handles

\* the sector of a position, and where it is in there; for the position that
\* erased flash reads as, the address wraps around to the end of the backup
Sector(pos) == 2 + pos \div layout.per
InSector(pos) == pos % layout.per

\* an entry of the node table: the size counts the chunks after the ids;
\* erased, position and size read as 0xFFFFFFFF
ErasedPos == -1
ErasedSize == Cap + 1
FreeNode == [id |-> None, pos |-> 0, size |-> 0]
Nodes == [id : Objects \cup {None, Part}, pos : Positions \cup {ErasedPos},
          size : 0 .. ErasedSize]

BlankSlot == [id |-> None, data |-> [i \in 1 .. Cap |-> None]]

\* an erased sector, read as a header and as objects: its bitmap is all ones
Erased ==
  [magic |-> FALSE, node |-> [n \in Positions |-> FreeNode],
   bits |-> Positions, slot |-> [i \in 0 .. layout.per - 1 |-> BlankSlot]]

Sectors == 0 .. Sector(layout.items - 1)

-----------------------------------------------------------------------------
(* Flash operations *)

EraseOp(s) == [op |-> "erase", sec |-> s]
WriteOp(s, c) == [op |-> "write", sec |-> s, val |-> c]

\* erase and write the backup, then the destination
cache_commit(s, c) ==
  <<EraseOp(1), WriteOp(1, c), EraseOp(s), WriteOp(s, c)>>

restore_backup(s) == <<EraseOp(s), WriteOp(s, flash[1])>>

\* check_vault: an empty header, and all objects erased
Format ==
  cache_commit(0, [Erased EXCEPT !.magic = TRUE, !.bits = {}])
    \o [i \in 1 .. Sector(layout.items - 1) - 1 |-> EraseOp(1 + i)]

Flash ==
  /\ todo # <<>>
  /\ LET o == Head(todo)
     IN flash' = [flash EXCEPT ![o.sec] =
                    IF o.op = "erase" THEN Erased ELSE o.val]
  /\ todo' = Tail(todo)
  /\ UNCHANGED <<layout, pc, op, handle, ghosts>>

-----------------------------------------------------------------------------
(* Finding objects *)

\* the node of an object in a header
Node(h, o) == {n \in Positions : h.node[n].id = o}
The(S) == CHOOSE x \in S : \A y \in S : x <= y

FreePos(h) == Positions \ h.bits

\* the position stays claimed
Deleted_KeepsBit(h, n) == [h EXCEPT !.node[n] = FreeNode]

\* the nodes after it move up
Deleted_Compacts(h, n) ==
  [h EXCEPT !.bits = @ \ {h.node[n].pos},
            !.node = [i \in Positions |->
                        IF i < n THEN @[i]
                        ELSE IF i + 1 \in Positions THEN @[i + 1] ELSE FreeNode]]

\* the header without an object's node (delete_object); bitmap_put ignores the
\* position that erased flash reads as
Deleted(h, n) ==
  [h EXCEPT !.node[n] = FreeNode, !.bits = @ \ {h.node[n].pos}]

\* the header that claims a node and a position for an object (create_object)
Claimed(h, o) ==
  LET n == The(Node(h, None))
      p == The(FreePos(h))
  IN [h EXCEPT !.node[n] = [id |-> o, pos |-> p, size |-> 0],
               !.bits = @ \cup {p}]

SlotOf(sector, pos) == sector.slot[InSector(pos)]

-----------------------------------------------------------------------------
(* The calls *)

NoOp == [call |-> "none"]
Absent == None

Init ==
  /\ layout \in Layouts
  /\ flash = [s \in Sectors |-> Erased]
  /\ todo = <<>> /\ pc = "idle" /\ op = NoOp
  /\ handle = [h \in Handles |-> None]
  /\ may = [o \in Objects |-> {Absent}]
  /\ hit = {} /\ bad = {} /\ leaked = {} /\ cuts = 0

Ready(where) == todo = <<>> /\ pc = where

\* find_free_handle
Unused == {h \in Handles : handle[h] = None}

\* the handles that are open on an object
On(o) == {h \in Handles : handle[h] # None /\ handle[h].obj = o}

\* The clients open an object for writing, or remove it, only while it is not
\* open: nothing in the store keeps a handle from outliving its object.
Begin(c, o, results) ==
  /\ Ready("idle")
  /\ op' = c
  /\ may' = [may EXCEPT ![o] = @ \cup results]
  /\ UNCHANGED <<layout, flash, todo, handle, hit, bad, leaked, cuts>>

Open(o, read) ==
  /\ Unused # {} /\ (read \/ On(o) = {})
  /\ Begin([call |-> "open", obj |-> o, read |-> read], o,
           IF read THEN {} ELSE {<<>>})
  /\ pc' = "check_vault"

Remove(o) ==
  /\ On(o) = {}
  /\ Begin([call |-> "remove", obj |-> o], o, {Absent})
  /\ pc' = "check_vault"

\* the object is gone, or empty and in a place of its own
Repaired(results) ==
  \/ results = {Absent} /\ On(op.obj) = {}
  \/ /\ pc = "truncated"
     /\ \A n \in Node(flash[0], op.obj) : flash[0].node[n].pos # ErasedPos

\* the call returns, and the object has one of these contents
Return(results) ==
  /\ pc' = "idle" /\ op' = NoOp
  /\ may' = [may EXCEPT ![op.obj] = results]
  /\ hit' = hit \ {op.obj}
  /\ bad' = IF Repaired(results) THEN bad \ {op.obj} ELSE bad

\* the call goes on there when the flash operations are done
Then(ops, where) == todo' = ops /\ pc' = where /\ UNCHANGED <<op, may, hit, bad>>

\* a vault without its magic is set up anew
check_vault_Formats ==
  /\ Ready("check_vault")
  /\ Then(IF flash[0].magic THEN <<>> ELSE Format, "find")
  /\ UNCHANGED <<layout, flash, handle, leaked, cuts>>

\* a vault without its magic is restored from the backup or set up anew
check_vault ==
  /\ Ready("check_vault")
  /\ Then(IF flash[0].magic THEN <<>>
          ELSE IF flash[1].magic THEN restore_backup(0) ELSE Format,
          "find")
  /\ UNCHANGED <<layout, flash, handle, leaked, cuts>>

\* find_object_buffer: the ids in the object's place are compared, then those
\* in the backup, and an object that is in neither is deleted
find_object_buffer ==
  /\ Ready("find")
  /\ LET n == The(Node(flash[0], op.obj))
         p == flash[0].node[n].pos
     IN CASE Node(flash[0], op.obj) = {} -> Then(<<>>, "missing")
          [] SlotOf(flash[Sector(p)], p).id = op.obj -> Then(<<>>, "found")
          [] SlotOf(flash[1], p).id = op.obj ->
               Then(restore_backup(Sector(p)), "found")
          [] OTHER -> Then(cache_commit(0, Deleted(flash[0], n)), "missing")
  /\ UNCHANGED <<layout, flash, handle, leaked, cuts>>

\* the object is not there: create_object claims a node and a position, unless
\* there is none left
missing ==
  /\ Ready("missing")
  /\ IF \/ op.call = "remove" \/ op.read
        \/ Node(flash[0], None) = {} \/ FreePos(flash[0]) = {}
     THEN Return({Absent}) /\ UNCHANGED todo
     ELSE Then(cache_commit(0, Claimed(flash[0], op.obj)), "ids")
  /\ UNCHANGED <<layout, flash, handle, leaked, cuts>>

\* create_object marks the place with the ids of the object
WithIds(sector, pos, o) == [sector EXCEPT !.slot[InSector(pos)].id = o]

ids ==
  /\ Ready("ids")
  /\ LET p == flash[0].node[The(Node(flash[0], op.obj))].pos
     IN Then(cache_commit(Sector(p), WithIds(flash[Sector(p)], p, op.obj)),
             "new")
  /\ UNCHANGED <<layout, flash, handle, leaked, cuts>>

\* update_store_size
WithSize(h, n, size) == [h EXCEPT !.node[n].size = size]

\* erase_object_payload
WithoutData(sector, pos) ==
  [sector EXCEPT !.slot[InSector(pos)].data = BlankSlot.data]

\* wolfPSA_Store_Open fills the handle; opened for writing the object is
\* truncated, and its payload erased unless it is new
opened ==
  /\ Ready("found") \/ Ready("new")
  /\ op.call = "open"
  /\ LET n == The(Node(flash[0], op.obj))
     IN /\ handle' = [handle EXCEPT ![The(Unused)] =
                        [obj |-> op.obj, node |-> n, pos |-> flash[0].node[n].pos,
                         read |-> op.read, off |-> 0]]
        /\ IF op.read
           THEN Return(may[op.obj]) /\ UNCHANGED todo
           ELSE Then(cache_commit(0, WithSize(flash[0], n, 0)),
                     IF pc = "new" THEN "truncated" ELSE "payload")
  /\ UNCHANGED <<layout, flash, leaked, cuts>>

payload ==
  /\ Ready("payload")
  /\ LET p == flash[0].node[The(Node(flash[0], op.obj))].pos
     IN Then(cache_commit(Sector(p), WithoutData(flash[Sector(p)], p)),
             "truncated")
  /\ UNCHANGED <<layout, flash, handle, leaked, cuts>>

truncated ==
  /\ Ready("truncated")
  /\ Return({<<>>})
  /\ UNCHANGED <<layout, flash, todo, handle, leaked, cuts>>

\* wolfPSA_Store_Remove: delete_object
removed ==
  /\ Ready("found") /\ op.call = "remove"
  /\ Then(cache_commit(0, Deleted(flash[0], The(Node(flash[0], op.obj)))), "gone")
  /\ UNCHANGED <<layout, flash, handle, leaked, cuts>>

gone ==
  /\ Ready("gone")
  /\ Return({Absent})
  /\ UNCHANGED <<layout, flash, todo, handle, leaked, cuts>>

\* a chunk is written when the object is already full
Fits_OneMore(off) == off <= Cap

\* len is cut down to what is left of KEYVAULT_OBJ_SIZE
Fits(off) == off < Cap

\* wolfPSA_Store_Write: the chunk goes to the place that the handle names, if
\* it fits; then the size of the node that it names grows
Write(h, c) ==
  /\ Ready("idle")
  /\ handle[h] # None /\ ~handle[h].read
  /\ flash[0].node[handle[h].node].size <= Cap
  /\ LET x    == handle[h]
         fits == Fits(x.off)
         s    == flash[Sector(x.pos)]
     IN /\ op' = [call |-> "write", obj |-> x.obj, node |-> x.node,
                  written |-> IF fits THEN <<c>> ELSE <<>>]
        /\ may' = [may EXCEPT ![x.obj] =
                     IF fits THEN @ \cup {Append(d, c) : d \in @ \ {Absent}} ELSE @]
        /\ handle' = [handle EXCEPT ![h].off = IF fits THEN @ + 1 ELSE @]
        /\ todo' = IF fits
                   THEN cache_commit(Sector(x.pos),
                          [s EXCEPT !.slot[InSector(x.pos)].data[x.off + 1] = c])
                   ELSE <<>>
        /\ bad' = IF x.obj \in bad
                  THEN bad \cup ({flash[0].node[x.node].id} \cap Objects) ELSE bad
  /\ pc' = "size"
  /\ UNCHANGED <<layout, flash, hit, leaked, cuts>>

size ==
  /\ Ready("size")
  /\ Then(cache_commit(0, WithSize(flash[0], op.node,
                            flash[0].node[op.node].size + Len(op.written))),
          "written")
  /\ UNCHANGED <<layout, flash, handle, leaked, cuts>>

written ==
  /\ Ready("written")
  /\ Return({d \in may[op.obj] \ {Absent} : Len(d) = flash[0].node[op.node].size})
  /\ UNCHANGED <<layout, flash, todo, handle, leaked, cuts>>

\* wolfPSA_Store_Read of a chunk, and wolfPSA_Store_Close
Read(h) ==
  /\ Ready("idle")
  /\ handle[h] # None
  /\ LET sz == flash[0].node[handle[h].node].size
     IN sz <= Cap /\ handle[h].off < sz
  /\ handle' = [handle EXCEPT ![h].off = @ + 1]
  /\ UNCHANGED <<layout, flash, todo, pc, op, ghosts>>

Close(h) ==
  /\ Ready("idle") /\ handle[h] # None
  /\ handle' = [handle EXCEPT ![h] = None]
  /\ UNCHANGED <<layout, flash, todo, pc, op, ghosts>>

-----------------------------------------------------------------------------
(* Power cuts *)

\* one element of S(i) for each i
OneOfEach(D, S(_)) ==
  {f \in [D -> UNION {S(i) : i \in D}] : \A i \in D : f[i] \in S(i)}

\* What an interrupted operation can leave of a node, word by word: nothing,
\* some of the ids, or the ids with or without the position and the size.
TornNode(x) ==
  IF x.id = None THEN {FreeNode}
  ELSE {FreeNode, [FreeNode EXCEPT !.id = Part]}
         \cup [id : {x.id}, pos : {x.pos, ErasedPos}, size : {x.size, ErasedSize}]

IdsOnly(slot) == [BlankSlot EXCEPT !.id = slot.id]

\* An interrupted erase leaves some of the words of a sector.  Without its
\* magic a header does not count; with it, bits of the bitmap read as one and
\* nodes are torn.  Of an object all is left, the ids, or nothing.
TornErase(s) ==
  LET NodeLeft(n) == TornNode(s.node[n])
      SlotLeft(i) == {s.slot[i], IdsOnly(s.slot[i]), BlankSlot}
  IN IF s.magic
     THEN {[s EXCEPT !.bits = s.bits \cup b, !.node = x] :
             b \in SUBSET Positions, x \in OneOfEach(Positions, NodeLeft)}
     ELSE {[s EXCEPT !.slot = x] : x \in OneOfEach(DOMAIN s.slot, SlotLeft)}

\* An interrupted write leaves the sector up to some word: the magic alone, or
\* with the bitmap and the nodes up to a torn one; or objects, and the ids of
\* the next one.
TornWrite(s) ==
  LET NodesUpTo(k, x) ==
        [n \in Positions |->
           IF n < k THEN s.node[n] ELSE IF n = k THEN x ELSE FreeNode]
      SlotsUpTo(k) ==
        [i \in DOMAIN s.slot |->
           IF i < k THEN s.slot[i]
           ELSE IF i = k THEN IdsOnly(s.slot[i]) ELSE BlankSlot]
  IN IF s.magic
     THEN {[Erased EXCEPT !.magic = TRUE]} \cup
          UNION {{[s EXCEPT !.node = NodesUpTo(k, x)] : x \in TornNode(s.node[k])}
                   : k \in Positions}
     ELSE {[s EXCEPT !.slot = SlotsUpTo(k)] : k \in DOMAIN s.slot}

\* What a cut in a flash operation can leave in its sector.  A header in the
\* backup is not read while the vault has another one.
Torn(o) ==
  LET torn == IF o.op = "erase" THEN TornErase(flash[o.sec]) ELSE TornWrite(o.val)
  IN {t \in torn : layout.torn /\ (o.sec = 1 /\ flash[0].magic => ~t.magic)}

\* the objects in the sectors that are still to be written
Struck ==
  {o \in Objects : \E i \in DOMAIN todo, n \in Node(flash[0], o) :
     todo[i].sec = Sector(flash[0].node[n].pos)}

\* what the sector of the next flash operation holds and is to hold
Meant ==
  LET s == Head(todo).sec
      writes == {i \in DOMAIN todo : todo[i].sec = s /\ todo[i].op = "write"}
  IN {todo[i].val : i \in writes}
       \cup (IF Head(todo).op = "erase" THEN {flash[s]} ELSE {})

\* The objects that a torn sector damages where the code cannot tell: their
\* nodes behind the magic, or their data behind the ids.  The backup matters
\* only to objects that may have to be restored from it.
Damaged(t) ==
  LET s == Head(todo).sec
      NodeOf(h, o) == {h.node[n] : n \in Node(h, o)}
  IN IF s = 0
     THEN {o \in Objects : t.magic /\ \A h \in Meant : NodeOf(t, o) # NodeOf(h, o)}
     ELSE {o \in Objects : \E n \in Node(flash[0], o) :
             LET p == flash[0].node[n].pos
             IN /\ s = Sector(p) \/ (s = 1 /\ o \in (hit \cup Struck) \ {op.obj})
                /\ SlotOf(t, p).id = o
                /\ \A h \in Meant : SlotOf(t, p) # SlotOf(h, p)}

\* the positions that are claimed and belong to no node
Unowned(h) ==
  h.bits \ {h.node[n].pos : n \in {n \in Positions : h.node[n].id \in Objects}}

PowerCut ==
  /\ pc # "idle" /\ cuts < layout.cuts
  /\ \/ UNCHANGED <<flash, bad, leaked>>
     \/ /\ todo # <<>>
        /\ \E t \in Torn(Head(todo)) :
             /\ flash' = [flash EXCEPT ![Head(todo).sec] = t]
             /\ bad' = bad \cup Damaged(t)
             /\ leaked' = IF t.magic /\ (Head(todo).sec = 0 \/ ~flash[0].magic)
                          THEN leaked \cup Unowned(t) ELSE leaked
  /\ todo' = <<>> /\ pc' = "idle" /\ op' = NoOp
  /\ handle' = [h \in Handles |-> None]
  /\ hit' = hit \cup Struck
  /\ cuts' = cuts + 1
  /\ UNCHANGED <<layout, may>>

Next ==
  \/ \E o \in Objects : Remove(o) \/ \E read \in BOOLEAN : Open(o, read)
  \/ \E h \in Handles :
       Read(h) \/ Close(h) \/ \E c \in Chunks : Write(h, c)
  \/ Flash \/ check_vault \/ find_object_buffer \/ missing \/ ids \/ opened
  \/ payload \/ truncated \/ removed \/ gone \/ size \/ written
  \/ PowerCut

Spec == Init /\ [][Next]_vars

-----------------------------------------------------------------------------
(* Properties *)

Contents == {Absent} \cup UNION {[1 .. n -> Chunks] : n \in 0 .. Cap}

SectorType ==
  [magic : BOOLEAN, node : [Positions -> Nodes], bits : SUBSET Positions,
   slot : [0 .. layout.per - 1 ->
             [id : Objects \cup {None}, data : [1 .. Cap -> Chunks \cup {None}]]]]

\* Sectors hold nodes and objects in range, and no object grows beyond its place.
TypeOK ==
  /\ layout \in Layouts
  /\ flash \in [Sectors -> SectorType]
  /\ pc \in {"idle", "check_vault", "find", "missing", "ids", "new", "found",
             "payload", "truncated", "gone", "size", "written"}
  /\ \A h \in Handles : handle[h] # None =>
       /\ handle[h].obj \in Objects /\ handle[h].node \in Positions
       /\ handle[h].pos \in Positions \cup {ErasedPos} /\ handle[h].off \in 0 .. Cap
  /\ may \in [Objects -> SUBSET Contents]
  /\ hit \subseteq Objects /\ bad \subseteq Objects
  /\ leaked \subseteq Positions /\ cuts \in 0 .. layout.cuts

\* the header that the next call works with, and what it would read; an object
\* of a size beyond its place cannot be read
Header ==
  IF flash[0].magic THEN flash[0]
  ELSE IF flash[1].magic THEN flash[1] ELSE [Erased EXCEPT !.bits = {}]

View(o) ==
  LET x    == Header.node[The(Node(Header, o))]
      slot == IF SlotOf(flash[Sector(x.pos)], x.pos).id = o
              THEN SlotOf(flash[Sector(x.pos)], x.pos)
              ELSE SlotOf(flash[1], x.pos)
  IN IF Node(Header, o) = {} \/ slot.id # o THEN Absent
     ELSE IF x.size > Cap THEN Part ELSE SubSeq(slot.data, 1, x.size)

\* Every call takes effect at once or not at all: at each moment an object has
\* the contents that the calls which returned gave it, or those of the one call
\* that was interrupted, and no call disturbs another object.  Power cuts make
\* two exceptions.  An object whose sector was being written (hit) may be gone,
\* as a whole: the backup is used only when the object is opened next, and a
\* call for another object overwrites it.  And nothing is said of an object that
\* a torn operation damaged where the code cannot tell (bad), its node behind
\* the magic of the header or its data behind its ids, until it is truncated or
\* found absent.
AtomicOrLost ==
  \A o \in Objects \ bad : View(o) \in may[o] \/ (View(o) = Absent /\ o \in hit)

\* No position is handed out twice: an object in the table has its position
\* claimed, and to itself.  A position that is claimed and belongs to no object
\* was left so by a header torn behind its magic (leaked); otherwise, however
\* often power fails between flash operations, none is lost.
NoLostSpace ==
  LET used == {n \in Positions : Header.node[n].id \in Objects}
      held == {n \in used : Header.node[n].pos # ErasedPos}
  IN /\ {Header.node[n].pos : n \in held} \subseteq Header.bits
     /\ Unowned(Header) \subseteq leaked
     /\ \A m, n \in used : m # n => Header.node[m].id # Header.node[n].id
     /\ \A m, n \in held : m # n => Header.node[m].pos # Header.node[n].pos

\* An open handle names the node and the place of its object, unless a torn
\* header lost that place: the object is then found in the backup sector, and
\* deleted under its handle when the backup is used.
HandlesValid ==
  \A h \in Handles :
    (handle[h] # None /\ flash[0].magic /\ handle[h].obj \notin bad) =>
    LET n == flash[0].node[handle[h].node]
    IN n.id = handle[h].obj /\ n.pos = handle[h].pos
=============================================================================
