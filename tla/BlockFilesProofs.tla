-------------------------- MODULE BlockFilesProofs --------------------------
(***************************************************************************)
(* Theorems about BlockFiles, for any tree of blocks, any arrival order,   *)
(* any number of crashes and power losses: what the index points at can be *)
(* read, on disk and in memory, the start never fails, recent blocks are   *)
(* kept and pruned files do not pile up.                                   *)
(***************************************************************************)
EXTENDS BlockFiles, FiniteSetTheorems, WellFoundedInduction, TLAPS

(* Time for the provers on a busy machine. *)
USE SMTT(60)

Position == [data : BOOLEAN, undo : BOOLEAN, file : File, pos : Nat, upos : Nat]
Info == [size : Nat, undoSize : Nat, last : Nat]
Call == [mode : {"NONE", "PERIODIC", "IF_NEEDED", "ALWAYS"}, full : BOOLEAN, prune : SUBSET File]
Slots == Seq(Block \cup {Garbage})

TypeOK ==
    /\ index \in [Block -> Position] /\ info \in [File -> Info]
    /\ cursor \in [file : File, undoHeight : Nat]
    /\ dirty \in [blocks : SUBSET Block, files : SUBSET File]
    /\ tip \in Block /\ coinsTip \in Block
    /\ flush \in Call
    /\ disk \in [index : [Block -> Position], info : [File -> Info], last : File, pruned : BOOLEAN]
    /\ blk \in [File -> Slots] /\ rev \in [File -> Slots]

(* What CBlockFileInfo says of a file f of blocks bl and undo data rv: it  *)
(* counts what is there, a file that was left is full or pruned, and one   *)
(* of two blocks has a block above genesis.                                *)
Fits(i, f, last, bl, rv, pruned) ==
    /\ i.size <= Len(bl) /\ i.undoSize <= Len(rv)
    /\ i.size = 0 => i.undoSize = 0
    /\ f > last => i.size = 0
    /\ f < last => i.size >= FileCapacity \/ (i.size = 0 /\ pruned)
    /\ i.size > 1 => i.last >= 1

(* An index, in memory or on disk: every entry is within its file, whose   *)
(* nHeightLast covers it, and no file is counted without an entry.         *)
StoredIn(e, b, inf, last, bl) ==
    /\ e.file <= last /\ e.pos \in 1..inf[e.file].size
    /\ bl[e.file][e.pos] = b
    /\ Height[b] <= inf[e.file].last
UndoneIn(e, b, inf, rv) ==
    /\ b # Genesis /\ e.data /\ e.upos \in 1..inf[e.file].undoSize
    /\ rv[e.file][e.upos] = b \/ (PowerLoss /\ rv[e.file][e.upos] = Garbage)
Readable(ix, inf, last, bl, rv, pruned) ==
    /\ \A b \in Block : ix[b].data => StoredIn(ix[b], b, inf, last, bl)
    /\ \A b \in Block : ix[b].undo => UndoneIn(ix[b], b, inf, rv)
    /\ \A f \in File : Fits(inf[f], f, last, bl[f], rv[f], pruned)
    /\ \A f \in File : inf[f].size # 0 => \E b \in Block : ix[b].data /\ ix[b].file = f

(* The database, which must survive at any moment. *)
DiskInv ==
    /\ Readable(disk.index, disk.info, disk.last, blk, rev, disk.pruned)
    /\ \A b \in Block : disk.index[b].data
                          => BlkSlot(disk.index[b].file, disk.index[b].pos) \notin unsynced

(* The index in memory.  Blocks outside the current file are synced; what  *)
(* is not dirty is as on disk; files only grow, unless they were pruned;   *)
(* and a file is unlinked after the database forgot it.                    *)
Synced == \A b \in Block : index[b].data /\ (index[b].file # cursor.file \/ pc = "writeIndex")
                             => BlkSlot(index[b].file, index[b].pos) \notin unsynced
CleanIsOnDisk ==
    /\ \A b \in Block \ dirty.blocks : index[b] = disk.index[b]
    /\ \A f \in File \ dirty.files : info[f] = disk.info[f]
Grown ==
    /\ disk.last <= cursor.file
    /\ \A f \in File : info[f].size # 0 \/ f >= cursor.file
         => info[f].size >= disk.info[f].size /\ info[f].undoSize >= disk.info[f].undoSize
Flushing ==
    /\ pc \in {"writeIndex", "unlink"} => \A f \in flush.prune : f < cursor.file /\ info[f].size = 0
    /\ pc \in {"unlink", "flushCoins"} => dirty = Clean
MemInv ==
    /\ Readable(index, info, cursor.file, blk, rev, disk.pruned)
    /\ Synced /\ CleanIsOnDisk /\ Grown /\ Flushing

IInv ==
    /\ TypeOK /\ pc # "failed"
    /\ DiskInv
    /\ pc # "down" => MemInv

-----------------------------------------------------------------------------
(* Heights, sequences and slots. *)

(* A set of numbers has a least one. *)
LEMMA Minimum ==
    ASSUME NEW S, S \subseteq Nat, S # {}
    PROVE  \E m \in S : \A n \in S : m <= n
<1> DEFINE R == OpToRel(<, Nat)
<1>1. IsWellFoundedOn(R, Nat)
  BY NatLessThanWellFounded, Zenon
<1>2. PICK m \in S : \A n \in S : ~(<<n, m>> \in R)
  <2> HIDE DEF R
  <2> QED
    BY <1>1, WFMin, Zenon
<1>3. ASSUME NEW n \in S PROVE m <= n
  <2>1. ~(n < m)
    BY <1>2, Zenon DEF OpToRel
  <2> QED
    BY <2>1
<1> QED
  BY <1>3

(* Height is the height that the tree has. *)
LEMMA HeightDefined ==
    /\ \A b \in Block : Height[b] \in Nat
    /\ \A b \in Block : b # Genesis => Height[b] >= 1
    /\ Height[Genesis] = 0
<1> DEFINE IsHeight(h) == h = [b \in Block |-> IF b = Genesis THEN 0 ELSE 1 + h[Parent[b]]]
<1>1. PICK h \in [Block -> 0..Cardinality(Block)] : IsHeight(h)
  BY TreeAssumption, Zenon
<1>2. IsHeight(Height)
  <2>1. Height = CHOOSE x : IsHeight(x)
    BY Zenon DEF Height
  <2> HIDE DEF IsHeight
  <2> QED
    BY <1>1, <2>1, Zenon
<1>3. \A b \in Block : h[b] = IF b = Genesis THEN 0 ELSE 1 + h[Parent[b]]
  BY <1>1, Zenon
<1>4. \A b \in Block : Height[b] = IF b = Genesis THEN 0 ELSE 1 + Height[Parent[b]]
  BY <1>2, Zenon
<1>5. \A b \in Block : h[b] \in Nat
  BY <1>1, TreeAssumption, FS_CardinalityType
<1> DEFINE Bad == {n \in Nat : \E b \in Block : h[b] = n /\ Height[b] # h[b]}
<1> HIDE DEF IsHeight
<1>6. Bad = {}
  <2> SUFFICES ASSUME Bad # {} PROVE FALSE
    OBVIOUS
  <2>1. PICK n \in Bad : \A m \in Bad : n <= m
    <3>1. Bad \subseteq Nat
      BY Zenon
    <3> HIDE DEF Bad
    <3> QED
      BY <3>1, Minimum, Zenon
  <2>2. PICK b \in Block : h[b] = n /\ Height[b] # h[b]
    BY <2>1, Zenon
  <2>3. b # Genesis
    BY <1>3, <1>4, <2>2, Zenon
  <2>4. Parent[b] \in Block
    BY <2>2, <2>3, BlockFilesAssumption
  <2>5. h[b] = 1 + h[Parent[b]] /\ Height[b] = 1 + Height[Parent[b]]
    BY <1>3, <1>4, <2>3, Zenon
  <2>6. h[Parent[b]] \in Nat /\ ~(n <= h[Parent[b]])
    BY <1>5, <2>2, <2>4, <2>5
  <2>7. Height[Parent[b]] = h[Parent[b]]
    BY <2>1, <2>4, <2>6, Zenon
  <2> QED
    BY <2>2, <2>5, <2>7, Zenon
<1>7. \A b \in Block : Height[b] = h[b]
  BY <1>5, <1>6, Zenon
<1> QED
  <2> HIDE DEF Bad
  <2>1. \A b \in Block : b # Genesis => Parent[b] \in Block
    BY BlockFilesAssumption
  <2>2. Height[Genesis] = 0
    BY <1>4, BlockFilesAssumption, Zenon
  <2> QED
    BY <1>4, <1>5, <1>7, <2>1, <2>2

(* Put writes the next slot, whether or not something is there. *)
LEMMA PutAt ==
    ASSUME NEW s \in Slots, NEW n \in Nat, n <= Len(s), NEW x \in Block
    PROVE  LET t == Put(s, n + 1, x)
           IN  /\ t \in Slots /\ Len(t) >= Len(s) /\ Len(t) >= n + 1
               /\ t[n + 1] = x
               /\ \A i \in 1..n : t[i] = s[i]
<1>1. CASE n + 1 <= Len(s)
  BY <1>1 DEF Put, Slots
<1>2. CASE ~(n + 1 <= Len(s))
  <2>1. Len(s) = n
    BY <1>2 DEF Slots
  <2> QED
    BY <1>2, <2>1 DEF Put, Slots
<1> QED
  BY <1>1, <1>2

LEMMA OneSlot ==
    ASSUME NEW f, NEW p, NEW g, NEW q, f # g \/ p # q
    PROVE  BlkSlot(f, p) # BlkSlot(g, q)
<1>1. BlkSlot(f, p)[2] = f /\ BlkSlot(f, p)[3] = p /\ BlkSlot(g, q)[2] = g /\ BlkSlot(g, q)[3] = q
  BY DEF BlkSlot
<1> QED
  BY <1>1, Zenon

LEMMA SlotsDiffer ==
    ASSUME NEW f, NEW p, NEW g, NEW q
    PROVE  /\ BlkSlot(f, p) # RevSlot(g, q)
           /\ BlkSlot(f, p) \in unsynced => BlkSlot(f, p) \in SlotsOf("blk", f)
           /\ BlkSlot(f, p)[1] = "blk" /\ BlkSlot(f, p)[2] = f
<1>1. BlkSlot(f, p)[1] = "blk" /\ BlkSlot(f, p)[2] = f
  BY DEF BlkSlot
<1>2. RevSlot(g, q)[1] = "rev"
  BY DEF RevSlot
<1>3. "rev" # "blk"
  OBVIOUS
<1> QED
  BY <1>1, <1>2, <1>3, Zenon DEF SlotsOf

(* The database stays readable when its slots keep what they hold, but for *)
(* undo data that a power loss takes.                                      *)
LEMMA DiskStays ==
    ASSUME TypeOK, DiskInv,
           disk'.index = disk.index, disk'.info = disk.info, disk'.last = disk.last,
           disk.pruned => disk'.pruned,
           \A f \in File : disk.info[f].size <= Len(blk'[f]) /\ disk.info[f].undoSize <= Len(rev'[f]),
           \A b \in Block : disk.index[b].data =>
               /\ blk'[disk.index[b].file][disk.index[b].pos] = blk[disk.index[b].file][disk.index[b].pos]
               /\ BlkSlot(disk.index[b].file, disk.index[b].pos) \notin unsynced',
           \A b \in Block : disk.index[b].undo =>
               \/ rev'[disk.index[b].file][disk.index[b].upos] = rev[disk.index[b].file][disk.index[b].upos]
               \/ PowerLoss /\ rev'[disk.index[b].file][disk.index[b].upos] = Garbage
    PROVE  DiskInv'
<1> DEFINE ix == disk.index
           inf == disk.info
           last == disk.last
<1>1. \A b \in Block : ix[b].data => StoredIn(ix[b], b, inf, last, blk')
  BY Zenon DEF DiskInv, Readable, StoredIn
<1>2. \A b \in Block : ix[b].undo => UndoneIn(ix[b], b, inf, rev')
  BY Zenon DEF DiskInv, Readable, UndoneIn
<1>3. \A f \in File : Fits(inf[f], f, last, blk'[f], rev'[f], disk'.pruned)
  BY Zenon DEF DiskInv, Readable, Fits
<1>4. \A f \in File : inf[f].size # 0 => \E b \in Block : ix[b].data /\ ix[b].file = f
  BY Zenon DEF DiskInv, Readable
<1> QED
  BY <1>1, <1>2, <1>3, <1>4, Zenon DEF DiskInv, Readable

-----------------------------------------------------------------------------
(* Storing blocks and undo data. *)

Up == IInv /\ pc # "down"

(* What the invariant says of an entry in memory and on disk. *)
LEMMA EntryTypes ==
    ASSUME TypeOK, NEW b \in Block
    PROVE  /\ index[b] \in Position /\ disk.index[b] \in Position
           /\ index[b].file \in File /\ disk.index[b].file \in File
           /\ index[b].pos \in Nat /\ disk.index[b].pos \in Nat
           /\ index[b].upos \in Nat /\ disk.index[b].upos \in Nat
           /\ index[b].data \in BOOLEAN /\ index[b].undo \in BOOLEAN
BY DEF TypeOK, Position

LEMMA InfoTypes ==
    ASSUME TypeOK, NEW f \in File
    PROVE  /\ info[f] \in Info /\ disk.info[f] \in Info
           /\ info[f].size \in Nat /\ info[f].undoSize \in Nat /\ info[f].last \in Nat
           /\ disk.info[f].size \in Nat /\ disk.info[f].undoSize \in Nat
           /\ blk[f] \in Slots /\ rev[f] \in Slots /\ Len(blk[f]) \in Nat /\ Len(rev[f]) \in Nat
           /\ f \in Nat /\ cursor.file \in File /\ cursor.file \in Nat
           /\ cursor.undoHeight \in Nat /\ disk.last \in File /\ disk.last \in Nat
<1>1. \A s \in Slots : Len(s) \in Nat
  BY DEF Slots
<1>2. File \subseteq Nat
  BY BlockFilesAssumption DEF File
<1>3. info[f] \in Info /\ disk.info[f] \in Info
  BY DEF TypeOK
<1>4. blk[f] \in Slots /\ rev[f] \in Slots
  BY DEF TypeOK
<1>5. cursor.file \in File /\ cursor.undoHeight \in Nat /\ disk.last \in File
  BY DEF TypeOK
<1>6. \A i \in Info : i.size \in Nat /\ i.undoSize \in Nat /\ i.last \in Nat
  BY DEF Info
<1> QED
  BY <1>1, <1>2, <1>3, <1>4, <1>5, <1>6, Zenon

(* Where the slots of an entry are, on disk and in memory. *)
LEMMA DiskSlots ==
    ASSUME TypeOK, DiskInv, NEW c \in Block
    PROVE  LET e == disk.index[c]
           IN  /\ e.data => /\ e.pos \in 1..disk.info[e.file].size /\ e.pos \in DOMAIN blk[e.file]
                            /\ blk[e.file][e.pos] = c /\ BlkSlot(e.file, e.pos) \notin unsynced
               /\ e.undo => e.upos \in 1..disk.info[e.file].undoSize /\ e.upos \in DOMAIN rev[e.file]
<1> DEFINE g == disk.index[c].file
           q == disk.index[c].pos
           u == disk.index[c].upos
<1>1. g \in File
  BY EntryTypes
<1>2. Fits(disk.info[g], g, disk.last, blk[g], rev[g], disk.pruned)
  BY <1>1, Zenon DEF DiskInv, Readable
<1>3. disk.info[g].size <= Len(blk[g]) /\ disk.info[g].undoSize <= Len(rev[g])
  BY <1>2, Zenon DEF Fits
<1>4. disk.index[c].data => q \in 1..disk.info[g].size /\ blk[g][q] = c /\ BlkSlot(g, q) \notin unsynced
  BY Zenon DEF DiskInv, Readable, StoredIn
<1>5. disk.index[c].undo => u \in 1..disk.info[g].undoSize
  BY Zenon DEF DiskInv, Readable, UndoneIn
<1> HIDE DEF g, q, u
<1>6. /\ blk[g] \in Slots /\ rev[g] \in Slots /\ Len(blk[g]) \in Nat /\ Len(rev[g]) \in Nat
      /\ disk.info[g].size \in Nat /\ disk.info[g].undoSize \in Nat
  BY <1>1, InfoTypes, Zenon
<1>7. /\ q \in 1..disk.info[g].size => q \in DOMAIN blk[g]
      /\ u \in 1..disk.info[g].undoSize => u \in DOMAIN rev[g]
  BY <1>3, <1>6 DEF Slots
<1> QED
  BY <1>4, <1>5, <1>7, Zenon DEF g, q, u

LEMMA MemSlots ==
    ASSUME TypeOK, MemInv, NEW c \in Block
    PROVE  LET e == index[c]
           IN  /\ e.data => e.pos \in DOMAIN blk[e.file] /\ blk[e.file][e.pos] = c
               /\ e.undo => /\ e.upos \in DOMAIN rev[e.file]
                            /\ rev[e.file][e.upos] = c \/ (PowerLoss /\ rev[e.file][e.upos] = Garbage)
<1> DEFINE g == index[c].file
           q == index[c].pos
           u == index[c].upos
<1>1. g \in File
  BY EntryTypes
<1>2. Fits(info[g], g, cursor.file, blk[g], rev[g], disk.pruned)
  BY <1>1, Zenon DEF MemInv, Readable
<1>3. info[g].size <= Len(blk[g]) /\ info[g].undoSize <= Len(rev[g])
  BY <1>2, Zenon DEF Fits
<1>4. index[c].data => q \in 1..info[g].size /\ blk[g][q] = c
  BY Zenon DEF MemInv, Readable, StoredIn
<1>5. index[c].undo => u \in 1..info[g].undoSize /\ (rev[g][u] = c \/ (PowerLoss /\ rev[g][u] = Garbage))
  BY Zenon DEF MemInv, Readable, UndoneIn
<1> HIDE DEF g, q, u
<1>6. /\ blk[g] \in Slots /\ rev[g] \in Slots /\ Len(blk[g]) \in Nat /\ Len(rev[g]) \in Nat
      /\ info[g].size \in Nat /\ info[g].undoSize \in Nat
  BY <1>1, InfoTypes, Zenon
<1>7. /\ q \in 1..info[g].size => q \in DOMAIN blk[g]
      /\ u \in 1..info[g].undoSize => u \in DOMAIN rev[g]
  BY <1>3, <1>6 DEF Slots
<1> QED
  BY <1>4, <1>5, <1>7, Zenon DEF g, q, u

LEMMA AddBlockIs ==
    ASSUME NEW i \in Info, NEW h \in Nat
    PROVE  LET j == AddBlock(i, h)
           IN  /\ j \in Info /\ j.size = i.size + 1 /\ j.undoSize = i.undoSize
               /\ j.last >= i.last /\ j.last >= h
<1>1. i.size \in Nat /\ i.undoSize \in Nat /\ i.last \in Nat
  BY DEF Info
<1> DEFINE m == IF h > i.last THEN h ELSE i.last
           k == i.size + 1
<1>2. m \in Nat /\ m >= i.last /\ m >= h /\ k \in Nat
  BY <1>1
<1>3. AddBlock(i, h) = [i EXCEPT !.size = k, !.last = m]
  BY DEF AddBlock, Info
<1> HIDE DEF m, k
<1>4. [i EXCEPT !.size = k, !.last = m] \in Info
  BY <1>2, Zenon DEF Info
<1>5. /\ [i EXCEPT !.size = k, !.last = m].size = k
      /\ [i EXCEPT !.size = k, !.last = m].last = m
      /\ [i EXCEPT !.size = k, !.last = m].undoSize = i.undoSize
  BY DEF Info
<1> QED
  BY <1>2, <1>3, <1>4, <1>5, Zenon DEF k

(* Where the new block goes. *)
Saved(b, f, p) ==
    /\ p = info[f].size + 1
    /\ cursor' \in [file : File, undoHeight : Nat] /\ cursor'.file = f
    /\ f = cursor.file \/ (f = cursor.file + 1 /\ info[cursor.file].size >= FileCapacity)
    /\ info' = [info EXCEPT ![f] = AddBlock(@, Height[b])]
    /\ blk' = [blk EXCEPT ![f] = Put(@, p, b)]
    /\ index' = [index EXCEPT ![b] = [NoPos EXCEPT !.data = TRUE, !.file = f, !.pos = p]]
    /\ dirty' = [blocks |-> dirty.blocks \cup {b}, files |-> dirty.files \cup {f}]
    /\ unsynced' \subseteq unsynced \cup {BlkSlot(f, p)}
    /\ f # cursor.file => \A q : BlkSlot(cursor.file, q) \notin unsynced'
    /\ ~index[b].data /\ pc = "running" /\ pc' \in {"flush", "running"}
    /\ UNCHANGED <<tip, rev, flush, disk, coinsTip>>

LEMMA SavedAt ==
    ASSUME Up, NEW b \in Block, NEW allocated \in BOOLEAN, SaveBlockToDisk(b, allocated)
    PROVE  \E f \in File, p \in Nat : Saved(b, f, p)
<1> DEFINE n == cursor.file
           full == info[n].size + 1 > FileCapacity
           f == FindBlockPos.file
           p == info[f].size + 1
<1>1. TypeOK
  BY DEF Up, IInv
<1>2. n \in File /\ n \in Nat /\ info[n].size \in Nat /\ cursor \in [file : File, undoHeight : Nat]
  <2>1. n \in File
    BY <1>1 DEF TypeOK
  <2> QED
    BY <1>1, <2>1, InfoTypes DEF TypeOK
<1>3. f = (IF full THEN n + 1 ELSE n) /\ f \in File
  BY Zenon DEF FindBlockPos, SaveBlockToDisk
<1>4. cursor' = IF full THEN [file |-> n + 1, undoHeight |-> 0] ELSE cursor
  BY Zenon DEF FindBlockPos, SaveBlockToDisk
<1>5. full => info[n].size >= FileCapacity
  BY <1>2, BlockFilesAssumption
<1>6. p \in Nat
  BY <1>1, <1>3, InfoTypes
<1>7. full => SlotsOf("blk", n) \subseteq FindBlockPos.synced
  BY Zenon DEF FindBlockPos
<1>8. unsynced' = (unsynced \ FindBlockPos.synced) \cup {BlkSlot(f, p)}
  BY Zenon DEF SaveBlockToDisk
<1>9. /\ info' = [info EXCEPT ![f] = AddBlock(@, Height[b])]
      /\ blk' = [blk EXCEPT ![f] = Put(@, p, b)]
      /\ index' = [index EXCEPT ![b] = [NoPos EXCEPT !.data = TRUE, !.file = f, !.pos = p]]
      /\ dirty' = [blocks |-> dirty.blocks \cup {b}, files |-> dirty.files \cup {f}]
      /\ ~index[b].data /\ pc = "running" /\ pc' \in {"flush", "running"}
      /\ UNCHANGED <<tip, rev, flush, disk, coinsTip>>
  BY Zenon DEF SaveBlockToDisk
<1> HIDE DEF full, p, f
<1>10. cursor' \in [file : File, undoHeight : Nat] /\ cursor'.file = f
  BY <1>2, <1>3, <1>4
<1>11. unsynced' \subseteq unsynced \cup {BlkSlot(f, p)}
  BY <1>8, Zenon
<1>12. ASSUME f # n, NEW q PROVE BlkSlot(n, q) \notin unsynced'
  <2>1. full
    BY <1>3, <1>12, Zenon
  <2>2. BlkSlot(n, q) \notin unsynced \ FindBlockPos.synced
    BY <1>7, <2>1, SlotsDiffer, Zenon
  <2>3. BlkSlot(n, q) # BlkSlot(f, p)
    BY <1>12, OneSlot
  <2> QED
    BY <1>8, <2>2, <2>3, Zenon
<1>13. f = n \/ (f = n + 1 /\ info[n].size >= FileCapacity)
  BY <1>3, <1>5, Zenon
<1>14. p = info[f].size + 1
  BY Zenon DEF p
<1>15. f \in File
  BY <1>3, Zenon
<1> HIDE DEF n
<1> QED
  BY <1>6, <1>9, <1>10, <1>11, <1>12, <1>13, <1>14, <1>15, Zenon DEF n, Saved

LEMMA SaveGood ==
    ASSUME Up, NEW b \in Block, NEW allocated \in BOOLEAN, SaveBlockToDisk(b, allocated)
    PROVE  IInv'
<1>0. PICK f \in File, p \in Nat : Saved(b, f, p)
  BY SavedAt, Zenon
<1>1. /\ p = info[f].size + 1
      /\ cursor' \in [file : File, undoHeight : Nat] /\ cursor'.file = f
      /\ f = cursor.file \/ (f = cursor.file + 1 /\ info[cursor.file].size >= FileCapacity)
      /\ info' = [info EXCEPT ![f] = AddBlock(@, Height[b])]
      /\ blk' = [blk EXCEPT ![f] = Put(@, p, b)]
      /\ index' = [index EXCEPT ![b] = [NoPos EXCEPT !.data = TRUE, !.file = f, !.pos = p]]
      /\ dirty' = [blocks |-> dirty.blocks \cup {b}, files |-> dirty.files \cup {f}]
      /\ unsynced' \subseteq unsynced \cup {BlkSlot(f, p)}
      /\ f # cursor.file => \A q : BlkSlot(cursor.file, q) \notin unsynced'
      /\ ~index[b].data /\ pc = "running" /\ pc' \in {"flush", "running"}
      /\ UNCHANGED <<tip, rev, flush, disk, coinsTip>>
  BY <1>0, Zenon DEF Saved
<1>2. TypeOK /\ DiskInv /\ MemInv
  BY DEF Up, IInv
<1> DEFINE n == cursor.file
<1>3. n \in Nat /\ f \in Nat /\ n <= f /\ Height[b] \in Nat /\ n \in File
  BY <1>1, <1>2, InfoTypes, HeightDefined
<1>4. /\ info'[f].size = p /\ info'[f].undoSize = info[f].undoSize
      /\ info'[f].last >= info[f].last /\ info'[f].last >= Height[b] /\ info'[f] \in Info
      /\ \A g \in File \ {f} : info'[g] = info[g]
      /\ info' \in [File -> Info]
  <2>1. info[f] \in Info /\ info \in [File -> Info]
    BY <1>2, InfoTypes DEF TypeOK
  <2>2. /\ AddBlock(info[f], Height[b]) \in Info /\ AddBlock(info[f], Height[b]).size = info[f].size + 1
        /\ AddBlock(info[f], Height[b]).undoSize = info[f].undoSize
        /\ AddBlock(info[f], Height[b]).last >= info[f].last
        /\ AddBlock(info[f], Height[b]).last >= Height[b]
    BY <1>3, <2>1, AddBlockIs, Zenon
  <2>3. info'[f] = AddBlock(info[f], Height[b]) /\ \A g \in File \ {f} : info'[g] = info[g]
    BY <1>1, <2>1, Zenon
  <2>4. info' \in [File -> Info]
    BY <1>1, <2>1, <2>2, Zenon
  <2> QED
    BY <1>1, <2>2, <2>3, <2>4, Zenon
<1>5. /\ blk' \in [File -> Slots]
      /\ Len(blk'[f]) >= p /\ Len(blk'[f]) >= Len(blk[f]) /\ Len(blk'[f]) \in Nat
      /\ blk'[f][p] = b /\ \A i \in 1..info[f].size : blk'[f][i] = blk[f][i]
      /\ \A g \in File \ {f} : blk'[g] = blk[g]
  <2>1. blk[f] \in Slots /\ info[f].size \in Nat /\ blk \in [File -> Slots]
    BY <1>2, InfoTypes DEF TypeOK
  <2>2. info[f].size <= Len(blk[f])
    BY <1>2, Zenon DEF MemInv, Readable, Fits
  <2> DEFINE s == blk[f]
             m == info[f].size
             t == Put(s, m + 1, b)
  <2>3. /\ t \in Slots /\ Len(t) >= Len(s) /\ Len(t) >= m + 1
        /\ t[m + 1] = b
        /\ \A i \in 1..m : t[i] = s[i]
    <3>1. s \in Slots /\ m \in Nat /\ m <= Len(s)
      BY <2>1, <2>2
    <3> HIDE DEF s, m
    <3> QED
      BY <3>1, PutAt
  <2>4. blk'[f] = t /\ \A g \in File \ {f} : blk'[g] = blk[g]
    BY <1>1, <2>1, Zenon
  <2>5. blk' \in [File -> Slots]
    BY <1>1, <2>1, <2>3, Zenon
  <2> HIDE DEF t
  <2>6. Len(t) \in Nat
    BY <2>3 DEF Slots
  <2>7. p = m + 1
    BY <1>1, Zenon
  <2>8. Len(t) >= p /\ t[p] = b
    BY <2>3, <2>7, Zenon
  <2> HIDE DEF m, s
  <2>9. \A i \in 1..m : t[i] = s[i]
    BY <2>3, Zenon
  <2> QED
    BY <2>3, <2>4, <2>5, <2>6, <2>8, <2>9, Zenon DEF m, s
<1>6. /\ index' \in [Block -> Position]
      /\ index'[b].data /\ ~index'[b].undo /\ index'[b].file = f /\ index'[b].pos = p
      /\ \A c \in Block \ {b} : index'[c] = index[c]
  <2>1. index \in [Block -> Position]
    BY <1>2 DEF TypeOK
  <2> DEFINE e == [NoPos EXCEPT !.data = TRUE, !.file = f, !.pos = p]
  <2>2. e \in Position /\ e.data /\ ~e.undo /\ e.file = f /\ e.pos = p
    <3>1. NoPos \in Position /\ ~NoPos.undo
      BY BlockFilesAssumption DEF NoPos, Position, File
    <3>2. e \in Position
      BY <3>1, Zenon DEF Position
    <3>3. e.data = TRUE /\ e.undo = NoPos.undo /\ e.file = f /\ e.pos = p
      BY <3>1 DEF Position
    <3> HIDE DEF e
    <3> QED
      BY <3>1, <3>2, <3>3, Zenon
  <2>3. index' = [index EXCEPT ![b] = e]
    BY <1>1, Zenon
  <2> HIDE DEF e
  <2> QED
    BY <2>1, <2>2, <2>3, Zenon
<1>7. TypeOK'
  <2>1. dirty' \in [blocks : SUBSET Block, files : SUBSET File]
    BY <1>1, <1>2 DEF TypeOK
  <2> QED
    BY <1>1, <1>2, <1>4, <1>5, <1>6, <2>1 DEF TypeOK
<1>8. ASSUME NEW c \in Block, disk.index[c].data
      PROVE  /\ BlkSlot(disk.index[c].file, disk.index[c].pos) # BlkSlot(f, p)
             /\ blk'[disk.index[c].file][disk.index[c].pos] = blk[disk.index[c].file][disk.index[c].pos]
  <2> DEFINE g == disk.index[c].file
             q == disk.index[c].pos
  <2>1. g \in File /\ q \in Nat /\ q \in 1..disk.info[g].size
    BY <1>2, <1>8, EntryTypes DEF DiskInv, Readable, StoredIn
  <2>2. g = f => disk.info[f].size <= info[f].size
    BY <1>2, <1>3 DEF MemInv, Grown
  <2>3. g = f => q \in 1..info[f].size /\ q # p
    <3>1. info[f].size \in Nat /\ disk.info[f].size \in Nat
      BY <1>2, InfoTypes
    <3> HIDE DEF g, q
    <3> QED
      BY <1>1, <2>1, <2>2, <3>1
  <2> HIDE DEF g, q
  <2>4. BlkSlot(g, q) # BlkSlot(f, p)
    BY <2>3, OneSlot
  <2>5. blk'[g][q] = blk[g][q]
    BY <1>5, <2>1, <2>3, Zenon
  <2> QED
    BY <2>4, <2>5 DEF g, q
<1>9. DiskInv'
  <2>1. disk' = disk /\ rev' = rev
    BY <1>1
  <2>3. ASSUME NEW g \in File PROVE disk.info[g].size <= Len(blk'[g]) /\ disk.info[g].undoSize <= Len(rev'[g])
    <3>1. /\ disk.info[g].size <= Len(blk[g]) /\ disk.info[g].undoSize <= Len(rev[g])
          /\ disk.info[g].size \in Nat /\ Len(blk[g]) \in Nat
      BY <1>2, InfoTypes DEF DiskInv, Readable, Fits
    <3> QED
      BY <1>5, <2>1, <3>1
  <2>4. \A c \in Block : disk.index[c].data => BlkSlot(disk.index[c].file, disk.index[c].pos) \notin unsynced'
    BY <1>1, <1>2, <1>8, Zenon DEF DiskInv
  <2> QED
    BY <1>2, <1>8, <2>1, <2>3, <2>4, DiskStays, Zenon
<1>10. ASSUME NEW c \in Block \ {b}, index[c].data
       PROVE  /\ StoredIn(index[c], c, info', f, blk')
              /\ index[c].file # f => BlkSlot(index[c].file, index[c].pos) \notin unsynced'
  <2> DEFINE g == index[c].file
             q == index[c].pos
  <2>1. g \in File /\ q \in Nat
    BY <1>2, EntryTypes
  <2>2. g <= n /\ q \in 1..info[g].size /\ blk[g][q] = c /\ Height[c] <= info[g].last
    BY <1>2, <1>10 DEF MemInv, Readable, StoredIn
  <2>3. info[g].size \in Nat /\ info[g].last \in Nat /\ g \in Nat /\ Height[c] \in Nat
    BY <1>2, <2>1, InfoTypes, HeightDefined
  <2>4. info[f].size \in Nat /\ info'[f].last \in Nat
    BY <1>2, <1>4, InfoTypes DEF Info
  <2>5. g # n => BlkSlot(g, q) \notin unsynced
    BY <1>2, <1>10, Zenon DEF MemInv, Synced
  <2> HIDE DEF g, q
  <2>6. g <= f
    BY <1>3, <2>2, <2>3
  <2>7. q \in 1..info'[g].size /\ Height[c] <= info'[g].last
    <3>1. CASE g = f
      BY <1>1, <1>4, <2>2, <2>3, <2>4, <3>1
    <3>2. CASE g # f
      BY <1>4, <2>1, <2>2, <3>2, Zenon
    <3> QED
      BY <3>1, <3>2
  <2>8. blk'[g][q] = c
    BY <1>5, <2>1, <2>2, Zenon
  <2>9. g # f => BlkSlot(g, q) \notin unsynced'
    <3>1. CASE g = n
      BY <1>1, <3>1, Zenon
    <3>2. CASE g # n
      BY <1>1, <2>5, <3>2, OneSlot
    <3> QED
      BY <3>1, <3>2
  <2> QED
    BY <2>6, <2>7, <2>8, <2>9, Zenon DEF StoredIn, g, q
<1>11. Readable(index', info', f, blk', rev', disk'.pruned)
  <2>1. ASSUME NEW c \in Block, index'[c].data PROVE StoredIn(index'[c], c, info', f, blk')
    <3>1. CASE c = b
      <4>1. f <= f /\ p \in 1..p
        BY <1>1, <1>2, <1>3, InfoTypes
      <4> QED
        BY <1>4, <1>5, <1>6, <3>1, <4>1 DEF StoredIn
    <3>2. CASE c # b
      BY <1>6, <1>10, <2>1, <3>2, Zenon
    <3> QED
      BY <3>1, <3>2
  <2>2. ASSUME NEW c \in Block, index'[c].undo PROVE UndoneIn(index'[c], c, info', rev')
    <3>1. c # b /\ index'[c] = index[c] /\ index[c].undo
      BY <1>6, <2>2, Zenon
    <3>2. UndoneIn(index[c], c, info, rev)
      BY <1>2, <3>1, Zenon DEF MemInv, Readable
    <3>3. info'[index[c].file].undoSize = info[index[c].file].undoSize
      BY <1>2, <1>4, EntryTypes, Zenon
    <3> QED
      BY <1>1, <3>1, <3>2, <3>3, Zenon DEF UndoneIn
  <2>3. ASSUME NEW g \in File PROVE Fits(info'[g], g, f, blk'[g], rev'[g], disk'.pruned)
    <3>1. Fits(info[g], g, n, blk[g], rev[g], disk.pruned)
      BY <1>2, Zenon DEF MemInv, Readable
    <3>2. /\ info[g].size \in Nat /\ info[g].undoSize \in Nat /\ Len(blk[g]) \in Nat /\ g \in Nat
          /\ info[g].last \in Nat /\ rev' = rev /\ disk' = disk
      BY <1>1, <1>2, InfoTypes
    <3>3. CASE g # f
      <4>1. info'[g] = info[g] /\ blk'[g] = blk[g]
        BY <1>4, <1>5, <3>3, Zenon
      <4>2. g > f => g > n
        BY <1>3, <3>2
      <4>3. g < f => g < n \/ (g = n /\ info[g].size >= FileCapacity)
        BY <1>1, <1>3, <3>2
      <4> QED
        BY <3>1, <3>2, <4>1, <4>2, <4>3, Zenon DEF Fits
    <3>4. CASE g = f
      <4>1. /\ info'[f].size <= Len(blk'[f]) /\ info'[f].undoSize <= Len(rev'[f])
            /\ info'[f].size # 0 /\ ~(f > f) /\ ~(f < f)
        BY <1>1, <1>3, <1>4, <1>5, <3>1, <3>2, <3>4 DEF Fits
      <4>2. info'[f].size > 1 => info'[f].last >= 1
        <5>1. CASE info[f].size > 1
          BY <1>4, <3>1, <3>2, <3>4, <5>1 DEF Fits, Info
        <5>2. CASE info[f].size = 1
          <6>1. PICK c \in Block : index[c].data /\ index[c].file = f
            BY <1>2, <5>2 DEF MemInv, Readable
          <6>2. Height[c] <= info[f].last /\ c # b
            BY <1>1, <1>2, <6>1, Zenon DEF MemInv, Readable, StoredIn
          <6>3. Height[c] >= 1 \/ Height[b] >= 1
            BY <6>2, HeightDefined, Zenon
          <6>4. Height[c] \in Nat /\ info'[f].last \in Nat /\ info[f].last \in Nat
            BY <1>4, <3>2, <3>4, HeightDefined DEF Info
          <6> QED
            BY <1>3, <1>4, <6>2, <6>3, <6>4
        <5>3. CASE info[f].size = 0
          BY <1>1, <1>4, <5>3
        <5> QED
          BY <3>2, <3>4, <5>1, <5>2, <5>3
      <4> QED
        BY <3>4, <4>1, <4>2, Zenon DEF Fits
    <3> QED
      BY <3>3, <3>4
  <2>4. ASSUME NEW g \in File, info'[g].size # 0 PROVE \E c \in Block : index'[c].data /\ index'[c].file = g
    <3>1. CASE g = f
      BY <1>6, <3>1, Zenon
    <3>2. CASE g # f
      <4>1. PICK c \in Block : index[c].data /\ index[c].file = g
        BY <1>2, <1>4, <2>4, <3>2, Zenon DEF MemInv, Readable
      <4> QED
        BY <1>1, <1>6, <4>1, Zenon
    <3> QED
      BY <3>1, <3>2
  <2> QED
    BY <2>1, <2>2, <2>3, <2>4, Zenon DEF Readable
<1>12. Synced'
  <2>1. \A c \in Block : index'[c].data /\ index'[c].file # f
          => BlkSlot(index'[c].file, index'[c].pos) \notin unsynced'
    BY <1>6, <1>10, Zenon
  <2> QED
    BY <1>1, <2>1 DEF Synced
<1>13. CleanIsOnDisk'
  <2>1. dirty'.blocks = dirty.blocks \cup {b} /\ dirty'.files = dirty.files \cup {f} /\ disk' = disk
    BY <1>1
  <2> QED
    BY <1>2, <1>4, <1>6, <2>1, ZenonT(40) DEF MemInv, CleanIsOnDisk
<1>14. Grown'
  <2>1. disk' = disk /\ cursor'.file = f /\ disk.last <= n /\ disk.last \in Nat
    BY <1>1, <1>2, InfoTypes DEF MemInv, Grown
  <2>2. disk.last <= f
    BY <1>3, <2>1
  <2>3. ASSUME NEW g \in File, info'[g].size # 0 \/ g >= f
        PROVE  info'[g].size >= disk.info[g].size /\ info'[g].undoSize >= disk.info[g].undoSize
    <3>1. g \in Nat /\ info[g].size \in Nat /\ disk.info[g].size \in Nat
      BY <1>2, InfoTypes
    <3>2. info[g].size # 0 \/ g >= n
      BY <1>3, <1>4, <2>3, <3>1
    <3>3. info[g].size >= disk.info[g].size /\ info[g].undoSize >= disk.info[g].undoSize
      BY <1>2, <3>2 DEF MemInv, Grown
    <3> QED
      BY <1>1, <1>4, <3>1, <3>3
  <2> QED
    BY <2>1, <2>2, <2>3, Zenon DEF Grown
<1>15. Flushing'
  BY <1>1 DEF Flushing
<1> QED
  BY <1>1, <1>7, <1>9, <1>11, <1>12, <1>13, <1>14, <1>15 DEF IInv, MemInv

(* Steps that touch no file and no index. *)
LEMMA SameFiles ==
    ASSUME Up, UNCHANGED <<index, info, cursor, dirty, fileVars, disk>>,
           pc' \in {"running", "flush"}, tip' \in Block, coinsTip' \in Block, flush' \in Call
    PROVE  IInv'
<1>1. TypeOK /\ DiskInv /\ MemInv /\ UNCHANGED <<blk, rev, unsynced>>
  BY DEF Up, IInv, fileVars
<1>2. TypeOK'
  BY <1>1 DEF TypeOK
<1>3. DiskInv'
  BY <1>1 DEF DiskInv
<1>4. Readable(index, info, cursor.file, blk, rev, disk.pruned)'
  BY <1>1 DEF MemInv
<1>5. Synced'
  BY <1>1 DEF MemInv, Synced
<1>6. CleanIsOnDisk' /\ Grown'
  BY <1>1 DEF MemInv, CleanIsOnDisk, Grown
<1>7. Flushing'
  BY DEF Flushing
<1> QED
  BY <1>2, <1>3, <1>4, <1>5, <1>6, <1>7, Zenon DEF IInv, MemInv

(* A slot of an undo file that holds undo data of the database holds undo  *)
(* data in memory, unless the file was pruned.                             *)
LEMMA DiskUndo ==
    ASSUME TypeOK, DiskInv, MemInv, NEW c \in Block, disk.index[c].undo
    PROVE  /\ disk.index[c].file \in File
           /\ disk.index[c].upos \in 1..disk.info[disk.index[c].file].undoSize
           /\ info[disk.index[c].file].size # 0
                => disk.index[c].upos \in 1..info[disk.index[c].file].undoSize
<1> DEFINE g == disk.index[c].file
           q == disk.index[c].upos
<1>1. g \in File /\ q \in Nat
  BY EntryTypes
<1>2. q \in 1..disk.info[g].undoSize
  BY Zenon DEF DiskInv, Readable, UndoneIn
<1>3. info[g].size # 0 => info[g].undoSize >= disk.info[g].undoSize
  BY <1>1, Zenon DEF MemInv, Grown
<1>4. info[g].undoSize \in Nat /\ disk.info[g].undoSize \in Nat
  BY <1>1, InfoTypes
<1> HIDE DEF g, q
<1>5. info[g].size # 0 => q \in 1..info[g].undoSize
  BY <1>1, <1>2, <1>3, <1>4
<1> QED
  BY <1>1, <1>2, <1>5 DEF g, q

LEMMA UndoGood ==
    ASSUME Up, NEW b \in Block, b # Genesis, index[b].data, ~index[b].undo,
           WriteUndoDataForBlock(b), blk' = blk, disk' = disk,
           pc' = "flush", tip' \in Block, coinsTip' \in Block, flush' \in Call
    PROVE  IInv'
<1> DEFINE f == index[b].file
           m == info[f].undoSize
           p == m + 1
           n == cursor.file
<1>1. TypeOK /\ DiskInv /\ MemInv
  BY DEF Up, IInv
<1>2. f \in File /\ m \in Nat /\ n \in File /\ info[f].size \in Nat /\ info[f] \in Info /\ p \in Nat
  <2>1. f \in File
    BY <1>1, EntryTypes
  <2> HIDE DEF f
  <2>2. m \in Nat /\ n \in File /\ info[f].size \in Nat /\ info[f] \in Info
    BY <1>1, <2>1, InfoTypes
  <2> QED
    BY <2>1, <2>2
<1>3. info[f].size # 0
  <2>1. index[b].pos \in 1..info[f].size
    BY <1>1 DEF MemInv, Readable, StoredIn
  <2> HIDE DEF f
  <2> QED
    BY <1>2, <2>1
<1>4. /\ info' = [info EXCEPT ![f].undoSize = p]
      /\ rev' = [rev EXCEPT ![f] = Put(@, p, b)]
      /\ unsynced' \subseteq unsynced \cup {RevSlot(f, p)}
      /\ cursor' = IF f = cursor.file /\ Height[b] > cursor.undoHeight
                   THEN [cursor EXCEPT !.undoHeight = Height[b]] ELSE cursor
      /\ index' = [index EXCEPT ![b].undo = TRUE, ![b].upos = p]
      /\ dirty' = [blocks |-> dirty.blocks \cup {b}, files |-> dirty.files \cup {f}]
  BY Zenon DEF WriteUndoDataForBlock
<1>5. /\ info' \in [File -> Info]
      /\ info'[f].undoSize = p /\ info'[f].size = info[f].size /\ info'[f].last = info[f].last
      /\ \A g \in File \ {f} : info'[g] = info[g]
  <2>1. info \in [File -> Info]
    BY <1>1 DEF TypeOK
  <2> DEFINE i == [info[f] EXCEPT !.undoSize = p]
  <2>2. info' = [info EXCEPT ![f] = i]
    BY <1>4, Zenon
  <2> HIDE DEF p
  <2>3. i \in Info
    BY <1>2, Zenon DEF Info
  <2>4. i.undoSize = p /\ i.size = info[f].size /\ i.last = info[f].last
    BY <1>2, Zenon DEF Info
  <2> HIDE DEF i, f
  <2>5. info'[f] = i /\ \A g \in File \ {f} : info'[g] = info[g]
    BY <1>2, <2>1, <2>2, Zenon
  <2>6. info' \in [File -> Info]
    BY <2>1, <2>2, <2>3, Zenon
  <2> QED
    BY <2>4, <2>5, <2>6, Zenon
<1>6. /\ rev' \in [File -> Slots]
      /\ Len(rev'[f]) >= p /\ Len(rev'[f]) >= Len(rev[f]) /\ Len(rev'[f]) \in Nat
      /\ rev'[f][p] = b /\ \A i \in 1..m : rev'[f][i] = rev[f][i]
      /\ \A g \in File \ {f} : rev'[g] = rev[g]
  <2>1. rev[f] \in Slots /\ rev \in [File -> Slots]
    BY <1>1, <1>2, InfoTypes DEF TypeOK
  <2>2. m <= Len(rev[f])
    BY <1>1, <1>2, Zenon DEF MemInv, Readable, Fits
  <2> DEFINE s == rev[f]
             t == Put(s, m + 1, b)
  <2>3. /\ t \in Slots /\ Len(t) >= Len(s) /\ Len(t) >= m + 1
        /\ t[m + 1] = b
        /\ \A i \in 1..m : t[i] = s[i]
    <3>1. s \in Slots /\ m \in Nat /\ m <= Len(s)
      BY <1>2, <2>1, <2>2
    <3> HIDE DEF s, m
    <3> QED
      BY <3>1, PutAt
  <2>4. rev'[f] = t /\ \A g \in File \ {f} : rev'[g] = rev[g]
    BY <1>2, <1>4, <2>1, Zenon
  <2>5. rev' \in [File -> Slots]
    BY <1>4, <2>1, <2>3, Zenon
  <2> HIDE DEF t
  <2>6. Len(t) \in Nat
    BY <2>3 DEF Slots
  <2> QED
    BY <2>3, <2>4, <2>5, <2>6, Zenon
<1>7. /\ index' \in [Block -> Position]
      /\ index'[b].data /\ index'[b].undo /\ index'[b].file = f
      /\ index'[b].pos = index[b].pos /\ index'[b].upos = p
      /\ \A c \in Block \ {b} : index'[c] = index[c]
  <2>1. index \in [Block -> Position] /\ index[b] \in Position
    BY <1>1 DEF TypeOK
  <2> DEFINE e == [index[b] EXCEPT !.undo = TRUE, !.upos = p]
  <2>2. index' = [index EXCEPT ![b] = e]
    BY <1>4, <2>1, Zenon
  <2> HIDE DEF p
  <2>3. e \in Position
    BY <1>2, <2>1, Zenon DEF Position
  <2>4. e.data = index[b].data /\ e.undo = TRUE /\ e.file = f /\ e.pos = index[b].pos /\ e.upos = p
    <3>1. index[b] \in [data : BOOLEAN, undo : BOOLEAN, file : File, pos : Nat, upos : Nat]
      BY <2>1, Zenon DEF Position
    <3>2. e.data = index[b].data /\ e.undo = TRUE /\ e.upos = p
      BY <3>1, Zenon
    <3>3. e.file = index[b].file /\ e.pos = index[b].pos
      BY <3>1, Zenon
    <3> QED
      BY <3>2, <3>3, Zenon
  <2> HIDE DEF e, f
  <2> QED
    BY <2>1, <2>2, <2>3, <2>4, Zenon
<1>8. cursor' \in [file : File, undoHeight : Nat] /\ cursor'.file = n
  BY <1>1, <1>4, HeightDefined DEF TypeOK
<1> HIDE DEF f, m, p, n
<1>9. TypeOK'
  <2>1. dirty' \in [blocks : SUBSET Block, files : SUBSET File]
    BY <1>1, <1>2, <1>4 DEF TypeOK
  <2> QED
    BY <1>1, <1>5, <1>6, <1>7, <1>8, <2>1 DEF TypeOK
<1>10. \A g \in File, i \in Nat : i \in 1..info[g].undoSize \/ g # f => rev'[g][i] = rev[g][i]
  BY <1>6, Zenon DEF m
<1>11. ASSUME NEW g, NEW q, BlkSlot(g, q) \in unsynced' PROVE BlkSlot(g, q) \in unsynced
  <2>1. BlkSlot(g, q) # RevSlot(f, p)
    BY SlotsDiffer
  <2> QED
    BY <1>4, <1>11, <2>1, Zenon
<1>12. DiskInv'
  <2>1. ASSUME NEW g \in File PROVE disk.info[g].size <= Len(blk'[g]) /\ disk.info[g].undoSize <= Len(rev'[g])
    <3>1. /\ disk.info[g].size <= Len(blk[g]) /\ disk.info[g].undoSize <= Len(rev[g])
          /\ disk.info[g].undoSize \in Nat /\ Len(rev[g]) \in Nat
      BY <1>1, InfoTypes DEF DiskInv, Readable, Fits
    <3> QED
      BY <1>6, <3>1
  <2>2. \A c \in Block : disk.index[c].data => BlkSlot(disk.index[c].file, disk.index[c].pos) \notin unsynced'
    BY <1>1, <1>11, Zenon DEF DiskInv
  <2>3. ASSUME NEW c \in Block, disk.index[c].undo
        PROVE  rev'[disk.index[c].file][disk.index[c].upos] = rev[disk.index[c].file][disk.index[c].upos]
    <3>1. /\ disk.index[c].file \in File /\ disk.index[c].upos \in Nat
          /\ disk.index[c].file = f => disk.index[c].upos \in 1..info[f].undoSize
      BY <1>1, <1>3, <2>3, DiskUndo, EntryTypes, Zenon
    <3> QED
      BY <1>10, <3>1, Zenon
  <2> QED
    BY <1>1, <2>1, <2>2, <2>3, DiskStays, Zenon
<1>13. Readable(index', info', n, blk', rev', disk'.pruned)
  <2>1. ASSUME NEW c \in Block, index'[c].data PROVE StoredIn(index'[c], c, info', n, blk')
    <3>1. index[c].data /\ index'[c].file = index[c].file /\ index'[c].pos = index[c].pos
      BY <1>7, <2>1, Zenon DEF f
    <3>2. StoredIn(index[c], c, info, n, blk)
      BY <1>1, <3>1, Zenon DEF MemInv, Readable, n
    <3>3. /\ info'[index[c].file].size = info[index[c].file].size
          /\ info'[index[c].file].last = info[index[c].file].last
      BY <1>1, <1>5, EntryTypes, Zenon
    <3> QED
      BY <3>1, <3>2, <3>3, Zenon DEF StoredIn
  <2>2. ASSUME NEW c \in Block, index'[c].undo PROVE UndoneIn(index'[c], c, info', rev')
    <3>1. CASE c = b
      <4>1. p \in 1..p
        BY <1>2 DEF p
      <4> QED
        BY <1>5, <1>6, <1>7, <3>1, <4>1, Zenon DEF UndoneIn
    <3>2. CASE c # b
      <4> DEFINE g == index[c].file
                 q == index[c].upos
      <4>1. UndoneIn(index[c], c, info, rev) /\ index'[c] = index[c]
        BY <1>1, <1>7, <2>2, <3>2, ZenonT(40) DEF MemInv, Readable
      <4>2. g \in File /\ q \in Nat /\ q \in 1..info[g].undoSize
        BY <1>1, <4>1, EntryTypes DEF UndoneIn
      <4>3. rev'[g][q] = rev[g][q]
        BY <1>10, <4>2, Zenon
      <4>4. q \in 1..info'[g].undoSize
        <5> HIDE DEF g, q
        <5>1. CASE g = f
          BY <1>2, <1>5, <4>2, <5>1 DEF p, m
        <5>2. CASE g # f
          BY <1>5, <4>2, <5>2, Zenon
        <5> QED
          BY <5>1, <5>2
      <4> QED
        BY <4>1, <4>3, <4>4, Zenon DEF UndoneIn
    <3> QED
      BY <3>1, <3>2
  <2>3. ASSUME NEW g \in File PROVE Fits(info'[g], g, n, blk'[g], rev'[g], disk'.pruned)
    <3>1. Fits(info[g], g, n, blk[g], rev[g], disk.pruned)
      BY <1>1, Zenon DEF MemInv, Readable, n
    <3>2. CASE g = f
      BY <1>3, <1>5, <1>6, <3>1, <3>2, Zenon DEF Fits
    <3>3. CASE g # f
      BY <1>5, <1>6, <3>1, <3>3, Zenon DEF Fits
    <3> QED
      BY <3>2, <3>3
  <2>4. ASSUME NEW g \in File, info'[g].size # 0 PROVE \E c \in Block : index'[c].data /\ index'[c].file = g
    <3>1. PICK c \in Block : index[c].data /\ index[c].file = g
      BY <1>1, <1>5, <2>4, Zenon DEF MemInv, Readable
    <3> QED
      BY <1>7, <3>1, Zenon DEF f
  <2> QED
    BY <2>1, <2>2, <2>3, <2>4, Zenon DEF Readable
<1>14. Synced'
  <2>1. \A c \in Block : index'[c].data
          => index[c].data /\ index'[c].file = index[c].file /\ index'[c].pos = index[c].pos
    BY <1>7, Zenon DEF f
  <2>2. \A c \in Block : index'[c].data /\ index'[c].file # cursor'.file
          => BlkSlot(index'[c].file, index'[c].pos) \notin unsynced'
    BY <1>1, <1>8, <1>11, <2>1, Zenon DEF MemInv, Synced, n
  <2>3. pc' # "writeIndex"
    OBVIOUS
  <2> QED
    BY <2>2, <2>3, Zenon DEF Synced
<1>15. CleanIsOnDisk'
  <2>1. dirty'.blocks = dirty.blocks \cup {b} /\ dirty'.files = dirty.files \cup {f}
    BY <1>4
  <2> QED
    BY <1>1, <1>5, <1>7, <2>1, ZenonT(40) DEF MemInv, CleanIsOnDisk
<1>16. Grown'
  <2>1. disk.last <= cursor'.file
    BY <1>1, <1>8, Zenon DEF MemInv, Grown, n
  <2>2. ASSUME NEW g \in File, info'[g].size # 0 \/ g >= cursor'.file
        PROVE  info'[g].size >= disk.info[g].size /\ info'[g].undoSize >= disk.info[g].undoSize
    <3>1. info[g].undoSize \in Nat /\ disk.info[g].undoSize \in Nat
      BY <1>1, InfoTypes
    <3>2. info[g].size # 0 \/ g >= n
      BY <1>5, <1>8, <2>2, Zenon
    <3>3. info[g].size >= disk.info[g].size /\ info[g].undoSize >= disk.info[g].undoSize
      BY <1>1, <3>2, Zenon DEF MemInv, Grown, n
    <3>4. info'[g].size = info[g].size /\ (g = f => info'[g].undoSize = info[g].undoSize + 1)
          /\ (g # f => info'[g].undoSize = info[g].undoSize)
      BY <1>5, Zenon DEF p, m
    <3> QED
      BY <3>1, <3>3, <3>4
  <2> QED
    BY <2>1, <2>2, Zenon DEF Grown
<1>17. Flushing'
  BY DEF Flushing
<1> QED
  BY <1>8, <1>9, <1>12, <1>13, <1>14, <1>15, <1>16, <1>17 DEF IInv, MemInv

(* The calls of FlushStateToDisk that a connection ends with. *)
LEMMA CallTypes ==
    /\ NoFlush \in Call /\ NoFlush.prune = {}
    /\ [NoFlush EXCEPT !.mode = "IF_NEEDED"] \in Call
<1>1. NoFlush \in Call /\ NoFlush.prune = {}
  BY DEF NoFlush, Call
<1>2. "IF_NEEDED" \in {"NONE", "PERIODIC", "IF_NEEDED", "ALWAYS"}
  OBVIOUS
<1>3. [NoFlush EXCEPT !.mode = "IF_NEEDED"] \in Call
  BY <1>1, <1>2, Zenon DEF Call
<1> QED
  BY <1>1, <1>3

LEMMA ConnectGood ==
    ASSUME Up, NEW b \in Block, NEW allocated \in BOOLEAN, ConnectTip(b, allocated)
    PROVE  IInv'
<1>1. /\ tip' \in Block /\ coinsTip' \in Block /\ flush' \in Call /\ pc' = "flush"
      /\ blk' = blk /\ disk' = disk /\ b # Genesis /\ index[b].data
  BY CallTypes DEF Up, IInv, TypeOK, ConnectTip
<1>2. CASE index[b].undo
  BY <1>1, <1>2, SameFiles DEF ConnectTip, fileVars
<1>3. CASE ~index[b].undo
  <2>1. WriteUndoDataForBlock(b)
    BY <1>3, Zenon DEF ConnectTip
  <2> QED
    BY <1>1, <1>3, <2>1, UndoGood, Zenon
<1> QED
  BY <1>2, <1>3

LEMMA DisconnectGood ==
    ASSUME Up, DisconnectTip
    PROVE  IInv'
<1>1. tip # Genesis /\ tip \in Block
  BY DEF Up, IInv, TypeOK, MemInv, Readable, UndoneIn, DisconnectTip
<1>2. tip' \in Block
  BY <1>1, BlockFilesAssumption DEF DisconnectTip
<1> QED
  BY <1>2, CallTypes, SameFiles DEF DisconnectTip, Up, IInv, TypeOK

-----------------------------------------------------------------------------
(* Pruning and flushing. *)

LEMMA FlushGood ==
    ASSUME Up, NEW mode, NEW S, S \subseteq File, \A f \in S : f < cursor.file, FlushStateToDisk(mode, S)
    PROVE  IInv'
<1> DEFINE n == cursor.file
<1>1. TypeOK /\ DiskInv /\ MemInv
  BY DEF Up, IInv
<1>2. /\ index' = [b \in Block |-> IF index[b].file \in S THEN NoPos ELSE index[b]]
      /\ info' = [f \in File |-> IF f \in S THEN NewInfo ELSE info[f]]
      /\ dirty' = [blocks |-> dirty.blocks \cup {b \in Block : index[b].file \in S},
                   files |-> dirty.files \cup S]
      /\ disk' = [disk EXCEPT !.pruned = @ \/ S # {}]
      /\ mode \in Mode
      /\ UNCHANGED <<cursor, tip, blk, rev, coinsTip>>
  BY Zenon DEF FlushStateToDisk, PruneFiles
<1>3. /\ NoPos \in Position /\ ~NoPos.data /\ ~NoPos.undo
      /\ NewInfo \in Info /\ NewInfo.size = 0 /\ NewInfo.undoSize = 0 /\ NewInfo.last = 0
  BY BlockFilesAssumption DEF NoPos, Position, File, NewInfo, Info
<1>4. PICK full \in FullFlushDue(mode, S) : \E write \in WriteDue(mode, full) :
          IF write
          THEN /\ pc' = "writeIndex"
               /\ flush' = [mode |-> mode, full |-> full, prune |-> S]
               /\ unsynced' = unsynced \ (SlotsOf("blk", cursor.file) \cup SlotsOf("rev", cursor.file))
          ELSE /\ pc' = "running"
               /\ flush' = NoFlush
               /\ UNCHANGED unsynced
  BY Zenon DEF FlushStateToDisk
<1>5. full \in BOOLEAN
  BY <1>4, Zenon DEF FullFlushDue
<1>6. mode \in {"NONE", "PERIODIC", "IF_NEEDED", "ALWAYS"}
  BY <1>1, <1>2 DEF Mode, TypeOK, Call
<1>7. \/ /\ pc' = "writeIndex"
         /\ flush' = [mode |-> mode, full |-> full, prune |-> S]
         /\ unsynced' = unsynced \ (SlotsOf("blk", cursor.file) \cup SlotsOf("rev", cursor.file))
      \/ /\ pc' = "running"
         /\ flush' = NoFlush
         /\ UNCHANGED unsynced
  BY <1>4, Zenon
<1>8. flush' \in Call /\ (pc' = "writeIndex" => flush'.prune = S) /\ pc' \in {"writeIndex", "running"}
  <2> DEFINE call == [mode |-> mode, full |-> full, prune |-> S]
  <2>1. call \in Call /\ call.prune = S
    BY <1>5, <1>6, Zenon DEF Call
  <2>2. "writeIndex" # "running"
    OBVIOUS
  <2> HIDE DEF call
  <2> QED
    BY <1>7, <2>1, <2>2, CallTypes, Zenon DEF call
<1>9. /\ disk' \in [index : [Block -> Position], info : [File -> Info], last : File, pruned : BOOLEAN]
      /\ disk'.index = disk.index /\ disk'.info = disk.info /\ disk'.last = disk.last
      /\ disk.pruned => disk'.pruned
      /\ S # {} => disk'.pruned
  <2> DEFINE T == [index : [Block -> Position], info : [File -> Info], last : File, pruned : BOOLEAN]
             x == disk.pruned \/ S # {}
  <2>1. disk \in T /\ x \in BOOLEAN
    BY <1>1 DEF TypeOK
  <2>2. disk' = [disk EXCEPT !.pruned = x]
    BY <1>2, Zenon
  <2> HIDE DEF x
  <2>3. disk' \in T /\ disk'.index = disk.index /\ disk'.info = disk.info /\ disk'.last = disk.last
        /\ disk'.pruned = x
    BY <2>1, <2>2, Zenon
  <2> QED
    BY <2>3, Zenon DEF x
<1>10. \A b \in Block : index'[b] = IF index[b].file \in S THEN NoPos ELSE index[b]
  BY <1>2, Zenon
<1>11. \A f \in File : info'[f] = IF f \in S THEN NewInfo ELSE info[f]
  BY <1>2, Zenon
<1>12. TypeOK'
  <2>1. index' \in [Block -> Position]
    BY <1>1, <1>2, <1>3, Zenon DEF TypeOK
  <2>2. info' \in [File -> Info]
    BY <1>1, <1>2, <1>3, Zenon DEF TypeOK
  <2>3. dirty' \in [blocks : SUBSET Block, files : SUBSET File]
    BY <1>1, <1>2 DEF TypeOK
  <2> QED
    BY <1>1, <1>2, <1>8, <1>9, <2>1, <2>2, <2>3, Zenon DEF TypeOK
<1>13. unsynced' \subseteq unsynced
  BY <1>7, Zenon
<1>14. DiskInv'
  <2>1. \A f \in File : disk.info[f].size <= Len(blk'[f]) /\ disk.info[f].undoSize <= Len(rev'[f])
    BY <1>1, <1>2, Zenon DEF DiskInv, Readable, Fits
  <2>2. blk' = blk /\ rev' = rev
    BY <1>2
  <2>3. \A c \in Block : disk.index[c].data => BlkSlot(disk.index[c].file, disk.index[c].pos) \notin unsynced'
    BY <1>1, <1>13, Zenon DEF DiskInv
  <2> QED
    BY <1>1, <1>9, <2>1, <2>2, <2>3, DiskStays, Zenon
<1>15. \A c \in Block : index'[c].data \/ index'[c].undo => index[c].file \notin S /\ index'[c] = index[c]
  BY <1>3, <1>10, Zenon
<1>16. Readable(index', info', n, blk, rev, disk'.pruned)
  <2>1. ASSUME NEW c \in Block, index'[c].data PROVE StoredIn(index'[c], c, info', n, blk)
    <3>1. index[c].file \notin S /\ index'[c] = index[c] /\ index[c].data
      BY <1>15, <2>1, Zenon
    <3>2. StoredIn(index[c], c, info, n, blk)
      BY <1>1, <3>1, Zenon DEF MemInv, Readable
    <3>3. info'[index[c].file] = info[index[c].file]
      BY <1>1, <1>11, <3>1, EntryTypes, Zenon
    <3> QED
      BY <3>1, <3>2, <3>3, Zenon DEF StoredIn
  <2>2. ASSUME NEW c \in Block, index'[c].undo PROVE UndoneIn(index'[c], c, info', rev)
    <3>1. index[c].file \notin S /\ index'[c] = index[c] /\ index[c].undo
      BY <1>15, <2>2, Zenon
    <3>2. UndoneIn(index[c], c, info, rev)
      BY <1>1, <3>1, Zenon DEF MemInv, Readable
    <3>3. info'[index[c].file] = info[index[c].file]
      BY <1>1, <1>11, <3>1, EntryTypes, Zenon
    <3> QED
      BY <3>1, <3>2, <3>3, Zenon DEF UndoneIn
  <2>3. ASSUME NEW g \in File PROVE Fits(info'[g], g, n, blk[g], rev[g], disk'.pruned)
    <3>1. Fits(info[g], g, n, blk[g], rev[g], disk.pruned)
      BY <1>1, Zenon DEF MemInv, Readable
    <3>2. CASE g \in S
      <4>1. info'[g] = NewInfo /\ disk'.pruned
        BY <1>9, <1>11, <3>2, Zenon
      <4>2. 0 <= Len(blk[g]) /\ 0 <= Len(rev[g]) /\ ~(0 > 1)
        BY <1>1, InfoTypes
      <4> QED
        BY <1>3, <4>1, <4>2, Zenon DEF Fits
    <3>3. CASE g \notin S
      BY <1>9, <1>11, <3>1, <3>3, Zenon DEF Fits
    <3> QED
      BY <3>2, <3>3
  <2>4. ASSUME NEW g \in File, info'[g].size # 0 PROVE \E c \in Block : index'[c].data /\ index'[c].file = g
    <3>1. g \notin S /\ info[g].size # 0
      BY <1>3, <1>11, <2>4, Zenon
    <3>2. PICK c \in Block : index[c].data /\ index[c].file = g
      BY <1>1, <3>1, Zenon DEF MemInv, Readable
    <3> QED
      BY <1>10, <3>1, <3>2, Zenon
  <2> QED
    BY <2>1, <2>2, <2>3, <2>4, Zenon DEF Readable
<1>17. Synced'
  <2>1. ASSUME NEW c \in Block, index'[c].data, index'[c].file # cursor'.file \/ pc' = "writeIndex"
        PROVE  BlkSlot(index'[c].file, index'[c].pos) \notin unsynced'
    <3>1. index'[c] = index[c] /\ index[c].data /\ cursor' = cursor
      BY <1>2, <1>15, <2>1, Zenon
    <3>2. CASE index[c].file # cursor.file
      BY <1>1, <1>13, <3>1, <3>2, Zenon DEF MemInv, Synced
    <3>3. CASE index[c].file = cursor.file
      <4>1. pc' = "writeIndex" /\ "writeIndex" # "running"
        BY <2>1, <3>1, <3>3
      <4>2. unsynced' = unsynced \ (SlotsOf("blk", cursor.file) \cup SlotsOf("rev", cursor.file))
        BY <1>7, <4>1, Zenon
      <4>3. BlkSlot(cursor.file, index[c].pos) \in unsynced
              => BlkSlot(cursor.file, index[c].pos) \in SlotsOf("blk", cursor.file)
        BY SlotsDiffer
      <4> QED
        BY <3>1, <3>3, <4>2, <4>3, Zenon
    <3> QED
      BY <3>2, <3>3
  <2> QED
    BY <2>1, Zenon DEF Synced
<1>18. CleanIsOnDisk'
  <2>1. /\ dirty'.blocks = dirty.blocks \cup {b \in Block : index[b].file \in S}
        /\ dirty'.files = dirty.files \cup S
    BY <1>2
  <2> QED
    BY <1>1, <1>9, <1>10, <1>11, <2>1, Zenon DEF MemInv, CleanIsOnDisk
<1>19. Grown'
  <2>1. disk'.last <= cursor'.file
    BY <1>1, <1>2, <1>9 DEF MemInv, Grown
  <2>2. ASSUME NEW g \in File, info'[g].size # 0 \/ g >= cursor'.file
        PROVE  info'[g].size >= disk'.info[g].size /\ info'[g].undoSize >= disk'.info[g].undoSize
    <3>1. g \notin S
      <4>1. cursor' = cursor /\ g \in Nat /\ cursor.file \in Nat
        BY <1>1, <1>2, InfoTypes
      <4>2. ~(g < cursor.file /\ g >= cursor.file)
        BY <4>1
      <4> QED
        BY <1>3, <1>11, <2>2, <4>1, <4>2, Zenon
    <3>2. info[g].size # 0 \/ g >= cursor.file
      BY <1>2, <1>11, <2>2, <3>1, Zenon
    <3>3. info[g].size >= disk.info[g].size /\ info[g].undoSize >= disk.info[g].undoSize
      BY <1>1, <3>2, Zenon DEF MemInv, Grown
    <3> QED
      BY <1>9, <1>11, <3>1, <3>3, Zenon
  <2> QED
    BY <2>1, <2>2, Zenon DEF Grown
<1>20. Flushing'
  <2>1. \A f \in S : f < cursor'.file /\ info'[f].size = 0
    BY <1>2, <1>3, <1>11, Zenon
  <2> QED
    BY <1>8, <2>1 DEF Flushing
<1>21. MemInv'
  <2>1. Readable(index', info', cursor'.file, blk', rev', disk'.pruned)
    BY <1>2, <1>16
  <2> QED
    BY <1>17, <1>18, <1>19, <1>20, <2>1, Zenon DEF MemInv
<1> QED
  BY <1>8, <1>12, <1>14, <1>21 DEF IInv

(* The files FindFilesToPrune and FindFilesToPruneManual choose from. *)
LEMMA PrunableFiles ==
    ASSUME NEW limit
    PROVE  Prunable(limit) \subseteq File /\ \A f \in Prunable(limit) : f < cursor.file
<1>1. CASE Height[tip] = 0
  BY <1>1, Zenon DEF Prunable
<1>2. CASE Height[tip] # 0
  BY <1>2, Zenon DEF Prunable
<1> QED
  BY <1>1, <1>2

LEMMA PruningGood ==
    ASSUME Up, FlushAndPrune \/ PruneBlockFilesManual
    PROVE  IInv'
<1>1. PICK mode, S : /\ S \in PruneChoices \cup PruneManualChoices
                     /\ FlushStateToDisk(mode, S)
  BY Zenon DEF FlushAndPrune, PruneBlockFilesManual
<1>2. S = {} \/ \E limit : S \subseteq Prunable(limit)
  <2>1. CASE S \in PruneManualChoices
    BY <2>1, Zenon DEF PruneManualChoices
  <2>2. CASE S \in PruneChoices
    <3>1. CASE checkPrune
      BY <2>2, <3>1, Zenon DEF PruneChoices
    <3>2. CASE ~checkPrune
      BY <2>2, <3>2, Zenon DEF PruneChoices
    <3> QED
      BY <3>1, <3>2
  <2> QED
    BY <1>1, <2>1, <2>2, Zenon
<1>3. S \subseteq File /\ \A f \in S : f < cursor.file
  BY <1>2, PrunableFiles, Zenon
<1> QED
  BY <1>1, <1>3, FlushGood, Zenon

(* The database holds what is in memory afterwards. *)
LEMMA WriteGood ==
    ASSUME Up, WriteBlockIndexDB
    PROVE  IInv'
<1> DEFINE T == [index : [Block -> Position], info : [File -> Info], last : File, pruned : BOOLEAN]
<1>1. TypeOK /\ DiskInv /\ MemInv /\ pc = "writeIndex"
  BY DEF Up, IInv, WriteBlockIndexDB
<1>2. UNCHANGED <<index, info, cursor, tip, blk, rev, unsynced, coinsTip>> /\ dirty' = Clean
  BY DEF WriteBlockIndexDB, fileVars
<1>3. /\ disk' \in T
      /\ disk'.index = index /\ disk'.info = info /\ disk'.last = cursor.file /\ disk'.pruned = disk.pruned
  <2> DEFINE ix == [b \in Block |-> IF b \in dirty.blocks THEN index[b] ELSE disk.index[b]]
             inf == [f \in File |-> IF f \in dirty.files THEN info[f] ELSE disk.info[f]]
  <2>1. disk \in T /\ index \in [Block -> Position] /\ info \in [File -> Info] /\ cursor.file \in File
    BY <1>1 DEF TypeOK
  <2>2. disk' = [disk EXCEPT !.index = ix, !.info = inf, !.last = cursor.file]
    BY <2>1, Zenon DEF WriteBlockIndexDB
  <2>3. ix = index
    BY <1>1, <2>1, Zenon DEF MemInv, CleanIsOnDisk
  <2>4. inf = info
    BY <1>1, <2>1, Zenon DEF MemInv, CleanIsOnDisk
  <2> HIDE DEF ix, inf
  <2>5. disk' = [disk EXCEPT !.index = index, !.info = info, !.last = cursor.file]
    BY <2>2, <2>3, <2>4, Zenon
  <2>6. disk' \in T
    BY <2>1, <2>5, Zenon
  <2>7. disk'.index = index /\ disk'.info = info /\ disk'.last = cursor.file /\ disk'.pruned = disk.pruned
    BY <2>1, <2>5, Zenon
  <2> QED
    BY <2>6, <2>7, Zenon
<1>4. /\ pc' \in {"unlink", "flushCoins", "running"} /\ flush' \in Call
      /\ pc' = "unlink" => flush'.prune = flush.prune
  <2>1. flush \in Call
    BY <1>1 DEF TypeOK
  <2>2. [flush EXCEPT !.prune = flush.prune] \in Call /\ [flush EXCEPT !.prune = flush.prune].prune = flush.prune
    BY <2>1, Zenon DEF Call
  <2>3. /\ pc' \in {"unlink", "flushCoins", "running"}
        /\ flush' = IF pc' = "running" THEN NoFlush ELSE [flush EXCEPT !.prune = flush.prune]
    BY Zenon DEF WriteBlockIndexDB, Continue
  <2> QED
    BY <2>2, <2>3, CallTypes
<1> HIDE DEF T
<1>5. TypeOK'
  <2>1. dirty' \in [blocks : SUBSET Block, files : SUBSET File]
    BY <1>2 DEF Clean
  <2> QED
    BY <1>1, <1>2, <1>3, <1>4, <2>1 DEF TypeOK, T
<1>6. Readable(index, info, cursor.file, blk, rev, disk.pruned)
  BY <1>1 DEF MemInv
<1>7. \A b \in Block : index[b].data => BlkSlot(index[b].file, index[b].pos) \notin unsynced
  BY <1>1, Zenon DEF MemInv, Synced
<1>8. DiskInv'
  BY <1>2, <1>3, <1>6, <1>7 DEF DiskInv
<1>9. Synced' /\ CleanIsOnDisk'
  BY <1>2, <1>3, <1>7 DEF Synced, CleanIsOnDisk
<1>10. Grown'
  <2>1. cursor.file <= cursor.file
    BY <1>1 DEF TypeOK, File
  <2>2. \A f \in File : info[f].size >= info[f].size /\ info[f].undoSize >= info[f].undoSize
    BY <1>1, InfoTypes
  <2> QED
    BY <1>2, <1>3, <2>1, <2>2 DEF Grown
<1>11. Flushing'
  <2>1. \A f \in flush.prune : f < cursor.file /\ info[f].size = 0
    BY <1>1 DEF MemInv, Flushing
  <2> QED
    BY <1>2, <1>4, <2>1 DEF Flushing
<1>12. MemInv'
  BY <1>2, <1>3, <1>6, <1>9, <1>10, <1>11 DEF MemInv
<1> QED
  BY <1>4, <1>5, <1>8, <1>12 DEF IInv

(* A file that an index counts nothing in can be unlinked. *)
LEMMA UnlinkReadable ==
    ASSUME TypeOK, NEW ix \in [Block -> Position], NEW inf \in [File -> Info], NEW last, NEW pruned,
           NEW S, \A f \in File : f \in S => inf[f].size = 0,
           Readable(ix, inf, last, blk, rev, pruned), Unlink(S)
    PROVE  Readable(ix, inf, last, blk', rev', pruned)
<1>1. /\ \A f \in File : f \in S => blk'[f] = <<>> /\ rev'[f] = <<>>
      /\ \A f \in File : f \notin S => blk'[f] = blk[f] /\ rev'[f] = rev[f]
  BY Zenon DEF Unlink
<1>2. ASSUME NEW b \in Block, ix[b].data PROVE ix[b].file \in File /\ ix[b].file \notin S
  <2>1. ix[b].file \in File
    BY DEF Position
  <2>2. ix[b].pos \in 1..inf[ix[b].file].size
    BY <1>2, Zenon DEF Readable, StoredIn
  <2>3. inf[ix[b].file].size # 0
    BY <2>2
  <2> QED
    BY <2>1, <2>3, Zenon
<1>3. \A b \in Block : ix[b].data => StoredIn(ix[b], b, inf, last, blk')
  BY <1>1, <1>2, Zenon DEF Readable, StoredIn
<1>4. \A b \in Block : ix[b].undo => UndoneIn(ix[b], b, inf, rev')
  BY <1>1, <1>2, ZenonT(40) DEF Readable, UndoneIn
<1>5. ASSUME NEW f \in File PROVE Fits(inf[f], f, last, blk'[f], rev'[f], pruned)
  <2>1. Fits(inf[f], f, last, blk[f], rev[f], pruned)
    BY Zenon DEF Readable
  <2>2. CASE f \in S
    <3>1. inf[f].size = 0 /\ inf[f].undoSize = 0 /\ blk'[f] = <<>> /\ rev'[f] = <<>>
      BY <1>1, <2>1, <2>2, Zenon DEF Fits
    <3>2. 0 <= Len(<<>>)
      OBVIOUS
    <3> QED
      BY <2>1, <3>1, <3>2, Zenon DEF Fits
  <2>3. CASE f \notin S
    BY <1>1, <2>1, <2>3, Zenon
  <2> QED
    BY <2>2, <2>3
<1> QED
  BY <1>3, <1>4, <1>5, Zenon DEF Readable

LEMMA UnlinkTypes ==
    ASSUME TypeOK, NEW S, Unlink(S)
    PROVE  blk' \in [File -> Slots] /\ rev' \in [File -> Slots] /\ unsynced' \subseteq unsynced
<1>1. <<>> \in Slots
  BY DEF Slots
<1> QED
  BY <1>1, Zenon DEF TypeOK, Unlink

LEMMA UnlinkGood ==
    ASSUME Up, NEW f \in File, UnlinkPrunedFile(f)
    PROVE  IInv'
<1>1. TypeOK /\ DiskInv /\ MemInv /\ pc = "unlink" /\ f \in flush.prune
  BY DEF Up, IInv, UnlinkPrunedFile
<1>2. Unlink({f}) /\ UNCHANGED <<index, info, cursor, dirty, tip, disk, coinsTip>>
  BY DEF UnlinkPrunedFile, memVars
<1>3. dirty = Clean /\ info[f].size = 0 /\ \A g \in flush.prune : g < cursor.file /\ info[g].size = 0
  BY <1>1 DEF MemInv, Flushing
<1>4. disk.index = index /\ disk.info = info
  <2>1. index \in [Block -> Position] /\ disk.index \in [Block -> Position]
        /\ info \in [File -> Info] /\ disk.info \in [File -> Info]
    BY <1>1 DEF TypeOK
  <2>2. dirty.blocks = {} /\ dirty.files = {}
    BY <1>3 DEF Clean
  <2>3. (\A b \in Block : index[b] = disk.index[b]) /\ (\A g \in File : info[g] = disk.info[g])
    BY <1>1, <2>2, Zenon DEF MemInv, CleanIsOnDisk
  <2> QED
    BY <2>1, <2>3
<1>5. /\ pc' \in {"unlink", "flushCoins", "running"} /\ flush' \in Call
      /\ pc' = "unlink" => flush'.prune \subseteq flush.prune
  <2> DEFINE left == flush.prune \ {f}
  <2>1. flush \in Call
    BY <1>1 DEF TypeOK
  <2>2. [flush EXCEPT !.prune = left] \in Call /\ [flush EXCEPT !.prune = left].prune = left
    <3>1. left \in SUBSET File
      BY <2>1 DEF Call
    <3> HIDE DEF left
    <3> QED
      BY <2>1, <3>1, Zenon DEF Call
  <2>3. /\ pc' \in {"unlink", "flushCoins", "running"}
        /\ flush' = IF pc' = "running" THEN NoFlush ELSE [flush EXCEPT !.prune = left]
    BY Zenon DEF UnlinkPrunedFile, Continue
  <2> QED
    BY <2>2, <2>3, CallTypes
<1>6. blk' \in [File -> Slots] /\ rev' \in [File -> Slots] /\ unsynced' \subseteq unsynced
  BY <1>1, <1>2, UnlinkTypes, ZenonT(40)
<1>7. TypeOK'
  BY <1>1, <1>2, <1>5, <1>6 DEF TypeOK
<1>8. /\ Readable(index, info, cursor.file, blk', rev', disk.pruned)
      /\ Readable(disk.index, disk.info, disk.last, blk', rev', disk.pruned)
  <2>1. index \in [Block -> Position] /\ info \in [File -> Info]
    BY <1>1 DEF TypeOK
  <2>2. \A g \in File : g \in {f} => info[g].size = 0
    BY <1>3, Zenon
  <2>3. /\ Readable(index, info, cursor.file, blk, rev, disk.pruned)
        /\ Readable(index, info, disk.last, blk, rev, disk.pruned)
    BY <1>1, <1>4 DEF MemInv, DiskInv
  <2>4. Readable(index, info, cursor.file, blk', rev', disk.pruned)
    BY <1>1, <1>2, <2>1, <2>2, <2>3, UnlinkReadable, Zenon
  <2>5. Readable(index, info, disk.last, blk', rev', disk.pruned)
    BY <1>1, <1>2, <2>1, <2>2, <2>3, UnlinkReadable, ZenonT(40)
  <2> QED
    BY <1>4, <2>4, <2>5
<1>9. DiskInv'
  <2>1. \A c \in Block : disk.index[c].data => BlkSlot(disk.index[c].file, disk.index[c].pos) \notin unsynced'
    BY <1>1, <1>6, Zenon DEF DiskInv
  <2> QED
    BY <1>2, <1>8, <2>1 DEF DiskInv
<1>10. Synced'
  <2>1. \A c \in Block : index[c].data => BlkSlot(index[c].file, index[c].pos) \notin unsynced'
    BY <1>1, <1>4, <1>6, ZenonT(40) DEF DiskInv
  <2> QED
    BY <1>2, <2>1 DEF Synced
<1>11. CleanIsOnDisk' /\ Grown'
  BY <1>1, <1>2 DEF MemInv, CleanIsOnDisk, Grown
<1>12. Flushing'
  BY <1>2, <1>3, <1>5 DEF Flushing
<1>13. MemInv'
  BY <1>2, <1>8, <1>10, <1>11, <1>12 DEF MemInv
<1> QED
  BY <1>5, <1>7, <1>9, <1>13 DEF IInv

-----------------------------------------------------------------------------
(* Crash and start. *)

(* A crash leaves every file its length. *)
LEMMA LostSlots ==
    ASSUME NEW s \in Slots, NEW t \in [DOMAIN s -> Block \cup {Garbage}]
    PROVE  t \in Slots /\ Len(t) = Len(s)
BY DEF Slots

LEMMA CrashGood ==
    ASSUME Up, NEW lost \in SUBSET unsynced, Crash(lost)
    PROVE  IInv'
<1>1. TypeOK /\ DiskInv
  BY DEF Up, IInv
<1>2. /\ blk' = [f \in File |-> [p \in DOMAIN blk[f] |-> IF BlkSlot(f, p) \in lost THEN Garbage ELSE blk[f][p]]]
      /\ rev' = [f \in File |-> [p \in DOMAIN rev[f] |-> IF RevSlot(f, p) \in lost THEN Garbage ELSE rev[f][p]]]
      /\ lost # {} => PowerLoss
      /\ unsynced' \subseteq unsynced
      /\ pc' = "down" /\ disk' = disk /\ coinsTip' = coinsTip
  BY Zenon DEF Crash
<1>3. ASSUME NEW f \in File
      PROVE  blk'[f] \in Slots /\ rev'[f] \in Slots /\ Len(blk'[f]) = Len(blk[f]) /\ Len(rev'[f]) = Len(rev[f])
  <2> DEFINE t == [p \in DOMAIN blk[f] |-> IF BlkSlot(f, p) \in lost THEN Garbage ELSE blk[f][p]]
             u == [p \in DOMAIN rev[f] |-> IF RevSlot(f, p) \in lost THEN Garbage ELSE rev[f][p]]
  <2>1. blk[f] \in Slots /\ rev[f] \in Slots
    BY <1>1, InfoTypes
  <2>2. blk'[f] = t /\ rev'[f] = u
    BY <1>2, Zenon
  <2>3. \A s \in Slots : \A p \in DOMAIN s : s[p] \in Block \cup {Garbage}
    BY DEF Slots
  <2>4. t \in [DOMAIN blk[f] -> Block \cup {Garbage}] /\ u \in [DOMAIN rev[f] -> Block \cup {Garbage}]
    BY <2>1, <2>3, Zenon
  <2> HIDE DEF t, u
  <2>5. t \in Slots /\ Len(t) = Len(blk[f]) /\ u \in Slots /\ Len(u) = Len(rev[f])
    BY <2>1, <2>4, LostSlots, Zenon
  <2> QED
    BY <2>2, <2>5, Zenon
<1>4. TypeOK'
  <2>1. /\ index' = [b \in Block |-> NoPos] /\ info' = [f \in File |-> NewInfo]
        /\ cursor' = [file |-> 0, undoHeight |-> 0] /\ dirty' = Clean /\ tip' = Genesis /\ flush' = NoFlush
    BY Zenon DEF Crash, Nothing
  <2>2. NoPos \in Position /\ NewInfo \in Info
    BY BlockFilesAssumption DEF NoPos, Position, File, NewInfo, Info
  <2>3. index' \in [Block -> Position] /\ info' \in [File -> Info]
    BY <2>1, <2>2, Zenon
  <2>4. 0 \in File /\ Genesis \in Block
    BY BlockFilesAssumption DEF File
  <2>5. blk' \in [File -> Slots] /\ rev' \in [File -> Slots]
    BY <1>2, <1>3, Zenon
  <2>6. dirty' \in [blocks : SUBSET Block, files : SUBSET File]
    BY <2>1 DEF Clean
  <2> QED
    BY <1>1, <1>2, <2>1, <2>3, <2>4, <2>5, <2>6, CallTypes DEF TypeOK
<1>5. DiskInv'
  <2>1. \A f \in File : disk.info[f].size <= Len(blk'[f]) /\ disk.info[f].undoSize <= Len(rev'[f])
    BY <1>1, <1>3, Zenon DEF DiskInv, Readable, Fits
  <2>2. ASSUME NEW c \in Block, disk.index[c].data
        PROVE  /\ blk'[disk.index[c].file][disk.index[c].pos] = blk[disk.index[c].file][disk.index[c].pos]
               /\ BlkSlot(disk.index[c].file, disk.index[c].pos) \notin unsynced'
    <3> DEFINE g == disk.index[c].file
               q == disk.index[c].pos
    <3>1. g \in File
      BY <1>1, EntryTypes
    <3>2. q \in DOMAIN blk[g] /\ BlkSlot(g, q) \notin unsynced
      BY <1>1, <2>2, DiskSlots, Zenon
    <3> HIDE DEF g, q
    <3>4. blk'[g][q] = blk[g][q]
      BY <1>2, <3>1, <3>2, Zenon
    <3> QED
      BY <1>2, <3>2, <3>4, Zenon DEF g, q
  <2>3. ASSUME NEW c \in Block, disk.index[c].undo
        PROVE  \/ rev'[disk.index[c].file][disk.index[c].upos] = rev[disk.index[c].file][disk.index[c].upos]
               \/ PowerLoss /\ rev'[disk.index[c].file][disk.index[c].upos] = Garbage
    <3> DEFINE g == disk.index[c].file
               q == disk.index[c].upos
    <3>1. g \in File
      BY <1>1, EntryTypes
    <3>2. q \in DOMAIN rev[g]
      BY <1>1, <2>3, DiskSlots, Zenon
    <3> HIDE DEF g, q
    <3>4. rev'[g][q] = IF RevSlot(g, q) \in lost THEN Garbage ELSE rev[g][q]
      BY <1>2, <3>1, <3>2, Zenon
    <3> QED
      BY <1>2, <3>4, Zenon DEF g, q
  <2> QED
    BY <1>1, <1>2, <2>1, <2>2, <2>3, DiskStays, Zenon
<1> QED
  BY <1>2, <1>4, <1>5 DEF IInv

LEMMA LoadGood ==
    ASSUME IInv, LoadBlockIndexDB
    PROVE  IInv' /\ pc' = "running"
<1>1. TypeOK /\ DiskInv
  BY DEF IInv
<1>2. ASSUME NEW b \in Block, disk.index[b].data PROVE Exists(disk.index[b].file)
  <2>1. disk.index[b].pos \in DOMAIN blk[disk.index[b].file]
    BY <1>1, <1>2, DiskSlots, Zenon
  <2>2. DOMAIN <<>> = {}
    OBVIOUS
  <2> QED
    BY <2>1, <2>2, Zenon DEF Exists
<1> DEFINE S == AlreadyPrunedFiles
<1>3. pc' = "running" /\ Unlink(S)
  BY <1>2, Zenon DEF LoadBlockIndexDB
<1>4. /\ index' = disk.index /\ info' = disk.info /\ cursor' = [file |-> disk.last, undoHeight |-> 0]
      /\ tip' = coinsTip /\ UNCHANGED <<dirty, flush, disk, coinsTip>>
  BY Zenon DEF LoadBlockIndexDB
<1>5. \A f \in File : f \in S => disk.info[f].size = 0
  BY Zenon DEF AlreadyPrunedFiles
<1> HIDE DEF S
<1>6. blk' \in [File -> Slots] /\ rev' \in [File -> Slots] /\ unsynced' \subseteq unsynced
  BY <1>1, <1>3, UnlinkTypes, Zenon
<1>7. TypeOK'
  BY <1>1, <1>4, <1>6 DEF TypeOK
<1>8. Readable(disk.index, disk.info, disk.last, blk', rev', disk.pruned)
  <2>1. disk.index \in [Block -> Position] /\ disk.info \in [File -> Info]
    BY <1>1 DEF TypeOK
  <2>2. Readable(disk.index, disk.info, disk.last, blk, rev, disk.pruned)
    BY <1>1 DEF DiskInv
  <2> QED
    BY <1>1, <1>3, <1>5, <2>1, <2>2, UnlinkReadable, Zenon
<1>9. \A c \in Block : disk.index[c].data => BlkSlot(disk.index[c].file, disk.index[c].pos) \notin unsynced'
  BY <1>1, <1>6, Zenon DEF DiskInv
<1>10. DiskInv'
  BY <1>4, <1>8, <1>9 DEF DiskInv
<1>11. cursor'.file = disk.last
  BY <1>4
<1>12. Synced' /\ CleanIsOnDisk'
  BY <1>4, <1>9 DEF Synced, CleanIsOnDisk
<1>13. Grown'
  <2>1. disk.last <= disk.last
    BY <1>1 DEF TypeOK, File
  <2>2. \A f \in File : disk.info[f].size >= disk.info[f].size /\ disk.info[f].undoSize >= disk.info[f].undoSize
    BY <1>1, InfoTypes
  <2> QED
    BY <1>4, <1>11, <2>1, <2>2 DEF Grown
<1>14. Flushing'
  BY <1>3 DEF Flushing
<1>15. MemInv'
  BY <1>4, <1>8, <1>11, <1>12, <1>13, <1>14 DEF MemInv
<1> QED
  BY <1>3, <1>7, <1>10, <1>15 DEF IInv


-----------------------------------------------------------------------------
(* The invariant and what follows from it. *)

LEMMA InitGood == Init => IInv
<1> SUFFICES ASSUME Init PROVE IInv
  OBVIOUS
<1> DEFINE stored == [NoPos EXCEPT !.data = TRUE, !.pos = 1]
           T == [index : [Block -> Position], info : [File -> Info], last : File, pruned : BOOLEAN]
<1>1. /\ index = [b \in Block |-> IF b = Genesis THEN stored ELSE NoPos]
      /\ info = [f \in File |-> IF f = 0 THEN AddBlock(NewInfo, 0) ELSE NewInfo]
      /\ cursor = [file |-> 0, undoHeight |-> 0]
      /\ dirty = Clean /\ tip = Genesis /\ pc = "running" /\ flush = NoFlush
      /\ disk = [Nothing EXCEPT !.index = index, !.info = info]
      /\ coinsTip = Genesis
      /\ blk = [f \in File |-> IF f = 0 THEN <<Genesis>> ELSE <<>>]
      /\ rev = [f \in File |-> <<>>]
      /\ unsynced = {}
  BY Zenon DEF Init
<1>2. /\ NoPos \in Position /\ NoPos.file = 0 /\ NoPos.data = FALSE /\ NoPos.undo = FALSE
      /\ NewInfo \in Info /\ NewInfo.size = 0 /\ NewInfo.undoSize = 0 /\ NewInfo.last = 0
      /\ 0 \in File /\ Genesis \in Block /\ 1 \in Nat /\ TRUE \in BOOLEAN
  BY BlockFilesAssumption DEF NoPos, Position, File, NewInfo, Info
<1>3. stored \in Position /\ stored.data = TRUE /\ stored.undo = FALSE /\ stored.file = 0 /\ stored.pos = 1
  <2>1. stored \in Position
    BY <1>2, Zenon DEF Position
  <2>2. stored.data = TRUE /\ stored.undo = NoPos.undo /\ stored.file = NoPos.file /\ stored.pos = 1
    BY <1>2, Zenon DEF Position
  <2> QED
    BY <1>2, <2>1, <2>2, Zenon
<1> DEFINE first == AddBlock(NewInfo, 0)
<1>4. first \in Info /\ first.size = 1 /\ first.undoSize = 0 /\ first.last \in Nat
  BY <1>2, AddBlockIs DEF Info
<1> HIDE DEF stored, first, T
<1>5. index \in [Block -> Position] /\ info \in [File -> Info]
  BY <1>1, <1>2, <1>3, <1>4, Zenon DEF first
<1>6. disk \in T /\ disk.index = index /\ disk.info = info /\ disk.last = 0 /\ disk.pruned = FALSE
  <2>1. Nothing \in T /\ Nothing.last = 0 /\ Nothing.pruned = FALSE
    <3> DEFINE x == [b \in Block |-> NoPos]
               y == [f \in File |-> NewInfo]
    <3>1. x \in [Block -> Position] /\ y \in [File -> Info]
      BY <1>2, Zenon
    <3>2. Nothing = [index |-> x, info |-> y, last |-> 0, pruned |-> FALSE]
      BY Zenon DEF Nothing
    <3> HIDE DEF x, y
    <3> QED
      BY <1>2, <3>1, <3>2 DEF T
  <2>2. disk \in T
    BY <1>1, <1>5, <2>1, Zenon DEF T
  <2>3. disk.index = index /\ disk.info = info /\ disk.last = Nothing.last /\ disk.pruned = Nothing.pruned
    BY <1>1, <1>5, <2>1, Zenon DEF T
  <2> QED
    BY <2>1, <2>2, <2>3, Zenon
<1>7. TypeOK
  <2>1. blk \in [File -> Slots] /\ rev \in [File -> Slots]
    <3>1. <<Genesis>> \in Slots /\ <<>> \in Slots
      BY <1>2 DEF Slots
    <3> QED
      BY <1>1, <3>1, Zenon
  <2>2. cursor \in [file : File, undoHeight : Nat] /\ dirty \in [blocks : SUBSET Block, files : SUBSET File]
    BY <1>1, <1>2 DEF Clean
  <2> QED
    BY <1>1, <1>2, <1>5, <1>6, <2>1, <2>2, CallTypes, Zenon DEF TypeOK, T
<1>8. Readable(index, info, 0, blk, rev, FALSE)
  <2>1. \A b \in Block : index[b].data => b = Genesis
    BY <1>1, <1>2, <1>3, Zenon
  <2>2. index[Genesis] = stored /\ info[0] = first /\ blk[0] = <<Genesis>>
    BY <1>1, <1>2, Zenon DEF first
  <2>3. StoredIn(stored, Genesis, info, 0, blk)
    <3>1. <<Genesis>>[1] = Genesis /\ 0 <= 0 /\ 1 \in 1..1
      OBVIOUS
    <3>2. Height[Genesis] = 0
      BY <1>2, HeightDefined
    <3>3. 0 <= first.last
      BY <1>4
    <3> QED
      BY <1>3, <1>4, <2>2, <3>1, <3>2, <3>3, Zenon DEF StoredIn
  <2>4. \A b \in Block : ~index[b].undo
    BY <1>1, <1>2, <1>3, Zenon
  <2>5. ASSUME NEW f \in File PROVE Fits(info[f], f, 0, blk[f], rev[f], FALSE)
    <3>1. f \in Nat /\ Len(<<Genesis>>) = 1 /\ Len(<<>>) = 0
      BY <1>7, InfoTypes
    <3>2. CASE f = 0
      BY <1>1, <1>4, <2>2, <3>1, <3>2 DEF Fits
    <3>3. CASE f # 0
      <4>1. info[f] = NewInfo /\ blk[f] = <<>> /\ rev[f] = <<>>
        BY <1>1, <3>3, Zenon
      <4>2. info[f].size = 0 /\ info[f].undoSize = 0 /\ Len(blk[f]) = 0 /\ Len(rev[f]) = 0
        BY <1>2, <3>1, <4>1, Zenon
      <4> QED
        BY <3>1, <4>2 DEF Fits
    <3> QED
      BY <3>2, <3>3, Zenon
  <2>6. \A f \in File : info[f].size # 0 => f = 0
    BY <1>1, <1>2, Zenon
  <2> QED
    BY <1>2, <1>3, <2>1, <2>2, <2>3, <2>4, <2>5, <2>6, Zenon DEF Readable
<1>9. DiskInv
  <2>1. Readable(disk.index, disk.info, disk.last, blk, rev, disk.pruned)
    BY <1>6, <1>8, Zenon
  <2> QED
    BY <1>1, <2>1 DEF DiskInv
<1>10. MemInv
  <2>1. cursor.file = 0
    BY <1>1
  <2>2. Synced /\ CleanIsOnDisk
    BY <1>1, <1>6 DEF Synced, CleanIsOnDisk
  <2>3. Grown
    <3>1. \A f \in File : info[f].size >= info[f].size /\ info[f].undoSize >= info[f].undoSize
      BY <1>7, InfoTypes
    <3> QED
      BY <1>6, <2>1, <3>1 DEF Grown
  <2>4. Flushing
    BY <1>1 DEF Flushing
  <2>5. Readable(index, info, cursor.file, blk, rev, disk.pruned)
    BY <1>6, <1>8, <2>1, Zenon
  <2> QED
    BY <2>2, <2>3, <2>4, <2>5, Zenon DEF MemInv
<1> QED
  BY <1>1, <1>7, <1>9, <1>10 DEF IInv

LEMMA StepGood == IInv /\ [Next]_vars => IInv'
<1> SUFFICES ASSUME IInv, [Next]_vars PROVE IInv'
  OBVIOUS
<1>1. ASSUME NEW b \in Block, NEW allocated \in BOOLEAN, SaveBlockToDisk(b, allocated) PROVE IInv'
  <2>1. Up
    BY <1>1 DEF Up, SaveBlockToDisk
  <2> QED
    BY <1>1, <2>1, SaveGood, Zenon
<1>2. ASSUME NEW b \in Block, NEW allocated \in BOOLEAN, ConnectTip(b, allocated) PROVE IInv'
  <2>1. Up
    BY <1>2 DEF Up, ConnectTip
  <2> QED
    BY <1>2, <2>1, ConnectGood, Zenon
<1>3. CASE DisconnectTip
  BY <1>3, DisconnectGood DEF Up, DisconnectTip
<1>4. CASE FlushAndPrune \/ PruneBlockFilesManual
  <2>1. Up
    BY <1>4 DEF Up, FlushAndPrune, PruneBlockFilesManual, FlushStateToDisk
  <2> QED
    BY <1>4, <2>1, PruningGood, Zenon
<1>5. CASE PruneAndFlush
  BY <1>5, SameFiles DEF Up, PruneAndFlush, IInv, TypeOK
<1>6. CASE WriteBlockIndexDB
  BY <1>6, WriteGood DEF Up, WriteBlockIndexDB
<1>7. ASSUME NEW f \in File, UnlinkPrunedFile(f) PROVE IInv'
  <2>1. Up
    BY <1>7 DEF Up, UnlinkPrunedFile
  <2> QED
    BY <1>7, <2>1, UnlinkGood, Zenon
<1>8. CASE FlushCoins
  <2>1. Up /\ UNCHANGED <<index, info, cursor, dirty, fileVars, disk>>
    BY <1>8 DEF Up, FlushCoins, memVars
  <2>2. pc' \in {"running", "flush"} /\ tip' \in Block /\ coinsTip' \in Block /\ flush' \in Call
    BY <1>8, CallTypes DEF FlushCoins, memVars, IInv, TypeOK
  <2> QED
    BY <2>1, <2>2, SameFiles, Zenon
<1>9. ASSUME NEW lost \in SUBSET unsynced, Crash(lost) PROVE IInv'
  <2>1. Up
    BY <1>9, Zenon DEF Up, Crash
  <2> QED
    BY <1>9, <2>1, CrashGood, Zenon
<1>10. CASE LoadBlockIndexDB
  BY <1>10, LoadGood
<1>11. CASE UNCHANGED vars
  <2>1. UNCHANGED <<index, info, cursor, dirty, tip, blk, rev, unsynced, pc, flush, disk, coinsTip>>
    BY <1>11 DEF vars, memVars, fileVars
  <2>2. TypeOK' /\ DiskInv'
    BY <2>1 DEF IInv, TypeOK, DiskInv
  <2>3. Synced' = Synced /\ CleanIsOnDisk' = CleanIsOnDisk /\ Grown' = Grown /\ Flushing' = Flushing
    BY <2>1 DEF Synced, CleanIsOnDisk, Grown, Flushing
  <2>4. MemInv' = MemInv
    BY <2>1, <2>3 DEF MemInv
  <2> QED
    BY <2>1, <2>2, <2>4 DEF IInv
<1> QED
  BY <1>1, <1>2, <1>3, <1>4, <1>5, <1>6, <1>7, <1>8, <1>9, <1>10, <1>11, Zenon DEF Next

LEMMA Inductive == Spec => []IInv
BY InitGood, StepGood, PTL DEF Spec

(***************************************************************************)
(* What the block tree database points at is synced and readable at every  *)
(* moment, and so is what the index in memory points at: no order of       *)
(* arrival, connection, pruning, crash, power loss and rewriting of file   *)
(* tails loses a block that the index has.                                 *)
(***************************************************************************)
THEOREM FilesHoldIndex == Spec => []IndexReadable
<1>1. ASSUME IInv PROVE IndexReadable
  <2>1. TypeOK /\ DiskInv /\ (pc # "down" => MemInv)
    BY <1>1 DEF IInv
  <2>2. \A b \in Block : disk.index[b].data =>
          HoldsBlock(disk.index[b], b) /\ BlkSlot(disk.index[b].file, disk.index[b].pos) \notin unsynced
    BY <2>1, DiskSlots, Zenon DEF HoldsBlock
  <2>3. ASSUME pc # "down", NEW b \in Block, index[b].data PROVE HoldsBlock(index[b], b)
    BY <2>1, <2>3, MemSlots, Zenon DEF HoldsBlock
  <2>4. ASSUME pc # "down", NEW b \in Block, index[b].undo
        PROVE  HoldsUndo(index[b], b) \/ (PowerLoss /\ HoldsUndo(index[b], Garbage))
    BY <2>1, <2>4, MemSlots, Zenon DEF HoldsUndo
  <2>5. pc \notin {"down", "failed"} => pc # "down"
    OBVIOUS
  <2> QED
    BY <2>2, <2>3, <2>4, <2>5, Zenon DEF IndexReadable
<1> QED
  BY <1>1, Inductive, PTL

(***************************************************************************)
(* "Checking all blk files are present" never fails: LoadBlockIndexDB      *)
(* finds every file the index refers to, whenever the process died.        *)
(***************************************************************************)
THEOREM StartSucceeds == Spec => []StartNeverFails
<1>1. IInv => StartNeverFails
  BY DEF IInv, StartNeverFails
<1> QED
  BY <1>1, Inductive, PTL

(***************************************************************************)
(* FindFilesToPrune and FindFilesToPruneManual keep the MIN_BLOCKS_TO_KEEP *)
(* blocks below the tip, whatever order blocks arrived in.                 *)
(***************************************************************************)
THEOREM RecentKept == Spec => RecentBlocksKept
<1> DEFINE Step == \A b \in Block :
               (pc \in {"running", "flush"} /\ pc' # "down" /\ index[b].data /\ ~index'[b].data)
                   => Height[b] + Keep <= Height[tip]
<1>1. ASSUME IInv, [Next]_vars PROVE Step
  <2> SUFFICES ASSUME NEW b \in Block, pc \in {"running", "flush"}, pc' # "down",
                      index[b].data, ~index'[b].data
               PROVE  Height[b] + Keep <= Height[tip]
    BY Zenon
  <2>1. TypeOK /\ MemInv /\ pc # "down" /\ pc # "writeIndex" /\ pc # "unlink" /\ pc # "flushCoins"
    BY <1>1 DEF IInv
  <2>2. index' # index
    BY Zenon
  <2>3. ASSUME NEW c \in Block, NEW allocated \in BOOLEAN, SaveBlockToDisk(c, allocated) PROVE FALSE
    <3>1. index \in [Block -> Position] /\ ~index[c].data
      BY <2>1, <2>3 DEF TypeOK, SaveBlockToDisk
    <3>2. \E e : index' = [index EXCEPT ![c] = e]
      BY <2>3, Zenon DEF SaveBlockToDisk
    <3> QED
      BY <3>1, <3>2, Zenon
  <2>4. ASSUME NEW c \in Block, NEW allocated \in BOOLEAN, ConnectTip(c, allocated) PROVE FALSE
    <3>1. index' = [index EXCEPT ![c].undo = TRUE, ![c].upos = info[index[c].file].undoSize + 1]
      BY <2>2, <2>4, Zenon DEF ConnectTip, WriteUndoDataForBlock
    <3>2. index \in [Block -> Position] /\ index[c] \in Position
      BY <2>1 DEF TypeOK
    <3> DEFINE x == info[index[c].file].undoSize + 1
               e == [index[c] EXCEPT !.undo = TRUE, !.upos = x]
    <3>3. index' = [index EXCEPT ![c] = e]
      BY <3>1, <3>2, Zenon
    <3> HIDE DEF x
    <3>4. e.data = index[c].data
      BY <3>2, Zenon DEF Position
    <3> HIDE DEF e
    <3> QED
      BY <3>2, <3>3, <3>4, Zenon
  <2>5. PICK mode, S : S \in PruneChoices \cup PruneManualChoices /\ FlushStateToDisk(mode, S)
    <3>1. ~DisconnectTip /\ ~PruneAndFlush /\ ~FlushCoins /\ ~UNCHANGED vars
      BY <2>2 DEF DisconnectTip, PruneAndFlush, FlushCoins, vars, memVars
    <3>2. ~WriteBlockIndexDB /\ ~LoadBlockIndexDB /\ (\A f \in File : ~UnlinkPrunedFile(f))
      BY <2>1 DEF WriteBlockIndexDB, LoadBlockIndexDB, UnlinkPrunedFile
    <3>3. \A lost : ~Crash(lost)
      BY DEF Crash
    <3>4. FlushAndPrune \/ PruneBlockFilesManual
      BY <1>1, <2>3, <2>4, <3>1, <3>2, <3>3, Zenon DEF Next
    <3> QED
      BY <3>4, Zenon DEF FlushAndPrune, PruneBlockFilesManual
  <2>6. S = {} \/ \E limit \in Nat : S \subseteq Prunable(limit)
    <3>1. Height[tip] \in Nat
      BY <2>1, HeightDefined DEF TypeOK
    <3>2. CASE S \in PruneManualChoices
      <4>1. PICK h \in 1..Height[tip] : S = Prunable(h)
        BY <3>2, Zenon DEF PruneManualChoices
      <4>2. h \in Nat
        BY <3>1, <4>1
      <4> QED
        BY <4>1, <4>2, Zenon
    <3>3. CASE S \in PruneChoices
      <4>1. CASE checkPrune
        BY <3>1, <3>3, <4>1, Zenon DEF PruneChoices
      <4>2. CASE ~checkPrune
        BY <3>3, <4>2, Zenon DEF PruneChoices
      <4> QED
        BY <4>1, <4>2
    <3> QED
      BY <2>5, <3>2, <3>3, Zenon
  <2>7. index[b].file \in S
    <3>1. index' = [c \in Block |-> IF index[c].file \in S THEN NoPos ELSE index[c]]
      BY <2>5, Zenon DEF FlushStateToDisk, PruneFiles
    <3> QED
      BY <3>1, Zenon
  <2> DEFINE f == index[b].file
             most == IF Height[tip] > Keep THEN Height[tip] - Keep ELSE 0
  <2>8. PICK limit \in Nat : f \in Prunable(limit)
    BY <2>6, <2>7, Zenon
  <2>9. f \in File /\ f < cursor.file /\ info[f].size # 0
        /\ info[f].last <= (IF limit < most THEN limit ELSE most)
    <3>1. Height[tip] # 0
      BY <2>8, ZenonT(40) DEF Prunable
    <3> QED
      BY <2>8, <3>1, Zenon DEF Prunable
  <2>10. info[f].size \in Nat /\ info[f].last \in Nat /\ Height[tip] \in Nat /\ Height[b] \in Nat /\ Keep \in Nat
    BY <2>1, <2>9, InfoTypes, HeightDefined, BlockFilesAssumption DEF TypeOK
  <2>11. Height[b] <= info[f].last
    BY <2>1, Zenon DEF MemInv, Readable, StoredIn
  <2>12. info[f].last >= 1
    <3>1. Fits(info[f], f, cursor.file, blk[f], rev[f], disk.pruned)
      BY <2>1, <2>9, Zenon DEF MemInv, Readable
    <3>2. info[f].size >= FileCapacity
      BY <2>9, <3>1, Zenon DEF Fits
    <3>3. info[f].size > 1
      BY <2>10, <3>2, BlockFilesAssumption
    <3> QED
      BY <3>1, <3>3, Zenon DEF Fits
  <2> HIDE DEF f
  <2> QED
    BY <2>9, <2>10, <2>11, <2>12
<1>2. Spec => [][Step]_vars
  <2> HIDE DEF Step
  <2> QED
    BY <1>1, Inductive, PTL DEF Spec
<1> QED
  BY <1>2, Zenon DEF RecentBlocksKept

(***************************************************************************)
(* ScanAndUnlinkAlreadyPrunedFiles leaves no file below the last one that  *)
(* the index has no block in.                                              *)
(***************************************************************************)
THEOREM OrphansRemoved == Spec => NoOrphanFiles
<1> DEFINE Step == pc = "down" /\ pc' = "running" =>
               \A f \in File : (f < cursor'.file /\ blk'[f] # <<>>)
                   => \E b \in Block : index'[b].data /\ index'[b].file = f
<1>1. ASSUME IInv, [Next]_vars PROVE Step
  <2> SUFFICES ASSUME pc = "down", pc' = "running", NEW f \in File, f < cursor'.file, blk'[f] # <<>>
               PROVE  \E b \in Block : index'[b].data /\ index'[b].file = f
    BY Zenon
  <2>1. LoadBlockIndexDB
    <3>1. /\ \A b \in Block, a \in BOOLEAN : ~SaveBlockToDisk(b, a) /\ ~ConnectTip(b, a)
          /\ ~DisconnectTip /\ ~FlushAndPrune /\ ~PruneAndFlush /\ ~PruneBlockFilesManual
          /\ ~WriteBlockIndexDB /\ (\A g \in File : ~UnlinkPrunedFile(g)) /\ ~FlushCoins
          /\ (\A lost : ~Crash(lost)) /\ ~UNCHANGED vars
      BY DEF SaveBlockToDisk, ConnectTip, DisconnectTip, FlushAndPrune, PruneAndFlush, FlushStateToDisk,
             PruneBlockFilesManual, WriteBlockIndexDB, UnlinkPrunedFile, FlushCoins, Crash, vars
    <3> QED
      BY <1>1, <3>1, Zenon DEF Next
  <2>2. IInv'
    BY <1>1, <2>1, LoadGood
  <2>3. Readable(index', info', cursor'.file, blk', rev', disk'.pruned) /\ info' = disk.info /\ disk' = disk
        /\ cursor' = [file |-> disk.last, undoHeight |-> 0] /\ Unlink(AlreadyPrunedFiles)
    <3>1. pc' # "down" /\ "running" # "failed"
      OBVIOUS
    <3> QED
      BY <2>1, <2>2, <3>1, Zenon DEF IInv, MemInv, LoadBlockIndexDB
  <2>4. info'[f].size # 0
    <3> SUFFICES ASSUME info'[f].size = 0 PROVE FALSE
      OBVIOUS
    <3>1. Fits(info'[f], f, cursor'.file, blk'[f], rev'[f], disk'.pruned)
      BY <2>3, Zenon DEF Readable
    <3>2. ~(0 >= FileCapacity)
      BY BlockFilesAssumption
    <3>3. disk.pruned /\ f < disk.last
      BY <2>3, <3>1, <3>2 DEF Fits
    <3>4. f \in AlreadyPrunedFiles
      BY <2>3, <3>3, Zenon DEF AlreadyPrunedFiles
    <3> QED
      BY <2>3, <3>4, Zenon DEF Unlink
  <2> QED
    BY <2>3, <2>4, Zenon DEF Readable
<1>2. Spec => [][Step]_vars
  <2> HIDE DEF Step
  <2> QED
    BY <1>1, Inductive, PTL DEF Spec
<1> QED
  BY <1>2, Zenon DEF NoOrphanFiles
=============================================================================
