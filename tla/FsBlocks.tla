------------------------------ MODULE FsBlocks ------------------------------
(***************************************************************************)
(* testfs below the directories: freemaps, super block, inodes and the     *)
(* block map of a file (super.c, bitmap.c, inode.c, read_write.c).  Each   *)
(* function of the code is an operator from a process state to a process   *)
(* state:                                                                  *)
(*   disk     the device                                                   *)
(*   log      the device after each block written by the current command   *)
(*   cache    the inode hash table                                         *)
(*   cur_dir  the current directory of the shell                           *)
(*   ret      what the last function returned                              *)
(*   status   "mounted", or how the process ended                          *)
(* The freemaps and the super block in memory are written to the device by *)
(* the function that changes them, so one copy stands for both.            *)
(***************************************************************************)
EXTENDS Integers, Sequences, SequencesExt

CONSTANTS BLOCK_SIZE,        \* cells in a block
          NR_DIRECT_BLOCKS,
          NrInodes,          \* NR_INODE_BLOCKS * INODES_PER_BLOCK
          InodeBits,         \* bits in the inode freemap
          BlockBits          \* bits in the block freemap

ASSUME FsSizes ==
  /\ {BLOCK_SIZE, NR_DIRECT_BLOCKS, NrInodes, BlockBits} \subseteq Nat \ {0}
  /\ InodeBits \in Nat /\ InodeBits >= NrInodes

NR_INDIRECT_BLOCKS == BLOCK_SIZE
Inodes == 0 .. NrInodes - 1
DataBlocks == 1 .. BlockBits      \* data_blocks_start is 1

ENOENT == -2
EEXIST == -17
ENOTDIR == -20
EISDIR == -21
EINVAL == -22
ENOSPC == -28
ENOSYS == -38
ENOTEMPTY == -39

(* A cell of a block: a number (a byte, or a block number in an indirect   *)
(* block), the name and inode number at the start of a directory entry, or *)
(* the rest of an entry.                                                   *)
Number(v) == <<"", v>>
Entry(name, inode_nr) == <<name, inode_nr>>
Rest == <<"+", 0>>
ZeroBlock == [i \in 0 .. BLOCK_SIZE - 1 |-> Number(0)]

ZeroInode ==
  [i_type |-> "I_NONE", i_block_nr |-> [i \in 0 .. NR_DIRECT_BLOCKS - 1 |-> 0],
   i_indirect |-> 0, block_count |-> 0, i_size |-> 0]

(* The device after mktestfs wrote the super block, the freemaps and the   *)
(* inode blocks.  device_end is the last data block the file reaches.      *)
EmptyDisk(max_fs_blocks) ==
  [used_inode_count |-> 0, used_block_count |-> 0, max_fs_blocks |-> max_fs_blocks,
   inode_freemap |-> {}, block_freemap |-> {},
   inode |-> [i \in Inodes |-> ZeroInode],
   block |-> [b \in DataBlocks |-> ZeroBlock], device_end |-> 0]

-----------------------------------------------------------------------------
Return(s, ret) == [s EXCEPT !.ret = ret]

(* What follows a call, with the state the call leaves: always, or unless  *)
(* it returned an error, which is then returned.                           *)
Then(s, Go(_)) == Go(s)
IfOk(s, Go(_)) == IF s.ret < 0 THEN s ELSE Go(s)

(* assert() and EXIT() end the process: nothing is written afterwards.     *)
EndIf(s, bad, how) ==
  IF s.status = "mounted" /\ bad THEN [s EXCEPT !.status = how] ELSE s

Store(s, d) ==
  IF s.status = "mounted" THEN [s EXCEPT !.disk = d, !.log = Append(@, d)] ELSE s

write_blocks(s, b, contents) ==
  Store(s, [s.disk EXCEPT !.block[b] = contents, !.device_end = Max({@, b})])

(* fread past the end of the device file fails.                            *)
read_blocks(s, b) == EndIf(s, b > s.disk.device_end, "fread")

-----------------------------------------------------------------------------
(* The first clear bit of a freemap, or -ENOSPC.                           *)
bitmap_alloc(map, nbits) ==
  LET free == 0 .. nbits - 1 \ map IN IF free = {} THEN ENOSPC ELSE Min(free)

testfs_get_inode_freemap(s) ==
  LET nr == bitmap_alloc(s.disk.inode_freemap, InodeBits)
      d == [s.disk EXCEPT !.inode_freemap = @ \cup {nr}]
  IN IF nr < 0 THEN Return(s, nr)
     ELSE Return(Store(Store(s, d), [d EXCEPT !.used_inode_count = @ + 1]), nr)

bitmap_unmark(s, map, nr) == EndIf(s, nr \notin map, "bitmap_unmark")

UncountInode(s) ==
  LET s1 == EndIf(s, s.disk.used_inode_count = 0, "used_inode_count")
  IN Store(s1, [s1.disk EXCEPT !.used_inode_count = @ - 1])

testfs_put_inode_freemap(s, nr) ==
  LET s1 == bitmap_unmark(s, s.disk.inode_freemap, nr)
  IN UncountInode(Store(s1, [s1.disk EXCEPT !.inode_freemap = @ \ {nr}]))

testfs_get_block_freemap(s) ==
  LET nr == bitmap_alloc(s.disk.block_freemap, BlockBits)
  IN IF nr < 0 THEN Return(s, nr)
     ELSE Return(Store(s, [s.disk EXCEPT !.block_freemap = @ \cup {nr}]), nr)

testfs_put_block_freemap(s, nr) ==
  LET s1 == bitmap_unmark(s, s.disk.block_freemap, nr)
  IN Store(s1, [s1.disk EXCEPT !.block_freemap = @ \ {nr}])

testfs_alloc_block(s) ==
  IF s.disk.used_block_count >= s.disk.max_fs_blocks THEN Return(s, ENOSPC)
  ELSE IfOk(testfs_get_block_freemap(s), LAMBDA t :
         Return(Store(t, [t.disk EXCEPT !.used_block_count = @ + 1]), t.ret + 1))

UncountBlock(s) ==
  LET s1 == EndIf(s, s.disk.used_block_count = 0, "used_block_count")
  IN Store(s1, [s1.disk EXCEPT !.used_block_count = @ - 1])

(* Bug: the block is freed with its contents.                              *)
BugFreesUnzeroed(s, b) == UncountBlock(testfs_put_block_freemap(s, b - 1))
testfs_free_block(s, b) ==
  UncountBlock(testfs_put_block_freemap(write_blocks(s, b, ZeroBlock), b - 1))

-----------------------------------------------------------------------------
inode_hash_find(s, nr) == nr \in DOMAIN s.cache
inode_hash_insert(s, nr, in) == [s EXCEPT !.cache = @ @@ (nr :> in)]
inode_hash_remove(s, nr) == [s EXCEPT !.cache = [n \in DOMAIN @ \ {nr} |-> @[n]]]
inode_hash_destroy(s) == EndIf(s, DOMAIN s.cache # {}, "inode_hash_destroy")

testfs_read_inode_block(s, nr) == s.disk.inode[nr]
testfs_write_inode_block(s, nr) == Store(s, [s.disk EXCEPT !.inode[nr] = s.cache[nr].in])

testfs_get_inode(s, nr) ==
  IF inode_hash_find(s, nr) THEN [s EXCEPT !.cache[nr].i_count = @ + 1]
  ELSE inode_hash_insert(s, nr, [in |-> testfs_read_inode_block(s, nr), dirty |-> FALSE,
                                 i_count |-> 1])

(* Bug: the flag is cleared and the inode is not written.                  *)
BugSyncsNothing(s, nr) == [s EXCEPT !.cache[nr].dirty = FALSE]
testfs_sync_inode(s, nr) ==
  IF ~s.cache[nr].dirty THEN s
  ELSE [testfs_write_inode_block(s, nr) EXCEPT !.cache[nr].dirty = FALSE]

testfs_put_inode(s, nr) ==
  LET s1 == EndIf(s, s.cache[nr].dirty, "put_dirty_inode")
  IN IF s.cache[nr].i_count > 1 THEN [s1 EXCEPT !.cache[nr].i_count = @ - 1]
     ELSE inode_hash_remove(s1, nr)

(* An assignment to a field of the in-memory inode, which marks it dirty.  *)
Update(s, nr, in) == [s EXCEPT !.cache[nr].in = in, !.cache[nr].dirty = TRUE]

testfs_alloc_block_for_inode(s, nr) ==
  IfOk(testfs_alloc_block(s), LAMBDA t :
    Update(t, nr, [t.cache[nr].in EXCEPT !.block_count = @ + 1]))

(* Bug: the block is not subtracted from block_count.                      *)
BugKeepsCount(s, nr, b) == IF b = 0 THEN s ELSE testfs_free_block(s, b)
testfs_free_block_from_inode(s, nr, b) ==
  IF b = 0 THEN s
  ELSE Update(testfs_free_block(s, b), nr, [s.cache[nr].in EXCEPT !.block_count = @ - 1])

(* Bug: the bit of an inode that does not exist is not cleared again.      *)
BugKeepsInodeBit(s, nr) == Return(s, ENOSPC)
NoSuchInode(s, nr) == Return(testfs_put_inode_freemap(s, nr), ENOSPC)

testfs_create_inode(s, type) ==
  IfOk(testfs_get_inode_freemap(s), LAMBDA t :
    IF t.ret >= NrInodes THEN NoSuchInode(t, t.ret)
    ELSE Then(testfs_get_inode(t, t.ret), LAMBDA u :
           Update(u, u.ret, [u.cache[u.ret].in EXCEPT !.i_type = type])))

-----------------------------------------------------------------------------
(* The block that holds logical block n of a file: 0 when there is none.   *)
BlockOf(d, in, n) ==
  IF n < NR_DIRECT_BLOCKS THEN in.i_block_nr[n]
  ELSE IF n - NR_DIRECT_BLOCKS >= NR_INDIRECT_BLOCKS THEN ENOSYS
  ELSE IF in.i_indirect > 0 THEN d.block[in.i_indirect][n - NR_DIRECT_BLOCKS][2]
  ELSE 0

testfs_read_block(s, nr, n) ==
  LET b == BlockOf(s.disk, s.cache[nr].in, n)
  IN Return(IF b > 0 THEN read_blocks(s, b) ELSE s, b)

(* The cell at an offset of a file: a block that does not exist is zeros.  *)
CellAt(d, in, o) ==
  LET b == BlockOf(d, in, o \div BLOCK_SIZE)
  IN IF b > 0 THEN d.block[b][o % BLOCK_SIZE] ELSE Number(0)

testfs_read_data(s, nr, start, size) ==
  LET k == Min({size, s.cache[nr].in.i_size - start})
  IN IF (start % BLOCK_SIZE) + k > BLOCK_SIZE THEN Return(s, ENOSYS)
     ELSE IfOk(testfs_read_block(s, nr, start \div BLOCK_SIZE), LAMBDA t : Return(t, k))

AllocateDirect(s, nr, n) ==
  IfOk(testfs_alloc_block_for_inode(s, nr), LAMBDA t :
    Update(t, nr, [t.cache[nr].in EXCEPT !.i_block_nr[n] = t.ret]))

(* The indirect block is given back when there is no block to go with it.  *)
(* Bug: the inode keeps its number.                                        *)
BugKeepsIndirect(s, nr) == testfs_free_block_from_inode(s, nr, s.cache[nr].in.i_indirect)
FreeIndirect(s, nr) ==
  LET s1 == testfs_free_block_from_inode(s, nr, s.cache[nr].in.i_indirect)
  IN Update(s1, nr, [s1.cache[nr].in EXCEPT !.i_indirect = 0])

GetIndirect(s, nr) ==
  IF s.cache[nr].in.i_indirect > 0 THEN s
  ELSE IfOk(testfs_alloc_block_for_inode(s, nr), LAMBDA t :
         Update(t, nr, [t.cache[nr].in EXCEPT !.i_indirect = t.ret]))

AllocateInIndirect(s, nr, k, indirect_allocated) ==
  LET ib == s.cache[nr].in.i_indirect
      pointers == IF indirect_allocated THEN ZeroBlock ELSE s.disk.block[ib]
  IN Then(testfs_alloc_block_for_inode(s, nr), LAMBDA t :
       IF t.ret >= 0 THEN write_blocks(t, ib, [pointers EXCEPT ![k] = Number(t.ret)])
       ELSE IF indirect_allocated THEN FreeIndirect(t, nr)
       ELSE t)

testfs_allocate_block(s, nr, n) ==
  Then(testfs_read_block(s, nr, n), LAMBDA t :
    IF t.ret # 0 THEN t
    ELSE IF n < NR_DIRECT_BLOCKS THEN AllocateDirect(t, nr, n)
    ELSE IfOk(GetIndirect(t, nr), LAMBDA u :
           AllocateInIndirect(u, nr, n - NR_DIRECT_BLOCKS, s.cache[nr].in.i_indirect = 0)))

(* Bug: a write inside a file truncates it.                                *)
BugTruncates(size, end) == end
SizeAfter(size, end) == Max({size, end})

Overwritten(block, ix, cells) ==
  [i \in DOMAIN block |-> IF i - ix \in 0 .. Len(cells) - 1
                          THEN cells[i - ix + 1] ELSE block[i]]

(* cells is the nonempty sequence of cells to be written.                  *)
testfs_write_data(s, nr, cells, start) ==
  LET n == start \div BLOCK_SIZE
      ix == start % BLOCK_SIZE
      fresh == BlockOf(s.disk, s.cache[nr].in, n) = 0
      Contents(t) == Overwritten(IF fresh THEN ZeroBlock ELSE t.disk.block[t.ret], ix, cells)
      Longer(in) == [in EXCEPT !.i_size = SizeAfter(@, start + Len(cells))]
  IN IF ix + Len(cells) > BLOCK_SIZE THEN Return(s, ENOSYS)
     ELSE IfOk(testfs_allocate_block(s, nr, n), LAMBDA t :
            Return(Update(write_blocks(t, t.ret, Contents(t)), nr, Longer(t.cache[nr].in)),
                   Len(cells)))

FirstBlocks(k) == [i \in 1 .. k |-> i - 1]

FreeDirect(s, nr, i) ==
  LET in == s.cache[nr].in
  IN IF in.i_block_nr[i] = 0 THEN s
     ELSE Then(testfs_free_block_from_inode(s, nr, in.i_block_nr[i]), LAMBDA t :
            Update(t, nr, [t.cache[nr].in EXCEPT !.i_block_nr[i] = 0]))

(* e_block_nr is what is left of it behind the direct blocks.              *)
FreeInIndirect(s, nr, e_block_nr) ==
  LET ib == s.cache[nr].in.i_indirect
      k == IF e_block_nr <= 0 THEN 0 ELSE Min({e_block_nr, NR_INDIRECT_BLOCKS})
  IN IF ib = 0 THEN s
     ELSE FreeIndirect(FoldLeft(LAMBDA t, i : testfs_free_block_from_inode(
                                                t, nr, s.disk.block[ib][i][2]),
                                EndIf(s, e_block_nr <= 0, "e_block_nr"), FirstBlocks(k)), nr)

testfs_free_blocks(s, nr) ==
  LET e_block_nr == (s.cache[nr].in.i_size + BLOCK_SIZE - 1) \div BLOCK_SIZE
      direct == FoldLeft(LAMBDA t, i : FreeDirect(t, nr, i), s,
                         FirstBlocks(Min({e_block_nr, NR_DIRECT_BLOCKS})))
  IN Then(FreeInIndirect(direct, nr, e_block_nr - NR_DIRECT_BLOCKS), LAMBDA t :
       IF e_block_nr > NR_DIRECT_BLOCKS + NR_INDIRECT_BLOCKS THEN Return(t, ENOSYS)
       ELSE Return(Update(t, nr, [t.cache[nr].in EXCEPT !.i_size = 0]), 0))

testfs_remove_inode(s, nr) ==
  Then(testfs_free_blocks(s, nr), LAMBDA t :
    Then(EndIf(t, t.cache[nr].in.block_count # 0, "block_count"), LAMBDA u :
      testfs_put_inode(testfs_sync_inode(
        testfs_put_inode_freemap(Update(u, nr, ZeroInode), nr), nr), nr)))
=============================================================================
