----------------------------- MODULE DiskLayout -----------------------------
(***************************************************************************)
(* Where kernel/fs/fs.c puts things on the disk.  After the header there    *)
(* are GroupCount groups, each with the bitmap of its blocks, the bitmap of *)
(* its inodes, its part of the inode table, and its data.  Inodes and data  *)
(* blocks are numbered from 1 over all groups; a bitmap in memory is the    *)
(* bitmaps of the groups one after the other, each longer than its group    *)
(* has inodes, or blocks, and bitmap.c jumps the rest.                      *)
(***************************************************************************)
EXTENDS Integers

CONSTANTS
  GroupCount,          \* FS_BLOCK_GROUP_COUNT, 6
  InodeTableSize,      \* blocks of inodes in a group, 910
  InodesPerBlock,      \* 8
  DataTableSize,       \* data blocks in a group, 7280
  BitmapSize           \* bits of a bitmap's block, 8192

ASSUME LayoutAssumption ==
  /\ {GroupCount, InodeTableSize, InodesPerBlock, DataTableSize, BitmapSize}
       \subseteq Nat \ {0}
  /\ InodeTableSize * InodesPerBlock <= BitmapSize
  /\ DataTableSize <= BitmapSize

Groups == 0 .. GroupCount - 1
InodesPerGroup == InodeTableSize * InodesPerBlock       \* s_inodes_per_group
BlocksPerGroup == DataTableSize                         \* s_blocks_per_group
DiskInodes == 1 .. GroupCount * InodesPerGroup
DiskBlocks == 1 .. GroupCount * BlocksPerGroup

FS_GLOB_GB_OFFSET == 3      \* MBR, superblock, group descriptors
GroupSize == 1 + 1 + InodeTableSize + DataTableSize     \* block_group
DiskEnd   == FS_GLOB_GB_OFFSET + GroupCount * GroupSize

bgroup_get(g)      == FS_GLOB_GB_OFFSET + g * GroupSize
bg_block_bitmap(g) == g * GroupSize + FS_GLOB_GB_OFFSET
bg_inode_bitmap(g) == g * GroupSize + FS_GLOB_GB_OFFSET + 1
bgroup_inodetbl(at) == at + 2

\* Mutant: the data starts one block early, on the last of the inodes.
BlocktblEarly(at) == at + 1 + InodeTableSize
bgroup_blocktbl(at) == at + 2 + InodeTableSize

data_get_block(k) ==
  bgroup_blocktbl(bgroup_get((k - 1) \div BlocksPerGroup)) + ((k - 1) % BlocksPerGroup)

inode_get_block(i) ==
  bgroup_inodetbl(bgroup_get((i - 1) \div InodesPerGroup))
    + (((i - 1) % InodesPerGroup) \div InodesPerBlock)
inode_get_block_index(i) == ((i - 1) % InodesPerGroup) % InodesPerBlock

\* bitmap_read, bitmap_write: the bit of an index, counted from the first of the
\* first group's.  A byte has its first bit on the left, for both of them.
BitOf(index, real_block_size) ==
  (index \div real_block_size) * BitmapSize + (index % real_block_size)
BlockBit(k) == BitOf(k - 1, DataTableSize)              \* of bm_blocks
InodeBit(i) == BitOf(i - 1, InodesPerGroup)             \* of bm_inodes
=============================================================================
