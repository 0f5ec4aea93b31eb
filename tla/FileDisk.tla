------------------------------ MODULE FileDisk ------------------------------
(***************************************************************************)
(* The files of FileBlocks on the disk of DiskLayout: an inode is written   *)
(* by reading the block it is in, changing its part and writing it back; a  *)
(* data block goes to its place; the bitmaps are bits in memory, and are    *)
(* written at the end of a write and of a removal.                          *)
(*                                                                         *)
(* block_read and block_write are of the cache of hdd.c, and image is what  *)
(* they see: of each block the line of the cache, or the disk.  HddCache    *)
(* has the cache, and the eviction that loses a write; here it loses none.  *)
(* Nor are the writes that reach the disk followed one by one: written_back *)
(* says that all have, and while it does not, a part of them has.           *)
(***************************************************************************)
EXTENDS FileBlocks, DiskLayout

VARIABLES
  image,    \* what block_read finds in each block
  bits,     \* g_block_bmps and g_inode_bmps: the bits that are set
  written_back  \* the disk has all that the cache has

diskVars == <<vars, image, bits>>

ASSUME DiskAssumption == Blocks \subseteq DiskBlocks /\ Inodes \subseteq DiskInodes

At == 0 .. DiskEnd - 1
InodePlaces == {inode_get_block(i) : i \in DiskInodes}
NoInodes  == [j \in 0 .. InodesPerBlock - 1 |-> NoInode]
InodesAt(im, a) == IF "inodes" \in DOMAIN im[a] THEN im[a].inodes ELSE NoInodes

\* block_write, to the cache, of what a step of a call changed
Written(im) ==
  [a \in At |->
     LET ks == {k \in Blocks : blk'[k] # blk[k] /\ data_get_block(k) = a}
         is == {i \in Inodes : ino'[i] # ino[i] /\ inode_get_block(i) = a}
     IN IF is # {}
        THEN [inodes |-> [j \in 0 .. InodesPerBlock - 1 |->
                            LET here == {i \in is : inode_get_block_index(i) = j} IN
                            IF here = {} THEN InodesAt(im, a)[j]
                            ELSE ino'[CHOOSE i \in here : TRUE]]]
        ELSE IF ks # {} THEN [data |-> blk'[CHOOSE k \in ks : TRUE]]
        ELSE im[a]]

\* bitmap_write: the bits of what was taken, and of what was given back
Flipped ==
  [blocks |-> (bits.blocks \ {BlockBit(k) : k \in Blocks \cap (marks \ marks')})
                \union {BlockBit(k) : k \in Blocks \cap (marks' \ marks)},
   inodes |-> (bits.inodes \ {InodeBit(i) : i \in Inodes \cap (taken \ taken')})
                \union {InodeBit(i) : i \in Inodes \cap (taken' \ taken)}]

\* One group's part of a bitmap
Part(set, g) == {p \in 0 .. BitmapSize - 1 : g * BitmapSize + p \in set}

\* fs_bitmaps_write_all
\* Mutant: but for the last group.
SaveButLast(im, bs) ==
  [a \in At |-> IF \E g \in Groups \ {GroupCount - 1} : a = bg_block_bitmap(g)
                THEN [bits |-> Part(bs.blocks, (a - FS_GLOB_GB_OFFSET) \div GroupSize)]
                ELSE IF \E g \in Groups \ {GroupCount - 1} : a = bg_inode_bitmap(g)
                THEN [bits |-> Part(bs.inodes, (a - FS_GLOB_GB_OFFSET) \div GroupSize)]
                ELSE im[a]]

fs_bitmaps_write_all(im, bs) ==
  [a \in At |-> IF \E g \in Groups : a = bg_block_bitmap(g)
                THEN [bits |-> Part(bs.blocks, (a - FS_GLOB_GB_OFFSET) \div GroupSize)]
                ELSE IF \E g \in Groups : a = bg_inode_bitmap(g)
                THEN [bits |-> Part(bs.inodes, (a - FS_GLOB_GB_OFFSET) \div GroupSize)]
                ELSE im[a]]

Saves == call.op \in {"write", "rm"} /\ call'.op = "none"

DiskStep ==
  /\ bits' = Flipped
  /\ image' = IF Saves THEN fs_bitmaps_write_all(Written(image), bits') ELSE Written(image)

\* hdd_cache_sync is through with the last family that had writes: the idle
\* process calls it between the calls, and a miss of the cache in the midst of one.
SyncEnds ==
  /\ written_back' = TRUE
  /\ UNCHANGED diskVars

\* The disk as fs_init made it, with the first writes written back
DiskInit ==
  /\ Init
  /\ bits = [blocks |-> {}, inodes |-> {}]
  /\ image = fs_bitmaps_write_all(
       [a \in At |-> IF a \in InodePlaces THEN [inodes |-> NoInodes]
                     ELSE [data |-> Zeroes]], bits)
  /\ written_back = TRUE

DiskNext ==
  \/ Next /\ DiskStep /\ written_back' = (written_back /\ image' = image)
  \/ SyncEnds

DiskSpec == DiskInit /\ [][DiskNext]_<<diskVars, written_back>>

-----------------------------------------------------------------------------
\* Each inode and each block is read back, through the cache, as it was written last,
\* whatever was written around it, and each bit says of its block, or inode,
\* what was last said of that one.
DiskHolds ==
  /\ \A i \in Inodes : InodesAt(image, inode_get_block(i))[inode_get_block_index(i)] = ino[i]
  /\ \A k \in Blocks : image[data_get_block(k)] = [data |-> blk[k]]
  /\ \A k \in Blocks : k \in marks <=> BlockBit(k) \in bits.blocks
  /\ \A i \in Inodes : i \in taken <=> InodeBit(i) \in bits.inodes

\* fs_bitmaps_init: what a mount reads in the bitmaps
Mounted(at(_), bit(_), set) ==
  {x \in set : LET g == bit(x) \div BitmapSize IN
     "bits" \in DOMAIN image[at(g)] /\ bit(x) % BitmapSize \in image[at(g)].bits}
MountedMarks == Mounted(bg_block_bitmap, BlockBit, Blocks)
MountedTaken == Mounted(bg_inode_bitmap, InodeBit, Inodes)

\* A machine that stops when all is written back, and mounts the disk, finds no file
\* that was removed, and each file that the bitmap names with every block on the way
\* to its bytes marked, so that none is given away again: between two calls, and
\* between two steps of a call, which writes the bitmaps at its end, if a miss has
\* synced the cache there.  Between calls all that the inode leads to is marked, but
\* for what a read past the end took on the way to no byte.  Of a stop before, when
\* the disk may have a removed file, or an inode and not its bitmap, it says nothing.
MountFinds == written_back =>
  /\ MountedTaken \subseteq taken
  /\ \A i \in MountedTaken :
       /\ \A p \in 1..Size(i) : \A w \in Path((p - 1) \div Cells) :
            Ptr(ino[i], w) \in MountedMarks
       /\ call = Idle /\ ~past =>
            \A w \in Ways : Ptr(ino[i], w) # 0 => Ptr(ino[i], w) \in MountedMarks
=============================================================================
