------------------------------ MODULE HddCache ------------------------------
(***************************************************************************)
(* The disk cache of kernel/fs/hdd.c: families of GroupSize lines, each    *)
(* filled by one read of the disk; the victim of a miss; the flushes; the  *)
(* sync of the idle process.  Callers are block_read and block_write of    *)
(* kernel/fs/fs.c, whose view of the disk is kept in last.                 *)
(*                                                                         *)
(* Callers run with interrupts off, so from its request until it is served *)
(* a call is alone.  A block number is <<block / GroupSize, block %        *)
(* GroupSize>>.  Nothing calls hdd_init: cache starts as the zeroes of the *)
(* bss, every line tagged with block 0, and the code for lines tagged -1   *)
(* (the first pass of least_reads_family_index, the test of                *)
(* hdd_cache_sync) never finds one.                                        *)
(***************************************************************************)
EXTENDS Integers, FiniteSets, FiniteSetsExt, Functions

CONSTANTS
  NFam,       \* HDD_READ_GROUP_COUNT
  GroupSize,  \* HDD_READ_GROUP_SIZE
  HistCount,  \* HDD_DISPOSE_HIST_COUNT
  FlushOver,  \* 8: an eviction writes back only more writes than these
  ReadsTop,   \* 100000: no victim has as many reads
  Width,      \* 65536: reads and writes are unsigned shorts
  NGroups,    \* groups on the disk
  Used,       \* bound: the blocks that are read and written
  Values, Zero,  \* contents of a block
  MaxPinned,  \* bound: families filled before the kernel is ready
  MaxCalls    \* bound: calls of block_read and block_write

Families == 0 .. NFam - 1
Offsets  == 0 .. GroupSize - 1
Groups   == 0 .. NGroups - 1
Blocks   == Groups \X Offsets
MasterBoot == <<0, 0>>     \* nothing calls fs_mbr_read, the one reader of it
SuperBlock == <<0, 1>>

ASSUME HddAssumption ==
  /\ NFam \in Nat /\ GroupSize \in Nat /\ GroupSize > 1 /\ NFam >= GroupSize
  /\ HistCount \in Nat /\ HistCount > 1
  /\ FlushOver \in Nat /\ ReadsTop \in Nat
  /\ NGroups \in Nat \ {0} /\ Used \subseteq Blocks \ {MasterBoot}
  /\ Zero \in Values
  /\ MaxPinned \in Nat /\ MaxPinned < NFam
  /\ MaxCalls \in Nat /\ Width \in Nat /\ MaxCalls < Width

VARIABLES
  block, reads, writes, data,  \* of line i of family f: block[f][i] ...
  untouchable,                 \* of the first line of a family
  dirty_cache,
  disposed_history, disposed_history_index,
  ready,   \* kernel_rd()
  disk,
  op,      \* the call in progress, and hdd.c's buffer
  last,    \* what block_write wrote last to each block
  calls    \* how many calls there were

lines == <<block, reads, writes, data, untouchable>>
hist  == <<disposed_history, disposed_history_index>>
vars  == <<lines, dirty_cache, hist, ready, disk, op, last, calls>>

Blank(v) == [i \in Offsets |-> v]
NoCall   == [at |-> "none", kind |-> "read", block |-> SuperBlock,
             value |-> Zero, buffer |-> Blank(Zero)]

Init ==
  /\ block  = [f \in Families |-> Blank(MasterBoot)]
  /\ reads  = [f \in Families |-> Blank(0)]
  /\ writes = [f \in Families |-> Blank(0)]
  /\ data   = [f \in Families |-> Blank(Zero)]
  /\ untouchable = [f \in Families |-> FALSE]
  /\ dirty_cache = TRUE
  /\ disposed_history = [k \in 0 .. HistCount - 1 |-> MasterBoot]
  /\ disposed_history_index = 0
  /\ ready = FALSE
  /\ disk = [b \in Blocks |-> Zero] /\ last = disk
  /\ op = NoCall /\ calls = 0

-----------------------------------------------------------------------------
(* Lookup *)

Hits(b) == {l \in Families \X Offsets : block[l[1]][l[2]] = b}
Before(l, k) == l[1] < k[1] \/ (l[1] = k[1] /\ l[2] <= k[2])
\* the line the loops of hdd_get_block and hdd_write_block stop at
Line(b) == CHOOSE l \in Hits(b) : \A k \in Hits(b) : Before(l, k)

(* Flushes *)

NReads(f)  == MapThenSumSet(LAMBDA i : reads[f][i], Offsets)
NWrites(f) == MapThenSumSet(LAMBDA i : writes[f][i], Offsets)
Dirty(f)   == \E i \in Offsets : writes[f][i] > 0

\* hdd_flush_family, unforced, writes the family; forced, if it is dirty
WritesBack(f) == Dirty(f) /\ NWrites(f) > FlushOver

\* It forgets the writes of a family in any case ...
Forgotten(F) == [f \in Families |-> IF f \in F THEN Blank(0) ELSE writes[f]]

\* ... and, when it writes, writes all lines, from the block of the first on.
Holders(F, g) == {f \in F : block[f][0][1] = g}
DiskWith(F) ==
  [b \in Blocks |->
     LET H == Holders(F, b[1]) IN
     IF H = {} THEN disk[b]
     ELSE data[CHOOSE f \in H : \A h \in H : h <= f][b[2]]]

\* The loop of hdd_cache_sync goes over READ_GROUP_SIZE families, not over
\* READ_GROUP_COUNT.
Synced == 0 .. GroupSize - 1
DirtySynced == {f \in Synced : Dirty(f)}

\* hdd_cache_sync(TRUE)
FullSync ==
  IF ~dirty_cache THEN UNCHANGED <<writes, disk, dirty_cache>>
  ELSE /\ writes' = Forgotten(Synced)
       /\ disk' = DiskWith(DirtySynced)
       /\ dirty_cache' = FALSE

\* altered: nothing is left for another time
PartialSyncClears ==
  IF dirty_cache /\ DirtySynced # {}
  THEN \E f \in DirtySynced :
         /\ \A g \in DirtySynced : f <= g
         /\ writes' = Forgotten({f})
         /\ disk' = DiskWith({f})
         /\ dirty_cache' = FALSE
  ELSE FullSync

\* hdd_cache_sync(FALSE): the first dirty family, the rest some other time.
PartialSync ==
  IF dirty_cache /\ DirtySynced # {}
  THEN \E f \in DirtySynced :
         /\ \A g \in DirtySynced : f <= g
         /\ writes' = Forgotten({f})
         /\ disk' = DiskWith({f})
         /\ UNCHANGED dirty_cache
  ELSE FullSync

-----------------------------------------------------------------------------
(* The victim of a miss *)

Touchable == {f \in Families : ~untouchable[f]}
Disposed(f) == ready /\ block[f][0] \in Range(disposed_history)
Fresh == {f \in Touchable : ~Disposed(f)}
\* altered: a family with writes is as good as another
CleanOrNot == Fresh
Clean == {f \in Fresh : ~Dirty(f)}

\* the first of F with the least reads
LeastRead(F) ==
  {f \in F : /\ NReads(f) < ReadsTop
             /\ \A g \in F : \/ NReads(f) < NReads(g)
                             \/ NReads(f) = NReads(g) /\ f <= g}

\* Before and after the sync of least_reads_family_index.
FirstChoice  == LeastRead(Clean)
SecondChoice == IF LeastRead(Fresh) # {} THEN LeastRead(Fresh)
                ELSE LeastRead(Touchable)

\* hdd_dispose; the index never reaches the last entry.
Dispose(b) ==
  IF ready /\ disposed_history[disposed_history_index] # b
  THEN /\ disposed_history' = [disposed_history EXCEPT ![disposed_history_index] = b]
       /\ disposed_history_index' = IF disposed_history_index + 1 = HistCount - 1
                                    THEN 0 ELSE disposed_history_index + 1
  ELSE UNCHANGED hist

-----------------------------------------------------------------------------
(* A call of hdd_read or hdd_write *)

Pinned == {f \in Families : untouchable[f]}

\* fs_init reads the super block before any other.
Request(kind, b, v) ==
  /\ op.at = "none" /\ calls < MaxCalls
  /\ calls = 0 => kind = "read" /\ b = SuperBlock
  /\ ~ready /\ Hits(b) = {} => Cardinality(Pinned) < MaxPinned
  /\ op' = [at |-> "find", kind |-> kind, block |-> b, value |-> v,
            buffer |-> Blank(Zero)]
  /\ calls' = calls + 1
  /\ UNCHANGED <<lines, dirty_cache, hist, ready, disk, last>>

\* hdd_get_block finds no line: it reads the group of the block.
Miss ==
  /\ op.at = "find" /\ Hits(op.block) = {}
  /\ op' = [op EXCEPT !.at = "miss",
                      !.buffer = [i \in Offsets |-> disk[<<op.block[1], i>>]]]
  /\ UNCHANGED <<lines, dirty_cache, hist, ready, disk, last, calls>>

\* No clean family to take: least_reads_family_index syncs the cache.
SyncForVictim ==
  /\ op.at = "miss" /\ FirstChoice = {}
  /\ op' = [op EXCEPT !.at = "synced"]
  /\ FullSync
  /\ UNCHANGED <<block, reads, data, untouchable, hist, ready, last, calls>>

\* hdd_cache_add: flush family f, unforced, and fill it from the buffer.
Load(f) ==
  /\ \/ op.at = "miss"   /\ f \in FirstChoice
     \/ op.at = "synced" /\ f \in SecondChoice
  /\ Dispose(block[f][0])
  /\ disk' = DiskWith({g \in {f} : WritesBack(g)})
  /\ block' = [block EXCEPT ![f] = [i \in Offsets |-> <<op.block[1], i>>]]
  /\ data' = [data EXCEPT ![f] = op.buffer]
  /\ reads' = [reads EXCEPT ![f] = Blank(0)]
  /\ writes' = [writes EXCEPT ![f] = Blank(0)]
  /\ untouchable' = [untouchable EXCEPT ![f] = ~ready]
  /\ op' = [op EXCEPT !.at = "find", !.buffer = Blank(Zero)]
  /\ UNCHANGED <<dirty_cache, ready, last, calls>>

\* hdd_get_block counts the read of a hit, of hdd_write_block too.
Counted(l) == [reads EXCEPT ![l[1]][l[2]] = (@ + 1) % Width]

ReadHit ==
  /\ op.at = "find" /\ op.kind = "read" /\ Hits(op.block) # {}
  /\ reads' = Counted(Line(op.block))
  /\ op' = NoCall
  /\ UNCHANGED <<block, writes, data, untouchable, dirty_cache, hist, ready,
                 disk, last, calls>>

\* altered: the flag of the sync is not set
WriteHitQuiet ==
  /\ op.at = "find" /\ op.kind = "write" /\ Hits(op.block) # {}
  /\ LET f == Line(op.block)[1]
         i == Line(op.block)[2]
         n == IF data[f][i] = op.value THEN writes[f][i]
              ELSE (writes[f][i] + 1) % Width
     IN  /\ data' = [data EXCEPT ![f][i] = op.value]
         /\ writes' = [writes EXCEPT ![f][i] = n]
         /\ UNCHANGED dirty_cache
  /\ reads' = Counted(Line(op.block))
  /\ last' = [last EXCEPT ![op.block] = op.value]
  /\ op' = NoCall
  /\ UNCHANGED <<block, untouchable, hist, ready, disk, calls>>

WriteHit ==
  /\ op.at = "find" /\ op.kind = "write" /\ Hits(op.block) # {}
  /\ LET f == Line(op.block)[1]
         i == Line(op.block)[2]
         n == IF data[f][i] = op.value THEN writes[f][i]
              ELSE (writes[f][i] + 1) % Width
     IN  /\ data' = [data EXCEPT ![f][i] = op.value]
         /\ writes' = [writes EXCEPT ![f][i] = n]
         /\ dirty_cache' = (dirty_cache \/ n > 0)
  /\ reads' = Counted(Line(op.block))
  /\ last' = [last EXCEPT ![op.block] = op.value]
  /\ op' = NoCall
  /\ UNCHANGED <<block, untouchable, hist, ready, disk, calls>>

-----------------------------------------------------------------------------
\* idle_main has mounted the file system and read the users.
SetReady ==
  /\ op.at = "none" /\ ~ready /\ calls > 0
  /\ ready' = TRUE
  /\ UNCHANGED <<lines, dirty_cache, hist, disk, op, last, calls>>

\* idle_main calls hdd_cache_sync without its argument: it finds any value.
IdleSync ==
  /\ op.at = "none" /\ ready
  /\ FullSync \/ PartialSync
  /\ UNCHANGED <<block, reads, data, untouchable, hist, ready, op, last, calls>>

\* What the caller's code goes on with.
Serve == \/ Miss \/ SyncForVictim \/ ReadHit \/ WriteHit
         \/ \E f \in Families : Load(f)

Next ==
  \/ \E b \in Used : Request("read", b, Zero)
  \/ \E b \in Used, v \in Values : Request("write", b, v)
  \/ Serve \/ SetReady \/ IdleSync

Spec == Init /\ [][Next]_vars

\* A call runs to its end with interrupts off, and so does the start of
\* idle_main.  The calls of a behaviour are few (MaxCalls): between and after
\* them the machine is idle for 3000 interrupts, over and over.
FairSpec == Spec /\ WF_vars(Serve) /\ WF_vars(SetReady) /\ WF_vars(IdleSync)

-----------------------------------------------------------------------------
\* The types of the variables.
TypeOK ==
  /\ block  \in [Families -> [Offsets -> Blocks]]
  /\ reads  \in [Families -> [Offsets -> 0 .. Width - 1]]
  /\ writes \in [Families -> [Offsets -> 0 .. Width - 1]]
  /\ data   \in [Families -> [Offsets -> Values]]
  /\ untouchable \in [Families -> BOOLEAN]
  /\ dirty_cache \in BOOLEAN /\ ready \in BOOLEAN
  /\ disposed_history \in [0 .. HistCount - 1 -> Blocks]
  /\ disposed_history_index \in 0 .. HistCount - 2
  /\ disk \in [Blocks -> Values] /\ last \in [Blocks -> Values]
  /\ op \in [at : {"none", "find", "miss", "synced"}, kind : {"read", "write"},
             block : Blocks, value : Values, buffer : [Offsets -> Values]]
  /\ calls \in 0 .. MaxCalls

(* No block has two lines (but the master boot record, the tag of what was *)
(* never filled), so that a read cannot find an older copy than a write.   *)
OneLinePerBlock ==
  \A b \in Blocks \ {MasterBoot} : \A l, k \in Hits(b) : l = k

(* When hdd_cache_sync returns at once, because dirty_cache is 0, all the  *)
(* families it looks after are as on the disk.                             *)
NotDirtyIsOnDisk ==
  ~dirty_cache =>
    \A f \in Synced, i \in Offsets :
      block[f][i] # MasterBoot => disk[block[f][i]] = data[f][i]

\* What a read of b would return now.
Seen(b) == IF Hits(b) = {} THEN disk[b]
           ELSE data[Line(b)[1]][Line(b)[2]]

\* The steps that lose the last write of a block, and how they may.
Evicted(f) == op.at = "synced" /\ block'[f] # block[f]
LosesByEviction ==
  \A b \in Used :
    Seen(b) = last[b] /\ Seen(b)' # last'[b] =>
      \E f \in Families \ Synced :
        Evicted(f) /\ Dirty(f) /\ ~WritesBack(f)

(* The one step that makes the last write of a block unreadable is the     *)
(* eviction, after a sync, of a family that hdd_cache_sync does not look   *)
(* after and that has too few writes for hdd_flush_family to write it.     *)
LostOnlyByEviction == [][LosesByEviction]_vars

(* Whatever argument hdd_cache_sync finds, a family it looks after is      *)
(* written to the disk, or was evicted, some day after a write to it.      *)
WritesReachDisk ==
  \A f \in Synced : Dirty(f) ~> ~Dirty(f)
=============================================================================
