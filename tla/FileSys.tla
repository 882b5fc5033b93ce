------------------------------ MODULE FileSys ------------------------------
(***************************************************************************)
(* The file system of filesys/: free map, inodes with direct, indirect and *)
(* doubly indirect blocks, directories, paths.  Every function is an       *)
(* operator from the state s of the file system to a new one:              *)
(*                                                                         *)
(*   s.disk     what each sector holds: an inode, an index block or data   *)
(*   s.free_map the sectors marked in use in memory                        *)
(*   s.inodes   open_inodes: the inodes in memory, by their sector         *)
(*   s.panic    an assertion failed                                        *)
(*   s.writes   the disk as it was after each write of this call, and      *)
(*   s.crash    whether a crash after one of these, or of those of earlier *)
(*              calls, would leave a disk that cannot be mounted safely    *)
(*              (only properties read these two)                           *)
(*   s.end      "no", or why nothing more is said of this file system:     *)
(*              "full": a file or directory could not be extended, and its *)
(*              inode names sectors it does not have;  "robbed": a         *)
(*              directory that is open was removed, and one reference to   *)
(*              it is gone                                                 *)
(*                                                                         *)
(* A sector holds SectorSize units.  A unit is a byte, a directory entry   *)
(* or the whole free map, the tag first; an entry that is not in use is    *)
(* Zero.  A struct dir is the sector of its inode: dir->size is computed   *)
(* by dir_open each time it is read.                                       *)
(***************************************************************************)
EXTENDS Integers, SequencesExt

CONSTANTS
  SectorCnt,    \* of the disk
  Direct,       \* NUM_OF_DIRECT_BLOCK
  Indirect,     \* NUM_OF_INDIRECT_BLOCK
  SectorSize,   \* DISK_SECTOR_SIZE
  DirEntries    \* for how many entries a directory is created

ASSUME FileSysAssumption ==
  /\ SectorCnt \in Nat /\ Direct \in Nat \ {0} /\ Indirect \in Nat \ {0}
  /\ SectorSize \in Nat \ {0} /\ DirEntries \in Nat /\ DirEntries >= 2

FREE_MAP_SECTOR == 0
ROOT_DIR_SECTOR == 1
NoDir == -1

Sector == 0 .. SectorCnt - 1
Zero == <<"byte", 0>>
Entry(name, sector) == <<"entry", name, sector>>
Data(units) == <<"data", units>>

(* What is read from a sector that holds something else is of no use. *)
Units(c) == IF c[1] = "data" THEN c[2] ELSE [i \in 1 .. SectorSize |-> <<"byte", -1>>]
Index(c) == IF c[1] = "index" THEN c[2] ELSE [i \in 1 .. Indirect |-> FREE_MAP_SECTOR]

bytes_to_sectors(n) == (n + SectorSize - 1) \div SectorSize

(* The index blocks and the data blocks of an inode with so many sectors. *)
DbBlocks(n) ==
  IF n <= Direct + Indirect THEN 0
  ELSE (n - Direct - Indirect + Indirect - 1) \div Indirect

find_sector(disk, id, index) ==
  LET remain == index - Direct - Indirect IN
    CASE index < Direct -> id.direct[index + 1]
      [] index \in Direct .. Direct + Indirect - 1 ->
           Index(disk[id.indirect])[index - Direct + 1]
      [] OTHER ->
           LET blk == Index(disk[id.db_indirect])[(remain \div Indirect) + 1] IN
             Index(disk[blk])[(remain % Indirect) + 1]

DataSectors(disk, id) ==
  [i \in 1 .. bytes_to_sectors(id.length) |-> find_sector(disk, id, i - 1)]

IndexSectors(disk, id) ==
  LET n == bytes_to_sectors(id.length) IN
    (IF n > Direct THEN <<id.indirect>> ELSE <<>>)
      \o (IF n > Direct + Indirect THEN <<id.db_indirect>> ELSE <<>>)
      \o [j \in 1 .. DbBlocks(n) |-> Index(disk[id.db_indirect])[j]]

(* The units of a file, through byte_to_sector. *)
Contents(disk, id) ==
  [i \in 1 .. id.length |->
     Units(disk[find_sector(disk, id, (i - 1) \div SectorSize)])[((i - 1) % SectorSize) + 1]]

-----------------------------------------------------------------------------
(* What a machine that starts after a crash finds, from the root.          *)

OnDisk(disk, sec) == disk[sec][2]
IsInode(disk, sec) == disk[sec][1] = "inode"

EntriesOf(units) == {i \in DOMAIN units : units[i][1] = "entry"}

(* The files and directories a directory names, itself and parent aside. *)
NamedIn(disk, sec) ==
  LET u == Contents(disk, OnDisk(disk, sec)) IN
    {u[i][3] : i \in {j \in EntriesOf(u) : u[j][2] \notin {".", ".."}}}

RECURSIVE Reached(_, _)
Reached(disk, secs) ==
  LET dirs == {d \in secs : IsInode(disk, d) /\ OnDisk(disk, d).isdir}
      more == UNION {NamedIn(disk, d) : d \in dirs}
  IN IF more \subseteq secs THEN secs ELSE Reached(disk, secs \cup more)

Inodes(disk) == Reached(disk, {FREE_MAP_SECTOR, ROOT_DIR_SECTOR})

(* Every inode named is one, and nothing it uses is free. *)
MountsSafely(disk) ==
  /\ IsInode(disk, FREE_MAP_SECTOR) /\ IsInode(disk, ROOT_DIR_SECTOR)
  /\ LET map == Contents(disk, OnDisk(disk, FREE_MAP_SECTOR))[1] IN
       \A i \in Inodes(disk) :
         /\ IsInode(disk, i)
         /\ {i} \cup ToSet(DataSectors(disk, OnDisk(disk, i)))
                \cup ToSet(IndexSectors(disk, OnDisk(disk, i))) \subseteq map[2]

disk_write(s, sec, c) ==
  LET disk == [s.disk EXCEPT ![sec] = c] IN
    [s EXCEPT !.disk = disk, !.writes = @ \cup {disk}]

(* The state t that a call leaves. *)
Returned(t) ==
  [t EXCEPT !.writes = {}, !.crash = @ \/ \E disk \in t.writes : ~ MountsSafely(disk)]

-----------------------------------------------------------------------------
(* free-map.c.  The map is saved in its file after each change.            *)

bitmap_write(s) ==
  disk_write(s, find_sector(s.disk, s.inodes[FREE_MAP_SECTOR].data, 0),
             Data([i \in 1 .. SectorSize |-> IF i = 1 THEN <<"map", s.free_map>> ELSE Zero]))

(* The sector goes where old is. *)
free_map_allocate(s, old) ==
  LET free == Sector \ s.free_map
      t == [s EXCEPT !.free_map = @ \cup {Min(free)}]
  IN IF free = {} THEN [ok |-> FALSE, sector |-> old, s |-> s]
     ELSE [ok |-> TRUE, sector |-> Min(free),
           s |-> IF FREE_MAP_SECTOR \in DOMAIN s.inodes THEN bitmap_write(t) ELSE t]

(* Each sector of secs. *)
free_map_release(s, secs) ==
  bitmap_write([s EXCEPT !.free_map = @ \ secs,
                         !.panic = @ \/ ~ secs \subseteq s.free_map])

-----------------------------------------------------------------------------
(* inode.c: blocks.                                                        *)

AllocateIf(needed, s, old) ==
  IF needed THEN free_map_allocate(s, old) ELSE [ok |-> TRUE, sector |-> old, s |-> s]

(* The result r of an allocation for block i, in a loop over blocks that   *)
(* ends at the first failure.                                              *)
PutBlock(x, i, r) ==
  IF ~ x.ok THEN x
  ELSE [ok |-> r.ok, s |-> r.s, blocks |-> [x.blocks EXCEPT ![i] = r.sector]]

(* A loop over blocks, of which block i stands for sector base + i - 1 of  *)
(* the file: a sector for each that is below sectors and new.              *)
FillBlocks(s, blocks, base, sectors, original) ==
  LET new(i) == base + i - 1 < sectors /\ base + i - 1 >= original IN
    FoldLeft(LAMBDA x, i : PutBlock(x, i, AllocateIf(new(i), x.s, x.blocks[i])),
             [ok |-> TRUE, s |-> s, blocks |-> blocks], [i \in DOMAIN blocks |-> i])

(* Index block blk is written back if there was room for its blocks. *)
WriteBack(x, blk) ==
  [ok |-> x.ok, sector |-> blk,
   s |-> IF x.ok THEN disk_write(x.s, blk, <<"index", x.blocks>>) ELSE x.s]

(* The index block that a is the allocation of is read and filled. *)
FillIndex(a, base, sectors, original) ==
  IF ~ a.ok THEN a
  ELSE WriteBack(FillBlocks(a.s, Index(a.s.disk[a.sector]), base, sectors, original), a.sector)

FillDbIndex(a, sectors, original) ==
  LET base(j) == Direct + Indirect + (j - 1) * Indirect
      block(x, j) == PutBlock(x, j, FillIndex(AllocateIf(original <= base(j), x.s, x.blocks[j]),
                                              base(j), sectors, original))
  IN IF ~ a.ok THEN a
     ELSE WriteBack(FoldLeft(block, [ok |-> TRUE, s |-> a.s,
                                     blocks |-> Index(a.s.disk[a.sector])],
                             [j \in 1 .. DbBlocks(sectors) |-> j]), a.sector)

CreateIndirect(x, sectors, original) ==
  LET f == FillIndex(AllocateIf(original <= Direct, x.s, x.id.indirect),
                     Direct, sectors, original)
  IN IF ~ x.ok \/ sectors <= Direct THEN x
     ELSE [ok |-> f.ok, s |-> f.s, id |-> [x.id EXCEPT !.indirect = f.sector]]

CreateDbIndirect(x, sectors, original) ==
  LET f == FillDbIndex(AllocateIf(original <= Direct + Indirect, x.s, x.id.db_indirect),
                       sectors, original)
  IN IF ~ x.ok \/ sectors <= Direct + Indirect THEN x
     ELSE [ok |-> f.ok, s |-> f.s, id |-> [x.id EXCEPT !.db_indirect = f.sector]]

(* Brings an inode from original to sectors blocks. *)
create_inode_disk(s, id, sectors, original) ==
  LET d == FillBlocks(s, id.direct, 0, sectors, original)
      x == [ok |-> d.ok, s |-> d.s, id |-> [id EXCEPT !.direct = d.blocks]]
  IN CreateDbIndirect(CreateIndirect(x, sectors, original), sectors, original)

(* Bug: the block of the indirect block itself is not released. *)
release_inode_disk_KeepsIndirect(s, id) ==
  free_map_release(s, ToSet(DataSectors(s.disk, id)))

release_inode_disk(s, id) ==
  free_map_release(s, ToSet(DataSectors(s.disk, id)) \cup ToSet(IndexSectors(s.disk, id)))

(* The new inode x, if it has its blocks, and these cleared. *)
WriteInode(x, sec) ==
  LET zeros == Data([i \in 1 .. SectorSize |-> Zero]) IN
    IF ~ x.ok THEN [ok |-> FALSE, s |-> x.s]
    ELSE [ok |-> TRUE,
          s |-> FoldLeft(LAMBDA y, b : disk_write(y, b, zeros),
                         disk_write(x.s, sec, <<"inode", x.id>>),
                         DataSectors(x.s.disk, x.id))]

inode_create(s, sec, length, isdir) ==
  LET blank == [isdir |-> isdir, length |-> length, indirect |-> 0, db_indirect |-> 0,
                direct |-> [i \in 1 .. Direct |-> 0]]
  IN WriteInode(create_inode_disk(s, blank, bytes_to_sectors(length), 0), sec)

-----------------------------------------------------------------------------
(* inode.c: open inodes.                                                   *)

inode_open(s, sec) ==
  [s EXCEPT !.inodes =
     IF sec \in DOMAIN @ THEN [@ EXCEPT ![sec].open_cnt = @ + 1]
     ELSE (sec :> [open_cnt |-> 1, deny |-> 0, removed |-> FALSE,
                   data |-> OnDisk(s.disk, sec)]) @@ @]

(* Bug: the blocks go to the free map although the file is still open. *)
inode_close_Early(s, sec) ==
  LET i == s.inodes[sec]
      t == [s EXCEPT !.inodes[sec].open_cnt = @ - 1]
      u == [t EXCEPT !.inodes = Restrict(@, DOMAIN @ \ {sec})]
      w == disk_write(IF i.open_cnt = 1 THEN u ELSE t, sec, <<"inode", i.data>>)
  IN IF i.removed THEN release_inode_disk(free_map_release(w, {sec}), i.data) ELSE w

inode_close(s, sec) ==
  LET i == s.inodes[sec]
      t == disk_write([s EXCEPT !.inodes = Restrict(@, DOMAIN @ \ {sec})],
                      sec, <<"inode", i.data>>)
  IN IF i.open_cnt > 1 THEN [s EXCEPT !.inodes[sec].open_cnt = @ - 1]
     ELSE IF i.removed THEN release_inode_disk(free_map_release(t, {sec}), i.data)
     ELSE t

inode_remove(s, sec) == [s EXCEPT !.inodes[sec].removed = TRUE]

inode_read_at(s, sec, size, offset) ==
  LET c == Contents(s.disk, s.inodes[sec].data) IN
    SubSeq(c, offset + 1, Min({offset + size, Len(c)}))


(* The sectors from offset on, each read if it is written in part. *)
WriteUnits(s, id, units, offset) ==
  LET first == offset \div SectorSize
      last == (offset + Len(units) - 1) \div SectorSize
      write(t, k) ==
        LET sec == find_sector(t.disk, id, k)
            old == Units(t.disk[sec])
            at(j) == k * SectorSize + j - offset
        IN disk_write(t, sec, Data([j \in 1 .. SectorSize |->
                                      IF at(j) \in DOMAIN units THEN units[at(j)] ELSE old[j]]))
  IN FoldLeft(write, s, [k \in 1 .. last - first + 1 |-> first + k - 1])

(* The write, to a file whose inode is now x.id; if the file could not be  *)
(* extended, nothing is written, but its new length stays.                 *)
WriteTo(x, sec, units, offset) ==
  LET t == [x.s EXCEPT !.inodes[sec].data = x.id] IN
    IF ~ x.ok THEN [n |-> 0, s |-> [t EXCEPT !.end = "full"]]
    ELSE [n |-> Len(units), s |-> WriteUnits(t, x.id, units, offset)]

(* byte_to_sector of the last byte is -1 if the file ends before it, or if *)
(* there is no last byte: a write of 0 bytes at offset 0 sets the length   *)
(* to 0.                                                                   *)
inode_write_at(s, sec, units, offset) ==
  LET id == s.inodes[sec].data
      end == offset + Len(units)
  IN IF s.inodes[sec].deny > 0 THEN [n |-> 0, s |-> s]
     ELSE WriteTo(IF end - 1 < 0 \/ end - 1 >= id.length
                  THEN create_inode_disk(s, [id EXCEPT !.length = end],
                                         bytes_to_sectors(end), bytes_to_sectors(id.length))
                  ELSE [ok |-> TRUE, s |-> s, id |-> id],
                  sec, units, offset)

inode_deny_write(s, sec) ==
  [s EXCEPT !.inodes[sec].deny = @ + 1,
            !.panic = @ \/ s.inodes[sec].deny >= s.inodes[sec].open_cnt]

inode_allow_write(s, sec) ==
  [s EXCEPT !.inodes[sec].deny = @ - 1,
            !.panic = @ \/ s.inodes[sec].deny \notin 1 .. s.inodes[sec].open_cnt]

-----------------------------------------------------------------------------
(* directory.c.                                                            *)

DirUnits(s, d) == Contents(s.disk, s.inodes[d].data)

(* Where the entry is, or 0.  The bytes of a file are never an entry. *)
lookup(s, d, name) ==
  SelectInSeq(DirUnits(s, d), LAMBDA e : e[1] = "entry" /\ e[2] = name)

dir_add(s, d, name, sec) ==
  LET u == DirUnits(s, d)
      free == SelectInSeq(u, LAMBDA e : e[1] # "entry")
      r == inode_write_at(s, d, <<Entry(name, sec)>>, IF free = 0 THEN Len(u) ELSE free - 1)
  IN IF name = "" \/ lookup(s, d, name) # 0 THEN [ok |-> FALSE, s |-> s]
     ELSE [ok |-> r.n = 1, s |-> r.s]

(* Bug: the file goes before its entry does. *)
dir_remove_EntryLast(s, d, name) ==
  LET i == lookup(s, d, name)
      sec == DirUnits(s, d)[i][3]
      t == inode_close(inode_remove(inode_open(s, sec), sec), sec)
  IN IF i = 0 THEN [ok |-> FALSE, s |-> s]
     ELSE [ok |-> TRUE, s |-> inode_write_at(t, d, <<Zero>>, i - 1).s]

(* dir_remove closes the inode of a directory twice, with dir_close and at *)
(* its end.  If nobody else has it open, the first ends its life in memory *)
(* and what follows works on freed memory: it does nothing, and the blocks *)
(* stay in use.  If others do, the second takes a reference of theirs.     *)
CloseAgain(s, sec) == IF sec \in DOMAIN s.inodes THEN inode_close(s, sec) ELSE s

(* The end of dir_remove, when the entry of inode sec has been erased, or  *)
(* has not.                                                                *)
RemoveInode(r, sec) ==
  [ok |-> r.n = 1,
   s |-> CloseAgain(IF r.n = 1 /\ sec \in DOMAIN r.s.inodes THEN inode_remove(r.s, sec) ELSE r.s, sec)]

dir_remove(s, d, name) ==
  LET i == lookup(s, d, name)
      sec == DirUnits(s, d)[i][3]
      t == inode_open(s, sec)
      isdir == t.inodes[sec].data.isdir
      u == IF ~ isdir THEN t
           ELSE [inode_close(t, sec) EXCEPT !.end = IF sec \in DOMAIN s.inodes THEN "robbed" ELSE @]
  IN IF i = 0 THEN [ok |-> FALSE, s |-> s]
     ELSE IF isdir /\ Cardinality(EntriesOf(DirUnits(t, sec))) > 2
     THEN [ok |-> FALSE, s |-> CloseAgain(u, sec)]
     ELSE RemoveInode(inode_write_at(u, d, <<Zero>>, i - 1), sec)

dir_create(s, sec, parent) ==
  LET t == IF sec = ROOT_DIR_SECTOR THEN inode_create(s, sec, DirEntries, TRUE).s ELSE s
      u == inode_write_at(inode_open(t, sec), sec, <<Entry(".", sec), Entry("..", parent)>>, 0)
  IN inode_close(u.s, sec)

(* From directory d, which is open, along names; d is closed on the way.   *)
path_to_dir(s, d, names) ==
  FoldLeft(LAMBDA x, name :
             LET i == lookup(x.s, x.d, name)
                 sec == DirUnits(x.s, x.d)[i][3]
                 t == inode_close(x.s, x.d)
             IN IF x.d = NoDir THEN x
                ELSE IF x.s.inodes[x.d].removed \/ i = 0 THEN [d |-> NoDir, s |-> t]
                ELSE [d |-> sec, s |-> inode_open(t, sec)],
           [d |-> d, s |-> s], names)

(* A path is [abs, dirs, name]; the directory it leads to is left open.    *)
get_path_and_name(s, curr_dir, path) ==
  LET d == IF path.abs THEN ROOT_DIR_SECTOR ELSE curr_dir IN
    path_to_dir(inode_open(s, d), d, path.dirs)
-----------------------------------------------------------------------------
(* filesys.c.                                                              *)

(* A file gets a sector, an inode and an entry, in this order; each of     *)
(* these may fail, and then the sector is given back.  e is the result of  *)
(* the last, c of the second and a of the first.                           *)
WithEntry(e, sec, d, isdir) ==
  [ok |-> e.ok, s |-> IF ~ e.ok THEN free_map_release(e.s, {sec})
                      ELSE IF isdir THEN dir_create(e.s, sec, d)
                      ELSE e.s]

WithInode(c, sec, d, name, isdir) ==
  IF ~ c.ok THEN [ok |-> FALSE, s |-> free_map_release(c.s, {sec})]
  ELSE WithEntry(dir_add(c.s, d, name, sec), sec, d, isdir)

WithSector(a, d, name, size, isdir) ==
  IF ~ a.ok THEN [ok |-> FALSE, s |-> a.s]
  ELSE WithInode(inode_create(a.s, a.sector, size, isdir), a.sector, d, name, isdir)

(* In directory g.d, which get_path_and_name has opened. *)
CreateIn(g, name, size, isdir) ==
  IF g.d = NoDir THEN [ok |-> FALSE, s |-> g.s]
  ELSE IF g.s.inodes[g.d].removed THEN [ok |-> FALSE, s |-> inode_close(g.s, g.d)]
  ELSE [WithSector(free_map_allocate(g.s, 0), g.d, name, size, isdir)
          EXCEPT !.s = inode_close(@, g.d)]

filesys_create(s, curr_dir, path, size, isdir) ==
  CreateIn(get_path_and_name(s, curr_dir, path), path.name, size, isdir)

OpenIn(g, name) ==
  LET i == lookup(g.s, g.d, name)
      sec == DirUnits(g.s, g.d)[i][3]
  IN IF g.d = NoDir THEN [inode |-> NoDir, s |-> g.s]
     ELSE IF g.s.inodes[g.d].removed \/ i = 0
     THEN [inode |-> NoDir, s |-> inode_close(g.s, g.d)]
     ELSE [inode |-> sec, s |-> inode_close(inode_open(g.s, sec), g.d)]

(* The inode that is opened, or NoDir.  For "/", the directory that        *)
(* get_path_and_name opened is not closed.                                 *)
filesys_open(s, curr_dir, path) ==
  LET g == get_path_and_name(s, curr_dir, path) IN
    IF path = [abs |-> TRUE, dirs |-> <<>>, name |-> ""]
    THEN [inode |-> ROOT_DIR_SECTOR, s |-> inode_open(g.s, ROOT_DIR_SECTOR)]
    ELSE OpenIn(g, path.name)

RemoveIn(g, name) ==
  IF g.d = NoDir THEN [ok |-> FALSE, s |-> g.s]
  ELSE [dir_remove(g.s, g.d, name) EXCEPT !.s = CloseAgain(@, g.d)]

filesys_remove(s, curr_dir, path) ==
  RemoveIn(get_path_and_name(s, curr_dir, path), path.name)

free_map_open(s) ==
  LET t == inode_open(s, FREE_MAP_SECTOR) IN
    [t EXCEPT !.free_map = inode_read_at(t, FREE_MAP_SECTOR, 1, 0)[1][2]]

do_format(s) ==
  LET t == inode_open(inode_create(s, FREE_MAP_SECTOR, 1, FALSE).s, FREE_MAP_SECTOR)
      u == dir_create(bitmap_write(t), ROOT_DIR_SECTOR, ROOT_DIR_SECTOR)
  IN inode_close(u, FREE_MAP_SECTOR)

(* inode_init and free_map_init, and do_format if asked for; until that is *)
(* done there is no file system to be found.                               *)
filesys_init(disk, format) ==
  LET s == [disk |-> disk, inodes |-> <<>>, free_map |-> {FREE_MAP_SECTOR, ROOT_DIR_SECTOR},
            panic |-> FALSE, writes |-> {}, crash |-> FALSE, end |-> "no"]
  IN free_map_open(IF format THEN [do_format(s) EXCEPT !.writes = {}] ELSE s)

=============================================================================
