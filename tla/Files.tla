------------------------------- MODULE Files -------------------------------
(***************************************************************************)
(* The file system calls of userprog/syscall.c, over the file system of    *)
(* module FileSys: descriptor tables, current directories, executables     *)
(* that must not be written, and a machine that may stop at any time.  A   *)
(* call runs under filesys_lock and is one step.  mkdir, chdir and readdir *)
(* do not take the lock: they are one step if nobody else comes meanwhile, *)
(* and otherwise s.end is "overlap".  Once s.end is not "no" the model     *)
(* says nothing more.                                                      *)
(***************************************************************************)
EXTENDS FileSys

CONSTANTS
  Proc,
  FdCnt,        \* places in a descriptor table (128)
  Program,      \* the path of a file put on the disk when it is formatted
  Path,         \* of files
  DirPath,      \* of directories
  Byte,         \* what programs write
  InitialSize,  \* sizes of created files
  WriteSize,    \* sizes of writes
  SeekTo,       \* positions sought
  NoFile

CONSTANTS       \* bounds
  MaxLength,    \* of a file
  MaxOpen,      \* openers of an inode
  MaxBoot,      \* times the machine starts again
  MaxCalls      \* calls in a behaviour

VARIABLES
  s,        \* the file system
  fd,       \* the descriptor tables
  curr_dir, \* the current directories; NoDir if the process does not run
  exe,      \* the inodes of the executables
  boot,     \* how often the machine started again
  calls,    \* how many calls were made
  want      \* what files ought to hold (only properties read this)

vars == <<s, fd, curr_dir, exe, boot, calls, want>>

AnyUnit == <<"any">>
Emptied == <<<<"emptied">>>>   \* nothing is said of the file any more

(* The inode of sec as the kernel sees it. *)
View(t, sec) == IF sec \in DOMAIN t.inodes THEN t.inodes[sec].data ELSE OnDisk(t.disk, sec)

(* The inodes that have a name, and those that are open. *)
Live(t) ==
  LET disk == [sec \in Sector |-> IF sec \in DOMAIN t.inodes
                                  THEN <<"inode", t.inodes[sec].data>> ELSE t.disk[sec]]
  IN Inodes(disk) \cup DOMAIN t.inodes

LiveFiles(t) == {i \in Live(t) : i # FREE_MAP_SECTOR /\ ~ View(t, i).isdir}

(* What want becomes when the file system becomes t and units are written  *)
(* to file i.                                                              *)
Kept(t) == IF t.end # "no" THEN want ELSE Restrict(want, LiveFiles(t) \cap DOMAIN want)

Created(t) ==
  IF t.end # "no" THEN want
  ELSE [i \in LiveFiles(t) |->
          IF i \in DOMAIN want THEN want[i] ELSE [k \in 1 .. View(t, i).length |-> Zero]]

(* A write of 0 bytes at the start empties the file (inode_write_at).      *)
Written(i, units, pos) ==
  [want EXCEPT ![i] =
     IF @ = Emptied \/ pos + Len(units) = 0 THEN Emptied
     ELSE [k \in 1 .. Max({Len(@), pos + Len(units)}) |->
             IF k - pos \in DOMAIN units THEN units[k - pos]
             ELSE IF k \in DOMAIN @ THEN @[k] ELSE AnyUnit]]

-----------------------------------------------------------------------------

NoFds == [i \in 1 .. FdCnt |-> NoFile]

(* A disk on which nothing of use is written. *)
Blank == [sec \in Sector |-> Data([i \in 1 .. SectorSize |-> <<"byte", 9>>])]

(* Creates the file, opens, fills and closes it. *)
FillFile(o, units) == inode_close(inode_write_at(o.s, o.inode, units, 0).s, o.inode)

fsutil_put(t, path, units) ==
  FillFile(filesys_open(filesys_create(t, ROOT_DIR_SECTOR, path, Len(units), FALSE).s,
                        ROOT_DIR_SECTOR, path), units)

Init ==
  /\ s = Returned(fsutil_put(filesys_init(Blank, TRUE), Program, <<<<"byte", 8>>>>))
  /\ fd = [p \in Proc |-> NoFds]
  /\ curr_dir = [p \in Proc |-> NoDir]
  /\ exe = [p \in Proc |-> NoDir]
  /\ boot = 0 /\ calls = 0
  /\ want = [i \in LiveFiles(s) |-> <<<<"byte", 8>>>>]

Running(p) == curr_dir[p] # NoDir

MayOpen(t) == \A sec \in DOMAIN t.inodes : t.inodes[sec].open_cnt <= MaxOpen

(* start_process and load: the executable is open and nobody may write it. *)
start_process(p, path) ==
  LET o == filesys_open(inode_open(s, ROOT_DIR_SECTOR), ROOT_DIR_SECTOR, path) IN
    /\ ~ Running(p) /\ o.inode # NoDir
    /\ s' = Returned(inode_deny_write(o.s, o.inode))
    /\ curr_dir' = [curr_dir EXCEPT ![p] = ROOT_DIR_SECTOR]
    /\ exe' = [exe EXCEPT ![p] = o.inode]
    /\ UNCHANGED <<fd, boot, want>>

create(p, path, size) ==
  /\ Running(p)
  /\ s' = Returned(filesys_create(s, curr_dir[p], path, size, FALSE).s)
  /\ want' = Created(s')
  /\ UNCHANGED <<fd, curr_dir, exe, boot>>

mkdir(p, path) ==
  /\ Running(p)
  /\ s' = Returned(filesys_create(s, curr_dir[p], path, DirEntries, TRUE).s)
  /\ UNCHANGED <<fd, curr_dir, exe, boot, want>>

remove(p, path) ==
  /\ Running(p)
  /\ s' = Returned(filesys_remove(s, curr_dir[p], path).s)
  /\ want' = Kept(s')
  /\ UNCHANGED <<fd, curr_dir, exe, boot>>

(* Bug: the descriptor and its directory share one reference. *)
PlaceFd_NoReopen(p, o) ==
  LET free == SelectInSeq(fd[p], LAMBDA f : f = NoFile)
      isdir == o.s.inodes[o.inode].data.isdir
  IN IF o.inode = NoDir \/ free = 0 THEN s' = Returned(o.s) /\ UNCHANGED fd
     ELSE /\ s' = Returned(o.s)
          /\ fd' = [fd EXCEPT ![p][free] = [inode |-> o.inode, pos |-> 0, isdir |-> isdir,
                                            dir_pos |-> 0]]

(* A descriptor for what filesys_open returned.  A directory is opened     *)
(* twice, as a file and as a directory.  When the table is full, the file  *)
(* stays open.                                                             *)
PlaceFd(p, o) ==
  LET free == SelectInSeq(fd[p], LAMBDA f : f = NoFile)
      isdir == o.s.inodes[o.inode].data.isdir
  IN IF o.inode = NoDir \/ free = 0 THEN s' = Returned(o.s) /\ UNCHANGED fd
     ELSE /\ s' = Returned(IF isdir THEN inode_open(o.s, o.inode) ELSE o.s)
          /\ fd' = [fd EXCEPT ![p][free] = [inode |-> o.inode, pos |-> 0, isdir |-> isdir,
                                            dir_pos |-> 0]]

open(p, path) ==
  /\ Running(p) /\ PlaceFd(p, filesys_open(s, curr_dir[p], path))
  /\ MayOpen(s')
  /\ UNCHANGED <<curr_dir, exe, boot, want>>

(* dir_close and file_close. *)
CloseFd(t, f) ==
  inode_close(IF f.isdir THEN inode_close(t, f.inode) ELSE t, f.inode)

close(p, i) ==
  /\ Running(p) /\ fd[p][i] # NoFile
  /\ s' = Returned(CloseFd(s, fd[p][i]))
  /\ fd' = [fd EXCEPT ![p][i] = NoFile]
  /\ want' = Kept(s')
  /\ UNCHANGED <<curr_dir, exe, boot>>

read(p, i, size) ==
  /\ Running(p) /\ fd[p][i] # NoFile
  /\ LET r == inode_read_at(s, fd[p][i].inode, size, fd[p][i].pos) IN
       fd' = [fd EXCEPT ![p][i].pos = @ + Len(r)]
  /\ UNCHANGED <<s, curr_dir, exe, boot, want>>

write(p, i, units) ==
  LET f == fd[p][i]
      r == inode_write_at(s, f.inode, units, f.pos)
  IN /\ Running(p) /\ f # NoFile /\ ~ f.isdir
     /\ f.pos + Len(units) <= MaxLength
     /\ s' = Returned(r.s)
     /\ fd' = [fd EXCEPT ![p][i].pos = @ + r.n]
     /\ want' = IF s.inodes[f.inode].deny > 0 \/ s'.end # "no" THEN want
                ELSE Written(f.inode, units, f.pos)
     /\ UNCHANGED <<curr_dir, exe, boot>>

seek(p, i, pos) ==
  /\ Running(p) /\ fd[p][i] # NoFile
  /\ fd' = [fd EXCEPT ![p][i].pos = pos]
  /\ UNCHANGED <<s, curr_dir, exe, boot, want>>

filesize(p, i) == s.inodes[fd[p][i].inode].data.length

(* The next entry in use that is neither "." nor "..". *)
readdir(p, i) ==
  LET f == fd[p][i]
      u == DirUnits(s, f.inode)
      k == SelectInSubSeq(u, f.dir_pos + 1, Len(u),
                          LAMBDA e : e[1] = "entry" /\ e[2] \notin {".", ".."})
  IN /\ Running(p) /\ f # NoFile /\ f.isdir
     /\ fd' = [fd EXCEPT ![p][i].dir_pos = IF k = 0 THEN Len(u) ELSE k]
     /\ UNCHANGED <<s, curr_dir, exe, boot, want>>

(* The old directory is not closed. *)
chdir(p, path) ==
  LET g == get_path_and_name(s, curr_dir[p],
             [path EXCEPT !.dirs = IF path.name = "" THEN @ ELSE Append(@, path.name)])
  IN /\ Running(p) /\ MayOpen(g.s)
     /\ s' = Returned(g.s)
     /\ curr_dir' = IF g.d = NoDir THEN curr_dir ELSE [curr_dir EXCEPT ![p] = g.d]
     /\ UNCHANGED <<fd, exe, boot, want>>

(* mkdir, chdir or readdir of p meets a call of q in the free map, in      *)
(* open_inodes or in a directory.                                          *)
overlap(p, q) ==
  /\ p # q /\ Running(p) /\ Running(q)
  /\ s' = [s EXCEPT !.end = "overlap"]
  /\ UNCHANGED <<fd, curr_dir, exe, boot, want>>

(* process_exit: the executable, every descriptor, the directory. *)
process_exit(p) ==
  LET t == inode_close(inode_allow_write(s, exe[p]), exe[p])
      u == FoldLeft(LAMBDA x, f : IF f = NoFile THEN x ELSE CloseFd(x, f), t, fd[p])
  IN /\ Running(p)
     /\ s' = Returned(inode_close(u, curr_dir[p]))
     /\ fd' = [fd EXCEPT ![p] = NoFds]
     /\ curr_dir' = [curr_dir EXCEPT ![p] = NoDir]
     /\ exe' = [exe EXCEPT ![p] = NoDir]
     /\ want' = Kept(s')
     /\ UNCHANGED boot

(* The machine stops and starts again: what was only in memory is gone.    *)
Restart ==
  /\ boot < MaxBoot
  /\ s' = Returned(filesys_init(s.disk, FALSE))
  /\ fd' = [p \in Proc |-> NoFds]
  /\ curr_dir' = [p \in Proc |-> NoDir]
  /\ exe' = [p \in Proc |-> NoDir]
  /\ boot' = boot + 1
  /\ want' = [i \in LiveFiles(s') \cap DOMAIN want |->
                IF want[i] = Emptied THEN Emptied ELSE SubSeq(want[i], 1, View(s', i).length)]

Call(p) ==
  \/ \E path \in Path :
       \/ start_process(p, path) \/ remove(p, path) \/ open(p, path)
       \/ \E n \in InitialSize : create(p, path, n)
  \/ \E path \in DirPath : mkdir(p, path) \/ remove(p, path) \/ open(p, path) \/ chdir(p, path)
  \/ \E i \in 1 .. FdCnt :
       \/ close(p, i) \/ readdir(p, i) \/ read(p, i, MaxLength)
       \/ \E n \in WriteSize, b \in Byte : write(p, i, [k \in 1 .. n |-> <<"byte", b>>])
       \/ \E pos \in SeekTo : seek(p, i, pos)
  \/ process_exit(p)
  \/ \E q \in Proc : overlap(p, q)

Next ==
  /\ s.end = "no"
  /\ calls < MaxCalls /\ calls' = calls + 1
  /\ (\E p \in Proc : Call(p)) \/ Restart

Spec == Init /\ [][Next]_vars

-----------------------------------------------------------------------------

(* Every sector an inode uses.                                             *)
Used(t, i) == <<i>> \o DataSectors(t.disk, View(t, i)) \o IndexSectors(t.disk, View(t, i))

(* None of the three things has happened after which inode.c and           *)
(* directory.c promise nothing: a file or directory that the disk had no   *)
(* room to extend, an open directory removed, and a call without the lock  *)
(* beside another.                                                         *)
Intact == s.end = "no"

(* As long as the file system is intact, nothing that a file or directory  *)
(* uses is free, and no sector belongs to two files or to one file twice:  *)
(* no sequence of calls of several processes, of creations that fail for   *)
(* lack of sectors, of removals of open files and of restarts makes        *)
(* free_map_allocate give away a sector in use (inode.c, free-map.c).  The *)
(* free map on the disk is the one in memory.                              *)
SectorsSound ==
  LET live == Live(s) IN Intact =>
    /\ Contents(s.disk, s.inodes[FREE_MAP_SECTOR].data)[1] = <<"map", s.free_map>>
    /\ \A i \in live : IsInjective(Used(s, i)) /\ ToSet(Used(s, i)) \subseteq s.free_map
    /\ \A i, j \in live : i # j => ToSet(Used(s, i)) \cap ToSet(Used(s, j)) = {}

(* How often processes and the kernel itself refer to an inode. *)
Refs(i) ==
  LET fds == {<<p, k>> \in Proc \X (1 .. FdCnt) : fd[p][k] # NoFile /\ fd[p][k].inode = i} IN
    Cardinality(fds) + Cardinality({x \in fds : fd[x[1]][x[2]].isdir})
      + Cardinality({p \in Proc : curr_dir[p] = i}) + Cardinality({p \in Proc : exe[p] = i})
      + (IF i = FREE_MAP_SECTOR THEN 1 ELSE 0)

(* "Marks INODE to be deleted when it is closed by the last caller who has *)
(* it open" (inode_remove): an inode that processes refer to is in memory, *)
(* with at least so many openers.  dir_remove of an open directory breaks  *)
(* this.                                                                   *)
OpenStaysOpen ==
  \A i \in Sector : Refs(i) > 0 => i \in DOMAIN s.inodes /\ s.inodes[i].open_cnt >= Refs(i)

(* As long as the file system is intact, inode_close does not free an      *)
(* inode someone still refers to, nobody may write an executable that      *)
(* runs, and no assertion of free_map_release, inode_deny_write or         *)
(* inode_allow_write fails.                                                *)
RefsCounted == Intact =>
  /\ ~ s.panic
  /\ OpenStaysOpen
  /\ \A i \in Sector : Refs(i) > 0 => s.inodes[i].deny = Cardinality({p \in Proc : exe[p] = i})

(* As long as the file system is intact, after each single disk write of   *)
(* each call, a machine that starts again finds only directory entries     *)
(* that lead to inodes, and nothing they use is free: the order in which   *)
(* calls write the map, the inode and the entry.                           *)
CrashSafe == Intact => ~ s.crash


(* "Tests that seeking past the end of a file and writing will properly    *)
(* zero out the region in between" (grow-sparse.c).                        *)
SkippedAreZero == Intact =>
  \A i \in {j \in DOMAIN want : want[j] # Emptied} :
    LET c == Contents(s.disk, View(s, i)) IN
      \A k \in DOMAIN c : want[i][k] = AnyUnit => c[k] = Zero

(* In use, but of no file or directory. *)
Leaked(t) == t.free_map \ UNION {ToSet(Used(t, i)) : i \in Live(t)}

(* As long as the file system is intact, when the last reference to a      *)
(* removed file goes, or a file without openers is removed, every sector   *)
(* of it becomes free.  (A directory's sectors do not: see dir_remove.)    *)
NothingLeft ==
  [][boot' = boot /\ Intact' /\ Cardinality(DOMAIN want') < Cardinality(DOMAIN want)
       => Leaked(s') = Leaked(s)]_vars

=============================================================================
