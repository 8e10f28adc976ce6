---------------------------------- MODULE FatFs ----------------------------------
(***************************************************************************)
(* ThirdParty/FatFS/ff.c on a card: the sector window, the FAT, cluster    *)
(* chains, directories, and the API functions logger_task and sd_task call, *)
(* in the configuration of ffconf.h (8.3 names, FAT16 and FAT32, no lock). *)
(*                                                                         *)
(* The library runs in one task, so a call is an operator: from the volume *)
(* before it to the set of its results, one for each way in which the card *)
(* can answer.  A result has the volume after the call, the FRESULT and a  *)
(* value.  At each sector written the card may refuse, the sector old or   *)
(* new (module BlockDevice), or the power may go ("cut"), which ends the   *)
(* call there.                                                             *)
(***************************************************************************)
EXTENDS Integers, Sequences

CONSTANTS SS,            \* cells in a sector; a cell is a group of bytes
          csize,         \* sectors in a cluster
          Clusters,      \* clusters of the volume
          FatEntries,    \* FAT entries in a sector
          DirEntries,    \* directory entries in a sector
          PutUnit,       \* cells that f_puts collects before it calls f_write
          MaxDword,      \* 0xFFFFFFFF: a count or hint that is not known
          MaxFaults,     \* bound: disk calls that fail
          MaxResets      \* bound: losses of power

ASSUME FatFsAssumption ==
  /\ {SS, csize, Clusters, FatEntries, DirEntries, PutUnit} \subseteq Nat \ {0}
  /\ PutUnit < SS                  \* 60 bytes in a sector of 512
  /\ MaxDword \in Nat /\ MaxDword > Clusters + 2
  /\ {MaxFaults, MaxResets} \subseteq Nat

\* The volume is a record: disk, the sectors of the card; fs, the FATFS object; fp, the
\* FIL object; faults and resets so far.
Return(v, val) == {[v |-> v, res |-> "FR_OK", val |-> val]}
Fails(v, res) == {[v |-> v, res |-> res]}

\* The usual "if (res != FR_OK) return res".
Then(S, F(_, _)) == UNION {IF r.res = "FR_OK" THEN F(r.v, r.val) ELSE {r} : r \in S}

\* A call whose result is not looked at.
Regardless(S, F(_)) == UNION {IF r.res = "cut" THEN {r} ELSE F(r.v) : r \in S}

\* What is done about a failure before it is passed on.
OnFailure(S, F(_)) ==
  UNION {IF r.res \in {"FR_OK", "cut"} THEN {r}
         ELSE Regardless(F(r.v), LAMBDA u : Fails(u, r.res)) : r \in S}

\* A loop of the code: Body takes the volume and the loop's variable to results, those
\* that go round again with the variable's next value.  A loop that has not ended after
\* max rounds follows a chain that closes on itself: it has no result.
Again(v, x) == {[v |-> v, res |-> "again", val |-> x]}

Loop(v, x, Body(_, _), max) ==
  LET round[n \in 0 .. max] ==
        IF n = 0 THEN Again(v, x)
        ELSE UNION {IF r.res = "again" THEN Body(r.v, r.val) ELSE {r} : r \in round[n - 1]}
  IN  {r \in round[max] : r.res # "again"}

--------------------------------------------------------------------------------
\* Layout of the volume: boot sector, FSInfo, one or two FATs, on FAT16 the root
\* directory, the clusters.
n_fatent == Clusters + 2
EOC == MaxDword
IsCluster(c) == c >= 2 /\ c < n_fatent
fsize == (n_fatent + FatEntries - 1) \div FatEntries
fatbase(fs) == fs.volbase + 2
RootSectors(fs) == IF fs.fs_type = "FAT16" THEN 1 ELSE 0
dirbase(fs) == IF fs.fs_type = "FAT16" THEN fatbase(fs) + fs.n_fats * fsize ELSE 2
database(fs) == fatbase(fs) + fs.n_fats * fsize + RootSectors(fs)
clst2sect(fs, c) == IF IsCluster(c) THEN database(fs) + csize * (c - 2) ELSE 0

Cells == 0 .. SS - 1
NoSector == -1
NoData == [kind |-> "none"]
ZeroCells == [i \in Cells |-> 0]
FreeEntry == [name |-> "end", clst |-> 0, size |-> 0, dir |-> FALSE]
ZeroDir == [kind |-> "dir", table |-> [i \in 0 .. DirEntries - 1 |-> FreeEntry]]

\* What never was a directory reads as entries of no use.
AsDir(sector) ==
  IF sector.kind = "dir" THEN sector.table
  ELSE [i \in 0 .. DirEntries - 1 |-> [FreeEntry EXCEPT !.name = "junk"]]

Unmounted == [fs_type |-> "none", volbase |-> 0, n_fats |-> 1, winsect |-> NoSector,
              win |-> NoData, wflag |-> FALSE, free_clst |-> MaxDword,
              last_clst |-> MaxDword, fsi_flag |-> "disabled"]
Closed == [open |-> FALSE, sclust |-> 0, clust |-> 0, fptr |-> 0, objsize |-> 0,
           sect |-> 0, buf |-> ZeroCells, dirty |-> FALSE, modified |-> FALSE,
           err |-> "FR_OK", dir_sect |-> 0, dir_ptr |-> 0]

--------------------------------------------------------------------------------
\* diskio.c, as module BlockDevice specifies it.  With the power everything in RAM goes.
Faulty(v) == IF v.faults < MaxFaults THEN {[v EXCEPT !.faults = @ + 1]} ELSE {}
PowerOff(v) == [v EXCEPT !.fs = Unmounted, !.fp = Closed, !.resets = @ + 1]
Cuts(v) == IF v.resets < MaxResets THEN {PowerOff(v)} ELSE {}

disk_read(v, sect) ==
  Return(v, v.disk[sect]) \cup UNION {Fails(u, "FR_DISK_ERR") : u \in Faulty(v)}

disk_write(v, sect, data) ==
  LET new == [v EXCEPT !.disk[sect] = data]
  IN  Return(new, 0)
      \cup (UNION {Fails(u, "FR_DISK_ERR") : u \in Faulty(v) \cup Faulty(new)})
      \cup (UNION {Fails(u, "cut") : u \in Cuts(v) \cup Cuts(new)})

disk_initialize(v) ==
  Return(v, 0) \cup UNION {Fails(u, "FR_NOT_READY") : u \in Faulty(v)}

--------------------------------------------------------------------------------
\* The sector window.
InFirstFat(fs, sect) == sect - fatbase(fs) \in 0 .. fsize - 1

\* The result of writing the second FAT is ignored.
sync_window(v) ==
  IF ~v.fs.wflag THEN Return(v, 0)
  ELSE Then(disk_write(v, v.fs.winsect, v.fs.win), LAMBDA u, x :
         LET clean == [u EXCEPT !.fs.wflag = FALSE]
         IN  IF InFirstFat(v.fs, v.fs.winsect) /\ v.fs.n_fats = 2
             THEN Regardless(disk_write(clean, v.fs.winsect + fsize, v.fs.win),
                             LAMBDA w : Return(w, 0))
             ELSE Return(clean, 0))

Window(v, sect, data) == [v EXCEPT !.fs.winsect = sect, !.fs.win = data]

move_window(v, sect) ==
  IF sect = v.fs.winsect THEN Return(v, 0)
  ELSE Then(sync_window(v), LAMBDA u, x :
         UNION {IF r.res = "FR_OK" THEN Return(Window(r.v, sect, r.val), 0)
                ELSE Fails(Window(r.v, NoSector, NoData), r.res)
                : r \in disk_read(u, sect)})

\* The allocation information goes to the FSInfo sector by way of the window; whether
\* that write succeeds is not asked.
sync_fs(v) ==
  Then(sync_window(v), LAMBDA u, x :
    IF u.fs.fsi_flag # "changed" THEN Return(u, 0)
    ELSE LET info == [kind |-> "fsinfo", free |-> u.fs.free_clst, last |-> u.fs.last_clst]
             w == Window([u EXCEPT !.fs.fsi_flag = "clean"], u.fs.volbase + 1, info)
         IN  Regardless(disk_write(w, w.fs.winsect, info), LAMBDA y : Return(y, 0)))

--------------------------------------------------------------------------------
\* The FAT.
get_fat(v, c) ==
  IF ~IsCluster(c) THEN Fails(v, "FR_INT_ERR")
  ELSE Then(move_window(v, fatbase(v.fs) + c \div FatEntries), LAMBDA u, x :
         Return(u, u.fs.win.fat[c % FatEntries]))

put_fat(v, c, val) ==
  IF ~IsCluster(c) THEN Fails(v, "FR_INT_ERR")
  ELSE Then(move_window(v, fatbase(v.fs) + c \div FatEntries), LAMBDA u, x :
         Return([u EXCEPT !.fs.win.fat[c % FatEntries] = val, !.fs.wflag = TRUE], 0))

Changed(fs) == IF fs.fsi_flag = "disabled" THEN "disabled" ELSE "changed"

GiveBack(v) ==
  IF v.fs.free_clst < n_fatent - 2
  THEN [v EXCEPT !.fs.free_clst = @ + 1, !.fs.fsi_flag = Changed(v.fs)] ELSE v

\* A whole chain is given back.
RemoveOne(v, c) ==
  Then(get_fat(v, c), LAMBDA u, nxt :
    IF nxt = 0 THEN Return(u, 0)
    ELSE Then(put_fat(u, c, 0), LAMBDA w, x :
           IF nxt < n_fatent THEN Again(GiveBack(w), nxt) ELSE Return(GiveBack(w), 0)))

remove_chain(v, c) == Loop(v, c, RemoveOne, n_fatent)

FreeBehindNoWrap(v, ncl, scl) ==   \* mutant: the search ends at the end of the FAT
  IF ncl + 1 >= n_fatent THEN Return(v, 0)
  ELSE Then(get_fat(v, ncl + 1), LAMBDA u, cs :
         IF cs = 0 THEN Return(u, ncl + 1) ELSE Return(u, 0))

\* The search for a free cluster behind scl and round to it; 0 if there is none.
FreeBehind(v, ncl, scl) ==
  LET wraps == ncl + 1 >= n_fatent
      next == IF wraps THEN 2 ELSE ncl + 1
  IN  IF wraps /\ next > scl THEN Return(v, 0)
      ELSE Then(get_fat(v, next), LAMBDA u, cs :
             IF cs = 0 THEN Return(u, next)
             ELSE IF next = scl THEN Return(u, 0)
             ELSE Again(u, next))

FreeFrom(v, scl) ==
  Loop(v, scl, LAMBDA u, ncl : FreeBehind(u, ncl, scl), n_fatent)

Taken(v, ncl) ==
  LET hinted == [v EXCEPT !.fs.last_clst = ncl]
  IN  IF v.fs.free_clst \in 1 .. n_fatent - 2
      THEN [hinted EXCEPT !.fs.free_clst = @ - 1, !.fs.fsi_flag = Changed(v.fs)]
      ELSE hinted

\* The new cluster ends the chain before the last one is linked to it.
TakeLinkFirst(v, c, ncl) ==   \* mutant: the other way round
  IF ncl = 0 THEN Return(v, 0)
  ELSE Then(IF c = 0 THEN Return(v, 0) ELSE put_fat(v, c, ncl), LAMBDA u, x :
         Then(put_fat(u, ncl, EOC), LAMBDA w, y : Return(Taken(w, ncl), ncl)))

Take(v, c, ncl) ==
  IF ncl = 0 THEN Return(v, 0)
  ELSE Then(put_fat(v, ncl, EOC), LAMBDA u, x :
         Then(IF c = 0 THEN Return(u, 0) ELSE put_fat(u, c, ncl),
              LAMBDA w, y : Return(Taken(w, ncl), ncl)))

\* A new chain (c = 0): the search starts at the hint.
NewChain(v) ==
  LET hint == v.fs.last_clst
      scl == IF hint = 0 \/ hint >= n_fatent THEN 1 ELSE hint
  IN  IF v.fs.free_clst = 0 THEN Return(v, 0)
      ELSE Then(FreeFrom(v, scl), LAMBDA u, ncl : Take(u, 0, ncl))

\* A chain that ends in c gets longer: by its neighbour, or by what the search finds.
Stretch(v, c) ==
  LET neighbour == IF c + 1 >= n_fatent THEN 2 ELSE c + 1
      hint == v.fs.last_clst
      scl == IF IsCluster(hint) THEN hint ELSE c
  IN  IF v.fs.free_clst = 0 THEN Return(v, 0)
      ELSE Then(get_fat(v, neighbour), LAMBDA u, cs :
             IF cs = 0 THEN Take(u, c, neighbour)
             ELSE Then(FreeFrom(u, scl), LAMBDA w, ncl : Take(w, c, ncl)))

create_chain_counts_next(v, c) ==   \* mutant: one found there counts as a new one
  IF c = 0 THEN NewChain(v)
  ELSE Then(get_fat(v, c), LAMBDA u, cs :
         IF cs < 2 THEN Fails(u, "FR_INT_ERR")
         ELSE IF cs < n_fatent THEN Return(Taken(u, cs), cs)
         ELSE Stretch(u, c))

create_chain_over(v, c) ==   \* mutant: the clusters behind the end are not looked for
  IF c = 0 THEN NewChain(v) ELSE Stretch(v, c)

create_chain(v, c) ==
  IF c = 0 THEN NewChain(v)
  ELSE Then(get_fat(v, c), LAMBDA u, cs :
         IF cs < 2 THEN Fails(u, "FR_INT_ERR")
         ELSE IF cs < n_fatent THEN Return(u, cs) \* there is a next cluster already
         ELSE Stretch(u, c))

--------------------------------------------------------------------------------
\* Directories.  A DIR object is a record: sclust, where the directory starts (0: the
\* root), the entry dptr it is at, and the cluster and sector of that entry.
IsFat32(fs) == fs.fs_type = "FAT32"
EntryAt(v, dp) == AsDir(v.fs.win)[dp.dptr % DirEntries]
PutEntry(v, dp, e) ==
  [v EXCEPT !.fs.win = [kind |-> "dir",
                        table |-> [AsDir(@) EXCEPT ![dp.dptr % DirEntries] = e]],
            !.fs.wflag = TRUE]

ZeroOne(v, n) ==
  Then(disk_write(v, v.fs.winsect + n, ZeroDir), LAMBDA u, x :
    IF n + 1 < csize THEN Again(u, n + 1) ELSE Return(u, 0))

\* A cluster becomes an empty directory table.
dir_clear(v, c) ==
  Then(sync_window(v), LAMBDA u, x :
    Loop(Window(u, clst2sect(u.fs, c), ZeroDir), 0, ZeroOne, csize))

\* Back to the first entry.
dir_sdi(v, sclust) ==
  LET clst == IF sclust = 0 /\ IsFat32(v.fs) THEN dirbase(v.fs) ELSE sclust
      sect == IF clst = 0 THEN dirbase(v.fs) ELSE clst2sect(v.fs, clst)
  IN  IF sect = 0 THEN Fails(v, "FR_INT_ERR")
      ELSE Return(v, [sclust |-> sclust, dptr |-> 0, clust |-> clst, sect |-> sect])

\* On to the next entry, in a new cluster if the table may be stretched.
StretchTable(v, dp) ==
  Then(create_chain(v, dp.clust), LAMBDA u, c :
    IF c = 0 THEN Fails(u, "FR_DENIED")
    ELSE Then(dir_clear(u, c), LAMBDA w, x : Return(w, c)))

dir_next(v, dp, stretch) ==
  LET next == [dp EXCEPT !.dptr = @ + 1]
      At(u, c) == Return(u, [next EXCEPT !.clust = c, !.sect = clst2sect(u.fs, c)])
  IN  IF next.dptr % DirEntries # 0 THEN Return(v, next)
      ELSE IF dp.clust = 0 THEN Fails(v, "FR_NO_FILE") \* the FAT16 root: one sector
      ELSE IF (next.dptr \div DirEntries) % csize # 0
           THEN Return(v, [next EXCEPT !.sect = @ + 1])
      ELSE Then(get_fat(v, dp.clust), LAMBDA u, c :
             IF c <= 1 THEN Fails(u, "FR_INT_ERR")
             ELSE IF c < n_fatent THEN At(u, c)
             ELSE IF ~stretch THEN Fails(u, "FR_NO_FILE")
             ELSE Then(StretchTable(u, dp), At))

\* The entries a directory can have.
TableLength == DirEntries * csize * Clusters

AllocAt(v, dp) ==
  Then(move_window(v, dp.sect), LAMBDA u, x :
    IF EntryAt(u, dp).name \in {"deleted", "end"} THEN Return(u, dp)
    ELSE Then(dir_next(u, dp, TRUE), Again))

dir_alloc(v, sclust) ==
  {IF r.res = "FR_NO_FILE" THEN [r EXCEPT !.res = "FR_DENIED"] ELSE r
   : r \in Then(dir_sdi(v, sclust), LAMBDA u, dp : Loop(u, dp, AllocAt, TableLength))}

FindAt(v, dp, name) ==
  Then(move_window(v, dp.sect), LAMBDA u, x :
    IF EntryAt(u, dp).name = "end" THEN Fails(u, "FR_NO_FILE")
    ELSE IF EntryAt(u, dp).name = name THEN Return(u, dp)
    ELSE Then(dir_next(u, dp, FALSE), Again))

dir_find(v, sclust, name) ==
  Then(dir_sdi(v, sclust), LAMBDA u, dp :
    Loop(u, dp, LAMBDA w, d : FindAt(w, d, name), TableLength))

dir_register(v, sclust, name) ==
  Then(dir_alloc(v, sclust), LAMBDA u, dp :
    Then(move_window(u, dp.sect), LAMBDA w, x :
      Return(PutEntry(w, dp, [FreeEntry EXCEPT !.name = name]), dp)))

\* follow_path, for the paths of logger.c and sd_task.c, up to the directory that has the
\* file: "/logs/system.log" is in the one that the root has as "/logs", "HELLO.TXT" is in
\* the root itself.
follow_path(v, name) ==
  IF name = "HELLO.TXT" THEN Return(v, 0)
  ELSE UNION
    {CASE r.res = "FR_NO_FILE" -> Fails(r.v, "FR_NO_PATH")
       [] r.res = "FR_OK" /\ ~EntryAt(r.v, r.val).dir -> Fails(r.v, "FR_NO_PATH")
       [] r.res = "FR_OK" /\ EntryAt(r.v, r.val).dir ->
            Return(r.v, EntryAt(r.v, r.val).clst)
       [] OTHER -> {r} : r \in dir_find(v, 0, "LOGS")}

--------------------------------------------------------------------------------
\* Mounting.  What a sector is: 0 a boot sector of a volume, 2 or 3 something else, 4
\* not readable.
check_fs(v, sect) ==
  UNION {CASE r.res # "FR_OK" -> Return(r.v, 4)
           [] r.res = "FR_OK" -> Return(r.v, CASE r.v.fs.win.kind = "vbr" -> 0
                                               [] r.v.fs.win.kind = "mbr" -> 2
                                               [] OTHER -> 3)
         : r \in move_window([v EXCEPT !.fs.wflag = FALSE, !.fs.winsect = NoSector],
                             sect)}

\* The volume fills the card, or is the first partition that holds one.
TryPartition(v, starts) ==
  Then(IF Head(starts) = 0 THEN Return(v, 3) ELSE check_fs(v, Head(starts)),
       LAMBDA u, fmt : IF fmt >= 2 /\ Tail(starts) # <<>>
                       THEN Again(u, Tail(starts)) ELSE Return(u, fmt))

find_volume(v) ==
  Then(check_fs(v, 0), LAMBDA u, fmt :
    IF fmt = 2 THEN Loop(u, u.fs.win.starts, TryPartition, Len(u.fs.win.starts))
    ELSE Return(u, fmt))

\* The counts of FSInfo are used if the sector can be read.
ReadFsInfo(v) ==
  UNION {IF r.res # "FR_OK" THEN Return(r.v, 0)
         ELSE Return([r.v EXCEPT !.fs.fsi_flag = "clean",
                                 !.fs.free_clst = r.v.fs.win.free,
                                 !.fs.last_clst = r.v.fs.win.last], 0)
         : r \in move_window(v, v.fs.volbase + 1)}

mount_volume(v) ==
  IF v.fs.fs_type # "none" THEN Return(v, 0)
  ELSE Then(disk_initialize(v), LAMBDA u, x : Then(find_volume(u), LAMBDA w, fmt :
         CASE fmt = 4 -> Fails(w, "FR_DISK_ERR")
           [] fmt \in {2, 3} -> Fails(w, "FR_NO_FILESYSTEM")
           [] OTHER ->
                LET found == [w EXCEPT !.fs.fs_type = w.fs.win.fs_type,
                                       !.fs.n_fats = w.fs.win.n_fats,
                                       !.fs.volbase = w.fs.winsect]
                IN  IF IsFat32(found.fs) THEN ReadFsInfo(found) ELSE Return(found, 0)))

\* f_mount(&fs, "", 1) and f_unmount.
f_mount(v) == mount_volume([v EXCEPT !.fs = Unmounted])
f_unmount(v) == [v EXCEPT !.fs = Unmounted, !.fp = Closed]

--------------------------------------------------------------------------------
\* f_mkdir("/logs").
DotEntries(v, c, parent) ==
  LET dot == [name |-> "dot", clst |-> c, size |-> 0, dir |-> TRUE]
      dotdot == [dot EXCEPT !.name = "dotdot", !.clst = parent]
  IN  [v EXCEPT !.fs.win = [kind |-> "dir",
                            table |-> [AsDir(@) EXCEPT ![0] = dot, ![1] = dotdot]],
                !.fs.wflag = TRUE]

\* An empty table, then its name in the parent directory.
NewDirectory(v, c) ==
  Then(dir_clear(v, c), LAMBDA u, x : dir_register(DotEntries(u, c, 0), 0, "LOGS"))

MakeDirectory(v) ==
  Then(create_chain(v, 0), LAMBDA u, c :
    IF c = 0 THEN Fails(u, "FR_DENIED")
    ELSE Then(OnFailure(NewDirectory(u, c), LAMBDA w : remove_chain(w, c)),
              LAMBDA w, dp :
                sync_fs(PutEntry(w, dp, [name |-> "LOGS", clst |-> c, size |-> 0,
                                         dir |-> TRUE]))))

f_mkdir(v) ==
  Then(mount_volume(v), LAMBDA u, x :
    UNION {CASE r.res = "FR_OK" -> Fails(r.v, "FR_EXIST")
             [] r.res = "FR_NO_FILE" -> MakeDirectory(r.v)
             [] OTHER -> {r} : r \in dir_find(u, 0, "LOGS")})

--------------------------------------------------------------------------------
\* f_open with FA_WRITE | FA_OPEN_APPEND.
bcs == csize * SS

\* The FIL object from the directory entry that the window holds.
FromEntry(v, dp, modified) ==
  LET e == EntryAt(v, dp)
  IN  [v EXCEPT !.fp = [Closed EXCEPT !.open = TRUE,
                                      !.sclust = e.clst, !.objsize = e.size,
                                      !.modified = modified,
                                      !.dir_sect = v.fs.winsect,
                                      !.dir_ptr = dp.dptr % DirEntries]]

\* A new file is an entry without clusters, still in the window.
FindOrCreate(v, sclust, name) ==
  UNION {CASE r.res = "FR_OK" -> IF EntryAt(r.v, r.val).dir THEN Fails(r.v, "FR_DENIED")
                                 ELSE Return(FromEntry(r.v, r.val, FALSE), 0)
           [] r.res = "FR_NO_FILE" ->
                Then(dir_register(r.v, sclust, name), LAMBDA u, dp :
                  Return(FromEntry(u, dp, TRUE), 0))
           [] OTHER -> {r} : r \in dir_find(v, sclust, name)}

\* Down the chain from c, one cluster for each bcs cells before the last of size cells.
FollowOne(v, at) ==
  IF at.ofs <= bcs THEN Return(v, at)
  ELSE Then(get_fat(v, at.clst), LAMBDA u, nxt :
         IF nxt <= 1 THEN Fails(u, "FR_INT_ERR")
         ELSE Again(u, [clst |-> nxt, ofs |-> at.ofs - bcs]))

Follow(v, c, size) == Loop(v, [clst |-> c, ofs |-> size], FollowOne, size)

AsCells(sector) == IF sector.kind = "data" THEN sector.cells ELSE [i \in Cells |-> -1]

\* The last sector is read unless it is full.
ReadLastSector(v, c, ofs) ==
  IF ofs % SS = 0 THEN Return(v, 0)
  ELSE IF ~IsCluster(c) THEN Fails(v, "FR_INT_ERR")
  ELSE LET sect == clst2sect(v.fs, c) + ofs \div SS
       IN  Then(disk_read(v, sect), LAMBDA u, data :
             Return([u EXCEPT !.fp.sect = sect, !.fp.buf = AsCells(data)], 0))

SeekNowhere(v) == Return(v, 0)   \* mutant: FA_OPEN_ALWAYS for FA_OPEN_APPEND

SeekToEnd(v) ==
  LET size == v.fp.objsize
  IN  IF size = 0 THEN Return(v, 0)
      ELSE Then(Follow(v, v.fp.sclust, size), LAMBDA u, at :
             ReadLastSector([u EXCEPT !.fp.fptr = size, !.fp.clust = at.clst], at.clst,
                            at.ofs))

f_open(v, name) ==
  OnFailure(
    Then(mount_volume(v), LAMBDA u, x : Then(follow_path(u, name), LAMBDA w, sclust :
      Then(FindOrCreate(w, sclust, name), LAMBDA z, y : SeekToEnd(z)))),
    LAMBDA u : Return([u EXCEPT !.fp = Closed], 0))

--------------------------------------------------------------------------------
\* f_write, for at most PutUnit cells: its value is how many did not fit.
WriteBack(v) ==
  IF ~v.fp.dirty THEN Return(v, 0)
  ELSE Then(disk_write(v, v.fp.sect, [kind |-> "data", cells |-> v.fp.buf]),
            LAMBDA u, x : Return([u EXCEPT !.fp.dirty = FALSE], 0))

csect(v) == (v.fp.fptr \div SS) % csize

ClusterForWrite(v) ==
  IF csect(v) # 0 THEN Return(v, v.fp.clust)
  ELSE IF v.fp.fptr # 0 THEN create_chain(v, v.fp.clust)
  ELSE IF v.fp.sclust # 0 THEN Return(v, v.fp.sclust)
  ELSE create_chain(v, 0)

\* The next sector of the file, in its next cluster when that is due; 0 if there is none.
NextSector(v) ==
  Then(ClusterForWrite(v), LAMBDA u, c :
    IF c = 0 THEN Return(u, 0)
    ELSE Then(WriteBack([u EXCEPT !.fp.clust = c, !.fp.sclust = IF @ = 0 THEN c ELSE @]),
              LAMBDA w, x :
                IF ~IsCluster(c) THEN Fails(w, "FR_INT_ERR")
                ELSE Return([w EXCEPT !.fp.sect = clst2sect(w.fs, c) + csect(w)], c)))

\* Cells that fit into the sector buffer.
Room(fptr) == SS - (fptr % SS)
PutCells(v, data) ==
  LET at == v.fp.fptr % SS
  IN  [v EXCEPT !.fp.buf = [i \in Cells |-> IF i - at \in 0 .. Len(data) - 1
                                            THEN data[i - at + 1] ELSE @[i]],
                !.fp.dirty = TRUE,
                !.fp.fptr = @ + Len(data),
                !.fp.objsize = @ + Len(data)]

WriteSome(v, data) ==
  IF data = <<>> THEN Return(v, 0)
  ELSE Then(IF v.fp.fptr % SS = 0 THEN NextSector(v) ELSE Return(v, v.fp.clust),
            LAMBDA u, c :
              LET wcnt == IF Len(data) < Room(u.fp.fptr) THEN Len(data)
                          ELSE Room(u.fp.fptr)
              IN  IF c = 0 THEN Return(u, Len(data)) \* the volume is full
                  ELSE Again(PutCells(u, SubSeq(data, 1, wcnt)),
                             SubSeq(data, wcnt + 1, Len(data))))

\* Is this a file of a mounted volume?  The card has answered since it was mounted.
validate(v) == IF v.fp.open /\ v.fs.fs_type # "none" THEN Return(v, 0)
               ELSE Fails(v, "FR_INVALID_OBJECT")

\* ABORT: an error sticks to the file.
AbortForgets(S) == S   \* mutant: it does not
Abort(S) ==
  {IF r.res \in {"FR_OK", "cut"} THEN r ELSE [r EXCEPT !.v.fp.err = r.res] : r \in S}

f_write(v, data) ==
  Then(validate(v), LAMBDA w, x :
    IF w.fp.err # "FR_OK" THEN Fails(w, w.fp.err)
    ELSE Then(Abort(Loop(w, data, WriteSome, Len(data) + 1)), LAMBDA u, left :
           Return([u EXCEPT !.fp.modified = TRUE], left)))

\* f_puts, and f_printf of a string without formats: the string goes to f_write in units;
\* after one that was not written whole the rest is dropped.  What is left over, even if
\* it is nothing, goes at the end.
PutsUnit(v, str) ==
  LET unit == IF Len(str) < PutUnit THEN Len(str) ELSE PutUnit
  IN  UNION {IF r.res = "cut" THEN {r}
             ELSE IF r.res # "FR_OK" \/ r.val # 0 THEN Return(r.v, FALSE)
             ELSE IF unit < PutUnit THEN Return(r.v, TRUE)
             ELSE Again(r.v, SubSeq(str, unit + 1, Len(str)))
             : r \in f_write(v, SubSeq(str, 1, unit))}

f_puts(v, str) == Loop(v, str, PutsUnit, Len(str) + 1)

--------------------------------------------------------------------------------
\* f_sync: the data, then the directory entry.  FA_MODIFIED goes even if the entry stays
\* in the window; the error of an earlier f_write is not looked at.
UpdateEntry(v) ==
  LET dp == [dptr |-> v.fp.dir_ptr]
      e == EntryAt(v, dp)
  IN  PutEntry(v, dp, [e EXCEPT !.clst = v.fp.sclust, !.size = v.fp.objsize])

SyncEntryFirst(v) ==   \* mutant: the directory entry before the data
  Then(move_window(v, v.fp.dir_sect), LAMBDA w, y :
    Then({IF r.res = "cut" THEN r ELSE [r EXCEPT !.v.fp.modified = FALSE]
            : r \in sync_fs(UpdateEntry(w))},
         LAMBDA u, x : WriteBack(u)))

SyncModified(v) ==
  Then(WriteBack(v), LAMBDA u, x : Then(move_window(u, v.fp.dir_sect), LAMBDA w, y :
    {IF r.res = "cut" THEN r ELSE [r EXCEPT !.v.fp.modified = FALSE]
       : r \in sync_fs(UpdateEntry(w))}))

f_sync(v) ==
  Then(validate(v), LAMBDA u, x : IF u.fp.modified THEN SyncModified(u) ELSE Return(u, 0))

\* f_close: a file that f_sync cannot write stays open.
f_close(v) == Then(f_sync(v), LAMBDA u, x : Return([u EXCEPT !.fp.open = FALSE], 0))

====================================================================================
