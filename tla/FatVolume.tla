--------------------------------- MODULE FatVolume ---------------------------------
(***************************************************************************)
(* The card as logger_task uses it through FatFs: mounted, /logs made, the *)
(* log opened for append, then f_puts and f_sync without looking at their  *)
(* results; and as sd_task uses it instead, in builds that start that:     *)
(* mounted, HELLO.TXT opened, one line, f_sync, f_close, unmounted.  Disk  *)
(* calls fail, and the power goes at any point, inside a call as well as   *)
(* between two.                                                            *)
(*                                                                         *)
(* Assumption: a sector is written entirely or not at all.                 *)
(***************************************************************************)
EXTENDS FatFs, FiniteSets

CONSTANTS Torn,     \* in FatFile's log: a line cut short
          Cards,    \* cards to start with, and the task that uses each
          NoticeSize, EntrySizes, \* cells of "... entries dropped", of an entry's line
          MaxPuts   \* bound: calls of f_puts

ASSUME VolumeAssumption ==
  /\ NoticeSize \in Nat /\ EntrySizes \subseteq Nat
  /\ MaxPuts \in Nat

VARIABLES
  disk,     \* the sectors of the card
  fs,       \* static FATFS fs
  fp,       \* static FIL file
  faults, resets,
  task,     \* which task uses the card: "logger_task" or "sd_task"
  phase,    \* where it is
  puts,     \* calls of f_puts so far
  content,  \* history: the cells of the file as the FIL object has them
  synced,   \* history: how many of them a successful f_sync covered last
  lines,    \* history: of each line put into the file [end, torn]
  stuck,    \* history: a line was not written whole since the file was opened
  noticed,  \* history: calls of the API that failed
  denied,   \* history: f_mkdir found no room
  dirsize   \* history: the size of the file in its directory entry, on the card and as
            \* the library has it: [card, library]

history == <<content, synced, lines, stuck, noticed, denied>>
vars == <<disk, fs, fp, faults, resets, task, phase, puts, history, dirsize>>

Name == IF task = "sd_task" THEN "HELLO.TXT" ELSE "SYSTEM.LOG"

\* What a reader of the card finds: the sectors as sector[s] gives them, the layout from
\* the boot sector, the FAT, the directories, the file.
BootSector == IF disk[0].kind = "vbr" THEN 0
              ELSE CHOOSE s \in DOMAIN disk : disk[s].kind = "vbr"
Layout == LET boot == BootSector
          IN  [fs_type |-> disk[boot].fs_type, n_fats |-> disk[boot].n_fats,
               volbase |-> boot]

OnCard == disk
\* The sectors as the library has them, the one in the window included.
WithWindow(d, f) == IF f.winsect = NoSector THEN d ELSE [d EXCEPT ![f.winsect] = f.win]
InLibrary == WithWindow(disk, fs)

FatEntry(sector, c) ==
  sector[BootSector + 2 + c \div FatEntries].fat[c % FatEntries]

\* The clusters of the chain that starts at c; the chain stops where it goes wrong.
ChainFrom(sector, c) ==
  LET first[n \in 0 .. Clusters] ==
        IF n = 0 THEN IF IsCluster(c) THEN <<c>> ELSE <<>>
        ELSE LET chain == first[n - 1]
                 next == FatEntry(sector, chain[Len(chain)])
             IN  IF chain # <<>> /\ IsCluster(next) THEN Append(chain, next) ELSE chain
  IN  first[Clusters]

SectorsOf(chain) ==
  [i \in 1 .. csize * Len(chain) |->
     clst2sect(Layout, chain[(i - 1) \div csize + 1]) + ((i - 1) % csize)]

\* The entries of the directory at cluster c (0: the root), up to its end.
EntriesIn(sector, c) ==
  LET sects == IF c = 0 /\ ~IsFat32(Layout) THEN <<dirbase(Layout)>>
               ELSE SectorsOf(ChainFrom(sector, IF c = 0 THEN dirbase(Layout) ELSE c))
      At(i) == AsDir(sector[sects[i \div DirEntries + 1]])[i % DirEntries]
      all == 0 .. DirEntries * Len(sects) - 1
      ends == {i \in all : At(i).name = "end"}
  IN  {At(i) : i \in {j \in all : \A k \in ends : j < k}}

Root(sector) == EntriesIn(sector, 0)
Logs(sector) == UNION {EntriesIn(sector, e.clst) : e \in {d \in Root(sector) :
                                                          d.name = "LOGS"}}
OurFile(sector) ==
  {e \in IF task = "sd_task" THEN Root(sector) ELSE Logs(sector) : e.name = Name}

FileSize(sector) == IF OurFile(sector) = {} THEN 0
                    ELSE (CHOOSE e \in OurFile(sector) : TRUE).size
FileCells(sector) ==
  IF OurFile(sector) = {} THEN <<>>
  ELSE LET e == CHOOSE f \in OurFile(sector) : TRUE
           sects == SectorsOf(ChainFrom(sector, e.clst))
       IN  [i \in 1 .. IF e.size > SS * Len(sects) THEN SS * Len(sects) ELSE e.size
              |-> AsCells(sector[sects[(i - 1) \div SS + 1]])[(i - 1) % SS]]

FreeClusters(sector) == {c \in 2 .. n_fatent - 1 : FatEntry(sector, c) = 0}

Volume == [disk |-> disk, fs |-> fs, fp |-> fp, faults |-> faults, resets |-> resets]
Becomes(v) == /\ disk' = v.disk
              /\ fs' = v.fs
              /\ fp' = v.fp
              /\ faults' = v.faults
              /\ resets' = v.resets
              /\ dirsize' = [card |-> FileSize(v.disk),
                             library |-> FileSize(WithWindow(v.disk, v.fs))]
              /\ UNCHANGED task

--------------------------------------------------------------------------------
\* Cards to start with.  OTHER is a file on the clusters card.taken, and card.others more
\* root entries have no clusters; if /logs is there it is the cluster card.dir, and the
\* file has card.size cells on the clusters card.chain, which may be more than it needs.
\* FSInfo knows the number of free clusters, or not.
ChainsOf(card) == <<card.taken, card.chain,
                    IF card.dir = 0 THEN <<>> ELSE <<card.dir>>,
                    IF card.fs_type = "FAT32" THEN <<2>> ELSE <<>>>>

\* The card is sound: no cluster is in two of its chains or twice in one; and HELLO.TXT
\* and /logs are not on the same card.
ASSUME CardsAssumption ==
  \A card \in Cards :
    /\ card.task \in {"logger_task", "sd_task"}
    /\ card.fs_type \in {"FAT16", "FAT32"} /\ card.n_fats \in {1, 2}
    /\ {card.start, card.others, card.hint} \subseteq Nat
    /\ {card.taken, card.chain} \subseteq Seq(2 .. n_fatent - 1)
    /\ card.dir \in {0} \cup (2 .. n_fatent - 1)
    /\ card.size \in 0 .. csize * SS * Len(card.chain)
    /\ card.dir # 0 => card.task = "logger_task"
    /\ \A k, l \in 1 .. 4 :
         \A i \in DOMAIN ChainsOf(card)[k], j \in DOMAIN ChainsOf(card)[l] :
           ChainsOf(card)[k][i] = ChainsOf(card)[l][j] => k = l /\ i = j

Stamp(i) == i * (MaxResets + 1) + resets   \* a value that tells a cell from all others

InChain(card, k, c) == \E i \in DOMAIN ChainsOf(card)[k] : ChainsOf(card)[k][i] = c
FatOf(card, c) ==
  IF \E k \in 1 .. 4 : InChain(card, k, c)
  THEN LET s == ChainsOf(card)[CHOOSE k \in 1 .. 4 : InChain(card, k, c)]
           i == CHOOSE j \in DOMAIN s : s[j] = c
       IN  IF i = Len(s) THEN EOC ELSE s[i + 1]
  ELSE 0

Named(name, chain, size, dir) ==
  [name |-> name, clst |-> IF chain = <<>> THEN 0 ELSE Head(chain), size |-> size,
   dir |-> dir]
RootOf(card) ==
  (IF card.dir = 0 THEN <<>> ELSE <<Named("LOGS", <<card.dir>>, 0, TRUE)>>)
    \o (IF card.taken = <<>> THEN <<>>
        ELSE <<Named("OTHER", card.taken, 0, FALSE)>>)
    \o (IF card.task = "sd_task" /\ card.chain # <<>>
        THEN <<Named("HELLO.TXT", card.chain, card.size, FALSE)>> ELSE <<>>)
    \o [i \in 1 .. card.others |-> Named("OTHER", <<>>, 0, FALSE)]
LogsOf(card) ==
  <<Named("dot", <<card.dir>>, 0, TRUE), Named("dotdot", <<>>, 0, TRUE),
    Named("SYSTEM.LOG", card.chain, card.size, FALSE)>>
DirSector(entries, n) ==
  [kind |-> "dir",
   table |-> [i \in 0 .. DirEntries - 1 |->
                IF n * DirEntries + i < Len(entries) THEN entries[n * DirEntries + i + 1]
                ELSE FreeEntry]]

FormattedCluster(card, c, n) ==
  IF card.fs_type = "FAT32" /\ c = 2 THEN DirSector(RootOf(card), n)
  ELSE IF c = card.dir THEN DirSector(LogsOf(card), n)
  ELSE IF \E k \in DOMAIN card.chain : card.chain[k] = c
  THEN LET k == CHOOSE j \in DOMAIN card.chain : card.chain[j] = c
           before == ((k - 1) * csize + n) * SS
       IN  [kind |-> "data", cells |-> [i \in Cells |-> IF before + i < card.size
                                                       THEN Stamp(before + i + 1) ELSE 0]]
  ELSE NoData

Formatted(card) ==
  LET base == card.start + 2
      root == base + card.n_fats * fsize
      data == root + RootSectors(card)
  IN  [s \in 0 .. data + csize * Clusters - 1 |->
         CASE s < card.start -> [kind |-> "mbr", starts |-> <<0, card.start>>]
           [] s = card.start ->
                [kind |-> "vbr", fs_type |-> card.fs_type, n_fats |-> card.n_fats]
           [] s = card.start + 1 ->
                [kind |-> "fsinfo", last |-> card.hint,
                 free |-> IF card.known
                          THEN Cardinality({c \in 2 .. n_fatent - 1 : FatOf(card, c) = 0})
                          ELSE MaxDword]
           [] s \in base .. root - 1 ->
                [kind |-> "fat",
                 fat |-> [i \in 0 .. FatEntries - 1 |->
                            FatOf(card, ((s - base) % fsize) * FatEntries + i)]]
           [] s \in root .. data - 1 -> DirSector(RootOf(card), 0)
           [] s >= data -> FormattedCluster(card, (s - data) \div csize + 2,
                                            (s - data) % csize)]

Init ==
  /\ resets = 0
  /\ \E card \in Cards :
       /\ disk = Formatted(card)
       /\ task = card.task
       /\ content = [i \in 1 .. card.size |-> Stamp(i)]
       /\ synced = card.size
       /\ dirsize = [card |-> card.size, library |-> card.size]
  /\ fs = Unmounted
  /\ fp = Closed
  /\ faults = 0
  /\ phase = "mount"
  /\ puts = 0
  /\ lines = <<>>
  /\ stuck = FALSE
  /\ noticed = 0
  /\ denied = FALSE

--------------------------------------------------------------------------------
\* What RAM has of the file is lost.
Lost(v, next) ==
  /\ Becomes(v)
  /\ phase' = next
  /\ lines' = SelectSeq(lines, LAMBDA line : line.end <= FileSize(v.disk))
  /\ stuck' = FALSE
  /\ UNCHANGED <<puts, content, synced, noticed, denied>>

\* The power goes, and the task starts again with the card as it is.
PowerCut == \E v \in Cuts(Volume) : Lost(v, "mount")

\* A call of the API with one of its results, when the power goes inside it, and when a
\* start-up call fails: the task unmounts and sleeps for ever.
Cut(results) == \E r \in results : r.res = "cut" /\ Lost(r.v, "mount")
Passes(results, ok, next) ==
  \E r \in results : /\ r.res \in ok
                     /\ Becomes(r.v)
                     /\ phase' = next
                     /\ UNCHANGED <<puts, history>>
Parks(results, ok) ==
  \E r \in results : /\ r.res \notin ok \cup {"cut"}
                     /\ Becomes(f_unmount(r.v))
                     /\ phase' = "parked"
                     /\ noticed' = noticed + 1
                     /\ denied' = (denied \/ r.res = "FR_DENIED")
                     /\ UNCHANGED <<puts, content, synced, lines, stuck>>

Mount ==
  /\ phase = "mount"
  /\ LET results == f_mount(Volume)
     IN  \/ Passes(results, {"FR_OK"}, IF task = "sd_task" THEN "open" ELSE "mkdir")
         \/ Parks(results, {"FR_OK"})

MakeLogs ==
  /\ phase = "mkdir"
  /\ LET results == f_mkdir(Volume)
     IN  \/ Passes(results, {"FR_OK", "FR_EXIST"}, "open")
         \/ Parks(results, {"FR_OK", "FR_EXIST"})
         \/ Cut(results)

Open ==
  /\ phase = "open"
  /\ LET results == f_open(Volume, Name)
     IN  \/ \E r \in results :
              /\ r.res = "FR_OK"
              /\ Becomes(r.v)
              /\ phase' = IF task = "sd_task" THEN "print" ELSE "receive"
              /\ content' = SubSeq(content, 1, r.v.fp.objsize)
              /\ UNCHANGED <<puts, synced, lines, stuck, noticed, denied>>
         \/ Parks(results, {"FR_OK"})
         \/ Cut(results)

\* f_puts or f_printf of a line of that many cells; its result is ignored.
Put(size, next) ==
  LET written == Len(content)
      results == f_puts(Volume, [i \in 1 .. size |-> Stamp(written + i)])
  IN  /\ puts < MaxPuts
      /\ \/ \E r \in results :
              /\ r.res = "FR_OK"
              /\ Becomes(r.v)
              /\ phase' = next
              /\ puts' = puts + 1
              /\ content' = content \o [i \in 1 .. r.v.fp.objsize - written |->
                                          Stamp(written + i)]
              /\ lines' = IF r.v.fp.objsize = written THEN lines
                          ELSE Append(lines, [end |-> r.v.fp.objsize, torn |-> ~r.val])
              /\ stuck' = ~r.val
              /\ noticed' = IF r.val \/ stuck THEN noticed ELSE noticed + 1
              /\ UNCHANGED <<synced, denied>>
         \/ Cut(results)

PutNotice == phase = "receive" /\ puts + 1 < MaxPuts /\ Put(NoticeSize, "put")
PutEntryLine == phase \in {"receive", "put"} /\ \E size \in EntrySizes : Put(size, "sync")

\* "Hello World", less than f_printf collects.
PutHello == phase = "print" /\ Put(PutUnit - 1, "sync")

\* f_sync or f_close; its result is ignored.  Without FA_MODIFIED they say FR_OK and write
\* nothing.
Flush(results, next) ==
  \/ \E r \in results :
       /\ r.res # "cut"
       /\ Becomes(r.v)
       /\ phase' = next
       /\ synced' = IF r.res = "FR_OK" /\ fp.modified THEN Len(content) ELSE synced
       /\ noticed' = IF r.res = "FR_OK" THEN noticed ELSE noticed + 1
       /\ UNCHANGED <<puts, content, lines, stuck, denied>>
  \/ Cut(results)

Sync == /\ phase = "sync"
        /\ Flush(f_sync(Volume), IF task = "sd_task" THEN "close" ELSE "receive")
Close == phase = "close" /\ Flush(f_close(Volume), "unmount")
Unmount == phase = "unmount" /\ Lost(f_unmount(Volume), "suspended")

Next == \/ Mount \/ MakeLogs \/ Open \/ PutNotice \/ PutEntryLine \/ PutHello
        \/ Sync \/ Close \/ Unmount \/ PowerCut

Spec == Init /\ [][Next]_vars

--------------------------------------------------------------------------------
TypeOK ==
  /\ DOMAIN fs = DOMAIN Unmounted
  /\ DOMAIN fp = DOMAIN Closed
  /\ faults \in 0 .. MaxFaults
  /\ resets \in 0 .. MaxResets
  /\ phase \in {"mount", "mkdir", "open", "receive", "put", "print", "sync", "close",
               "unmount", "suspended", "parked"}
  /\ fs.winsect \in DOMAIN disk \cup {NoSector}
  /\ fp.objsize = fp.fptr \* appends only
  /\ phase \in {"receive", "put", "print", "sync", "close"} =>
       fp.open /\ fp.objsize = Len(content)

\* Whatever is refused and whenever the power goes: a reader of the card finds a prefix of
\* what was put into the file, complete, and at least what f_sync said is written
\* (f_open, f_write and f_sync with the sector window between them and the card).
CardHoldsPrefix ==
  LET found == FileCells(OnCard)
  IN  /\ Len(found) = FileSize(OnCard)
      /\ Len(found) \in synced .. Len(content)
      /\ found = SubSeq(content, 1, Len(found))

\* On the card at any time, and as the library has it: the chain of every file and
\* directory is allocated to its end, and no cluster is in two of them (the order in
\* which create_chain, dir_clear, f_mkdir and f_sync write FAT and directory sectors).
Objects(sector) ==
  {<<e.name, e.clst>> : e \in {d \in Root(sector) \cup Logs(sector) :
                                 d.clst # 0 /\ d.name \notin {"dot", "dotdot", "junk"}}}
    \cup (IF IsFat32(Layout) THEN {<<"root", 2>>} ELSE {})
    \cup (IF sector = InLibrary /\ fp.sclust # 0
          THEN {<<Name, fp.sclust>>} ELSE {})
Chains(sector) == {ChainFrom(sector, object[2]) : object \in Objects(sector)}
ClustersOf(chain) == {chain[i] : i \in DOMAIN chain}

SoundIn(sector) ==
  LET chains == Chains(sector)
  IN  /\ Cardinality(chains) = Cardinality(Objects(sector))
      /\ \A chain \in chains :
           /\ chain # <<>>
           /\ Len(chain) = Cardinality(ClustersOf(chain))
           /\ FatEntry(sector, chain[Len(chain)]) = EOC
      /\ \A a, b \in chains : a # b => ClustersOf(a) \cap ClustersOf(b) = {}
ChainsSound == SoundIn(OnCard) /\ SoundIn(InLibrary)

\* The count of free clusters, in the FATFS object and in FSInfo, is not below the truth,
\* so that the search for a free cluster is never skipped for nothing.
CountCovers(count, sector) ==
  count <= Clusters => count >= Cardinality(FreeClusters(sector))
FreeCountNeverShort ==
  /\ CountCovers(fs.free_clst, InLibrary)
  /\ IsFat32(Layout) => CountCovers(OnCard[BootSector + 1].free, OnCard)

\* A line is cut short without an error only when no cluster is free, wherever the
\* search began and whatever the hint was (create_chain).
FullOnlyWhenFull ==
  stuck /\ fp.err = "FR_OK" => FreeClusters(InLibrary) = {}

\* A fault or a power cut costs no more than two clusters that belong to nothing; an
\* f_mkdir that finds no room for the entry costs one, as the removal of the chain stays
\* in the window when logger_task unmounts.
LeaksBounded ==
  LET reached == UNION {ClustersOf(chain) : chain \in Chains(InLibrary)}
      lost == (2 .. n_fatent - 1) \ (FreeClusters(InLibrary) \cup reached)
  IN  Cardinality(lost) <= 2 * (faults + resets) + (IF denied THEN 1 ELSE 0)

\* Line by line this is what module FatFile says of a file, on which Logger relies: f_open,
\* f_puts, f_sync and f_close are its actions, the directory entry on the card and the one
\* in the window its durable and cached.
LinesUpTo(size) == Cardinality({i \in DOMAIN lines : lines[i].end <= size})
File == INSTANCE FatFile WITH
          log <- [i \in DOMAIN lines |-> IF lines[i].torn THEN Torn ELSE "line"],
          durable <- LinesUpTo(dirsize.card),
          cached <- LinesUpTo(dirsize.library),
          modified <- fp.modified,
          faults <- noticed,
          MaxFaults <- MaxFaults + 2 * (MaxResets + 1)
ImplementsFatFile ==
  [][\/ File!OpenAppend /\ UNCHANGED noticed
     \/ File!f_puts("line")
     \/ File!f_sync
     \/ File!PowerCut
     \/ File!NotOpened]_(File!fileVars)
====================================================================================
