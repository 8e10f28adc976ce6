---------------------------- MODULE FatVolume_proofs ----------------------------
(***************************************************************************)
(* Proofs about FatVolume, for volumes, sectors, FATs and directories of   *)
(* every size, every card of CardsAssumption, and any number of faults and *)
(* losses of power: types, the free counts, that a line is cut short       *)
(* without an error only on a full volume, and that every file and         *)
(* directory has a chain of its own, allocated to its end.                 *)
(***************************************************************************)
EXTENDS FatVolume, SequenceTheorems, FiniteSetTheorems, TLAPS

--------------------------------------------------------------------------------
\* The layout of a volume.  L stands for what its boot sector says, and where that is.

Geometries == [fs_type : {"FAT16", "FAT32"}, n_fats : {1, 2}, volbase : Nat,
               name : {"SYSTEM.LOG", "HELLO.TXT"}] \* name: of the task's file

LastSector(L) == database(L) + csize * Clusters - 1
Sectors(L) == 0 .. LastSector(L)
PlainStart(L) == fatbase(L) + L.n_fats * fsize \* behind the FATs
PlainSectors(L) == PlainStart(L) .. LastSector(L)
FirstFat(L) == fatbase(L) .. fatbase(L) + fsize - 1

ClusterSet == 2 .. n_fatent - 1
FatSect(L, c) == fatbase(L) + c \div FatEntries

\* Division with a remainder.
LEMMA Division ==
  ASSUME NEW a \in Nat, NEW n \in Nat \ {0}
  PROVE  /\ a \div n \in Nat /\ a % n \in 0 .. n - 1
         /\ a = n * (a \div n) + (a % n)
  OBVIOUS

\* The constants are numbers, and MaxDword is no count of clusters.
LEMMA Constants ==
  /\ SS \in Nat \ {0} /\ csize \in Nat \ {0} /\ Clusters \in Nat \ {0}
  /\ FatEntries \in Nat \ {0} /\ DirEntries \in Nat \ {0} /\ PutUnit \in Nat \ {0}
  /\ MaxDword \in Nat /\ MaxDword > Clusters + 2
  /\ MaxFaults \in Nat /\ MaxResets \in Nat
BY FatFsAssumption

\* The FAT has an entry for each cluster.
LEMMA Sizes ==
  /\ n_fatent \in Nat /\ n_fatent = Clusters + 2
  /\ fsize \in Nat \ {0}
  /\ \A c \in 0 .. n_fatent - 1 : c \div FatEntries \in 0 .. fsize - 1
<1>1. n_fatent \in Nat \ {0} /\ n_fatent = Clusters + 2
  BY Constants DEF n_fatent
<1>2. /\ fsize \in Nat
      /\ n_fatent + FatEntries - 1 =
           FatEntries * fsize + ((n_fatent + FatEntries - 1) % FatEntries)
      /\ (n_fatent + FatEntries - 1) % FatEntries \in 0 .. FatEntries - 1
  <2>1. n_fatent + FatEntries - 1 \in Nat /\ FatEntries \in Nat \ {0}
    BY <1>1, Constants
  <2> QED
    BY <2>1, Division DEF fsize
<1>3. FatEntries * fsize >= n_fatent
  BY <1>1, <1>2, Constants
<1>4. ASSUME NEW c \in 0 .. n_fatent - 1
      PROVE  c \div FatEntries \in 0 .. fsize - 1
  <2>1. /\ c \div FatEntries \in Nat
        /\ c = FatEntries * (c \div FatEntries) + (c % FatEntries)
        /\ c % FatEntries \in 0 .. FatEntries - 1
    <3>1. c \in Nat /\ FatEntries \in Nat \ {0}
      BY <1>1, Constants
    <3> QED
      BY <3>1, Division
  <2>2. FatEntries * (c \div FatEntries) < FatEntries * fsize
    BY <1>1, <1>2, <1>3, <2>1, Constants
  <2>3. c \div FatEntries < fsize
    BY <1>2, <2>1, <2>2, Constants
  <2> QED
    BY <1>2, <2>1, <2>3
<1>5. fsize # 0
  BY <1>1, <1>2, <1>3, Constants
<1> QED
  BY <1>1, <1>2, <1>4, <1>5

\* No two entries are in one place.
LEMMA EntryPlaces ==
  /\ \A c \in Nat : c \div FatEntries \in Nat /\ c % FatEntries \in 0 .. FatEntries - 1
  /\ \A c, d \in Nat :
       c \div FatEntries = d \div FatEntries /\ c % FatEntries = d % FatEntries => c = d
<1>1. ASSUME NEW c \in Nat
      PROVE  /\ c \div FatEntries \in Nat /\ c % FatEntries \in 0 .. FatEntries - 1
             /\ c = FatEntries * (c \div FatEntries) + (c % FatEntries)
  BY Constants, Division
<1> QED
  BY <1>1

\* Where the parts of a volume begin.
LEMMA Places ==
  ASSUME NEW L \in Geometries
  PROVE  /\ L.volbase \in Nat /\ L.n_fats \in {1, 2} /\ L.fs_type \in {"FAT16", "FAT32"}
         /\ fatbase(L) \in Nat /\ fatbase(L) = L.volbase + 2
         /\ PlainStart(L) \in Nat
         /\ PlainStart(L) = IF L.n_fats = 1 THEN fatbase(L) + fsize
                            ELSE fatbase(L) + 2 * fsize
         /\ database(L) \in Nat
         /\ database(L) = IF L.fs_type = "FAT16" THEN PlainStart(L) + 1 ELSE PlainStart(L)
         /\ LastSector(L) \in Nat /\ LastSector(L) = database(L) + csize * Clusters - 1
         /\ csize * Clusters \in Nat \ {0}
<1>1. L.volbase \in Nat /\ L.n_fats \in {1, 2} /\ L.fs_type \in {"FAT16", "FAT32"}
  BY DEF Geometries
<1>2. csize * Clusters \in Nat \ {0}
  BY Constants
<1>3. L.n_fats * fsize = IF L.n_fats = 1 THEN fsize ELSE 2 * fsize
  BY <1>1, Sizes
<1>4. RootSectors(L) = IF L.fs_type = "FAT16" THEN 1 ELSE 0
  BY DEF RootSectors
<1>5. fatbase(L) \in Nat /\ fatbase(L) = L.volbase + 2
  BY <1>1 DEF fatbase
<1>6. /\ PlainStart(L) \in Nat
      /\ PlainStart(L) = IF L.n_fats = 1 THEN fatbase(L) + fsize ELSE fatbase(L) + 2 * fsize
  BY <1>1, <1>3, <1>5, Sizes DEF PlainStart
<1>7. /\ database(L) \in Nat
      /\ database(L) = IF L.fs_type = "FAT16" THEN PlainStart(L) + 1 ELSE PlainStart(L)
  BY <1>1, <1>4, <1>6 DEF database, PlainStart
<1> QED
  BY <1>1, <1>2, <1>5, <1>6, <1>7 DEF LastSector

\* What there is in which order.
LEMMA Regions ==
  ASSUME NEW L \in Geometries
  PROVE  /\ FirstFat(L) \subseteq Sectors(L) /\ FirstFat(L) \subseteq Nat
         /\ \A s \in FirstFat(L) :
              /\ s >= fatbase(L) /\ s < PlainStart(L)
              /\ s - fatbase(L) \in 0 .. fsize - 1
              /\ L.n_fats = 2 => /\ s + fsize \in Sectors(L) /\ s + fsize \notin FirstFat(L)
                                 /\ s + fsize >= fatbase(L) /\ s + fsize < PlainStart(L)
         /\ \A s \in Int : s - fatbase(L) \in 0 .. fsize - 1 => s \in FirstFat(L)
         /\ PlainSectors(L) \subseteq Sectors(L) /\ PlainSectors(L) \subseteq Nat
         /\ \A s \in PlainSectors(L) :
              s >= fatbase(L) /\ s >= PlainStart(L) /\ s \notin FirstFat(L)
         /\ {0, L.volbase, L.volbase + 1} \subseteq Sectors(L)
         /\ L.volbase \notin FirstFat(L) /\ L.volbase + 1 \notin FirstFat(L)
         /\ NoSector \notin Sectors(L) /\ NoSector \notin FirstFat(L)
         /\ Sectors(L) \subseteq Nat
<1>1. /\ L.volbase \in Nat /\ L.n_fats \in {1, 2}
      /\ fatbase(L) \in Nat /\ fatbase(L) = L.volbase + 2
      /\ PlainStart(L) \in Nat
      /\ PlainStart(L) = IF L.n_fats = 1 THEN fatbase(L) + fsize ELSE fatbase(L) + 2 * fsize
      /\ LastSector(L) \in Nat /\ LastSector(L) >= PlainStart(L)
      /\ fsize \in Nat \ {0}
  BY Places, Sizes
<1> QED
  BY <1>1 DEF FirstFat, Sectors, PlainSectors, NoSector

\* Each cluster has an entry of its own in the first FAT.
LEMMA FatSects ==
  ASSUME NEW L \in Geometries
  PROVE  /\ \A c \in ClusterSet : FatSect(L, c) \in FirstFat(L) /\ c \in Nat
         /\ \A c \in Nat : IsCluster(c) <=> c \in ClusterSet
         /\ \A c, d \in ClusterSet :
              FatSect(L, c) = FatSect(L, d) /\ c % FatEntries = d % FatEntries => c = d
<1>1. /\ fatbase(L) \in Nat /\ fsize \in Nat /\ n_fatent \in Nat
      /\ \A c \in 0 .. n_fatent - 1 : c \div FatEntries \in 0 .. fsize - 1
  BY Places, Sizes
<1>2. \A c \in ClusterSet : c \in Nat /\ c \in 0 .. n_fatent - 1
  BY <1>1 DEF ClusterSet
<1>3. \A c \in ClusterSet : FatSect(L, c) \in FirstFat(L)
  BY <1>1, <1>2 DEF FatSect, FirstFat
<1>4. \A c, d \in ClusterSet :
        FatSect(L, c) = FatSect(L, d) => c \div FatEntries = d \div FatEntries
  <2>1. \A c, d \in ClusterSet : c \div FatEntries \in Int /\ d \div FatEntries \in Int
    BY <1>1, <1>2
  <2> QED
    BY <1>1, <2>1 DEF FatSect
<1> QED
  BY <1>1, <1>2, <1>3, <1>4, EntryPlaces DEF IsCluster, ClusterSet

--------------------------------------------------------------------------------
\* What a volume looks like, between any two disk calls of the library.

\* A directory entry of a file that is not empty has a cluster.
IsEntry(e) ==
  /\ e \in [name : {e.name}, clst : Nat, size : Nat, dir : BOOLEAN]
  /\ e.size > 0 => e.clst # 0

IsTable(table) ==
  /\ table = [i \in 0 .. DirEntries - 1 |-> table[i]]
  /\ \A i \in 0 .. DirEntries - 1 : IsEntry(table[i])

\* What a sector may hold, by its place.
Fits(L, s, x) ==
  /\ s < L.volbase => x = [kind |-> "mbr", starts |-> <<0, L.volbase>>]
  /\ s = L.volbase => x = [kind |-> "vbr", fs_type |-> L.fs_type, n_fats |-> L.n_fats]
  /\ s = L.volbase + 1 => x \in [kind : {"fsinfo"}, free : Nat, last : Nat]
  /\ s >= fatbase(L) /\ s < PlainStart(L) =>
       x \in [kind : {"fat"}, fat : [0 .. FatEntries - 1 -> Nat]]
  /\ s >= PlainStart(L) => /\ x.kind \in {"none", "dir", "data"}
                           /\ x.kind = "dir" => IsTable(x.table)

Mounted(L, f) == f.fs_type = L.fs_type /\ f.volbase = L.volbase /\ f.n_fats = L.n_fats

IsVolume(v) ==
  v \in [disk : {v.disk}, fs : {v.fs}, fp : {v.fp},
         faults : 0 .. MaxFaults, resets : 0 .. MaxResets]
IsFatFs(L, f) ==
  f \in [fs_type : {"none", L.fs_type}, volbase : Nat, n_fats : {1, 2},
         winsect : Sectors(L) \cup {NoSector}, win : {f.win}, wflag : BOOLEAN,
         free_clst : Nat, last_clst : Nat, fsi_flag : {"disabled", "clean", "changed"}]
Shape(L, v) ==
  /\ IsVolume(v) /\ IsFatFs(L, v.fs)
  /\ v.disk = [s \in Sectors(L) |-> v.disk[s]]

\* Disk and window hold what belongs there; what is to be written back belongs to the
\* FAT or behind it; a FAT sector in a clean window is that of the card.
Contents(L, v) ==
  /\ \A s \in Sectors(L) : Fits(L, s, v.disk[s])
  /\ v.fs.winsect # NoSector => Fits(L, v.fs.winsect, v.fs.win)
  /\ v.fs.wflag => v.fs.winsect >= fatbase(L) /\ Mounted(L, v.fs)
  /\ v.fs.winsect \in FirstFat(L) /\ ~v.fs.wflag => v.fs.win = v.disk[v.fs.winsect]

\* The FAT as it is on the card, and as the library has it.
Card(L, v, c) == v.disk[FatSect(L, c)].fat[c % FatEntries]
Lib(L, v, c) == IF v.fs.winsect = FatSect(L, c) THEN v.fs.win.fat[c % FatEntries]
                ELSE Card(L, v, c)

LibFree(L, v) == {c \in ClusterSet : Lib(L, v, c) = 0}
InfoFree(L, v) == v.disk[L.volbase + 1].free

\* F, the clusters that were free when FSInfo was written last, has those that are free
\* now, and the chains that were made of them since; the count in FSInfo covers F.
Within(F, x) == x \in F \cup {0} \/ x >= n_fatent
Covered(L, F, v) ==
  /\ F \in SUBSET ClusterSet
  /\ \A c \in ClusterSet :
       /\ Card(L, v, c) = 0 \/ Lib(L, v, c) = 0 => c \in F
       /\ c \in F => Within(F, Card(L, v, c)) /\ Within(F, Lib(L, v, c))
  /\ InfoFree(L, v) <= Clusters => InfoFree(L, v) >= Cardinality(F)

\* What holds a chain: the entries with a cluster, behind the FATs, of a directory or of
\* what may be one, on the card and in the window.
Slots == 0 .. DirEntries - 1
Live(e) == e.clst # 0 /\ e.name \notin {"dot", "dotdot", "junk", "end"}
Blank(x) == x.kind # "dir" \/ x = ZeroDir
Versions(v, s) == {v.disk[s]} \cup (IF v.fs.winsect = s THEN {v.fs.win} ELSE {})
HeldIn(v, s) ==
  {h \in {[sect |-> s, slot |-> i, e |-> AsDir(x)[i]] : i \in Slots, x \in Versions(v, s)}
     : Live(h.e)}
Held(L, v) == UNION {HeldIn(v, s) : s \in PlainSectors(L)}

\* The links of a FAT lead to clusters in use, no two of them to the same one; at the head
\* of a chain none ends.
CardFat(L, v) == [c \in ClusterSet |-> Card(L, v, c)]
LibFat(L, v) == [c \in ClusterSet |-> Lib(L, v, c)]
Links(f) ==
  /\ \A c \in ClusterSet : /\ f[c] \in {0, EOC} \cup ClusterSet
                           /\ f[c] \in ClusterSet => f[f[c]] # 0
  /\ \A c, d \in ClusterSet : f[c] = f[d] /\ f[c] \in ClusterSet => c = d
IsHead(f, c) == c \in ClusterSet /\ f[c] # 0 /\ \A d \in ClusterSet : f[d] # c
IsRoot(L, c) == L.fs_type = "FAT32" /\ c = 2

\* In each of two FATs, what is held is the head of a chain, and of no other entry.
HeadsIn(L, f, H) ==
  /\ Links(f)
  /\ \A h \in H : IsHead(f, h.e.clst)
  /\ L.fs_type = "FAT32" => IsHead(f, 2)
Apart(L, H) ==
  /\ \A h \in H : ~IsRoot(L, h.e.clst)
  /\ \A h, k \in H : h.e.clst = k.e.clst =>
                       h.sect = k.sect /\ h.slot = k.slot /\ h.e.name = k.e.name
Owned(L, f, g, H) == HeadsIn(L, f, H) /\ HeadsIn(L, g, H) /\ Apart(L, H)

\* The chain of the open file is its own: no entry but its own holds it.
OwnFile(L, f, H, p) ==
  p.sclust # 0 =>
    /\ IsHead(f, p.sclust) /\ ~IsRoot(L, p.sclust)
    /\ \A h \in H : h.e.clst = p.sclust =>
                      h.sect = p.dir_sect /\ h.slot = p.dir_ptr /\ h.e.name = L.name

\* The place of its entry has its name, or what has been cleared or written over.
CardName(v) == AsDir(v.disk[v.fp.dir_sect])[v.fp.dir_ptr].name
LibName(v) == IF v.fs.winsect = v.fp.dir_sect THEN AsDir(v.fs.win)[v.fp.dir_ptr].name
              ELSE CardName(v)
Names(L) == {L.name, "junk", "end"}
NameKept(L, v) ==
  v.fp.open => /\ v.fp.dir_sect \in PlainSectors(L) /\ v.fp.dir_ptr \in Slots
               /\ LibName(v) \in Names(L)
               /\ ~v.fs.wflag => CardName(v) \in Names(L)

\* A clean window behind the FATs has what the card has, but for what was written past it
\* and for a cluster that is being cleared.
Faithful(L, v) ==
  v.fs.winsect \in PlainSectors(L) /\ ~v.fs.wflag =>
    \/ v.fs.win = v.disk[v.fs.winsect] \/ v.disk[v.fs.winsect].kind # "dir"
    \/ v.fs.win = ZeroDir

Linked(L, v) ==
  /\ Owned(L, LibFat(L, v), CardFat(L, v), Held(L, v))
  /\ OwnFile(L, LibFat(L, v), Held(L, v), v.fp)
  /\ NameKept(L, v) /\ Faithful(L, v)

Sound(L, F, v) == Shape(L, v) /\ Contents(L, v) /\ Covered(L, F, v) /\ Linked(L, v)

\* The count in the FATFS object covers what the library has as free.
Free(L, v) == Cardinality(LibFree(L, v))
Counted(L, v) == v.fs.free_clst <= Clusters => v.fs.free_clst >= Free(L, v)

Off(v) == v.fs = Unmounted /\ v.fp = Closed

\* What most operations leave as it is.
SameRest(v, w) ==
  /\ w.fp = v.fp
  /\ w.fs.fs_type = v.fs.fs_type /\ w.fs.volbase = v.fs.volbase
  /\ w.fs.n_fats = v.fs.n_fats
  /\ w.fs.free_clst = v.fs.free_clst /\ w.fs.last_clst = v.fs.last_clst
  /\ w.fs.fsi_flag = v.fs.fsi_flag
Same(L, v, w) ==
  /\ SameRest(v, w)
  /\ \A c \in ClusterSet : Lib(L, w, c) = Lib(L, v, c)
  /\ Held(L, w) \subseteq Held(L, v)

\* The results of an operation that reads or writes back.
Quiet(L, F, v, r) ==
  /\ Sound(L, F, r.v)
  /\ IF r.res = "cut" THEN Off(r.v) ELSE Same(L, v, r.v)

\* What two calls leave alone, one after the other leaves alone.
LEMMA SameTrans ==
  ASSUME NEW L, NEW u, NEW v, NEW w, Same(L, u, v), Same(L, v, w)
  PROVE  Same(L, u, w)
BY DEF Same, SameRest

\* The volume stays mounted.
LEMMA SameMounted ==
  ASSUME NEW L, NEW v, NEW w, Same(L, v, w), Mounted(L, v.fs)
  PROVE  Mounted(L, w.fs)
BY DEF Same, SameRest, Mounted

\* The count in the FATFS object still covers what is free.
LEMMA SameCounted ==
  ASSUME NEW L, NEW v, NEW w, Same(L, v, w), Counted(L, v)
  PROVE  Counted(L, w)
<1>1. LibFree(L, w) = LibFree(L, v)
  BY DEF Same, SameRest, LibFree
<1> QED
  BY <1>1 DEF Counted, Free, Same, SameRest

\* Nothing but old entries in new places.
LEMMA CoveredFrom ==
  ASSUME NEW L, NEW F, NEW v, NEW w, Covered(L, F, v),
         InfoFree(L, w) = InfoFree(L, v),
         \A c \in ClusterSet : /\ Card(L, w, c) \in {Card(L, v, c), Lib(L, v, c)}
                               /\ Lib(L, w, c) \in {Card(L, v, c), Lib(L, v, c)}
  PROVE  Covered(L, F, w)
BY DEF Covered

\* What is held, member by member.
LEMMA HeldIs ==
  ASSUME NEW L, NEW v
  PROVE  /\ \A h \in Held(L, v) :
              /\ h.sect \in PlainSectors(L) /\ h.slot \in Slots /\ Live(h.e)
              /\ \E x \in Versions(v, h.sect) : h.e = AsDir(x)[h.slot]
              /\ h = [sect |-> h.sect, slot |-> h.slot, e |-> h.e]
         /\ \A s \in PlainSectors(L), i \in Slots : \A x \in Versions(v, s) :
              Live(AsDir(x)[i]) =>
                [sect |-> s, slot |-> i, e |-> AsDir(x)[i]] \in Held(L, v)
<1>1. ASSUME NEW h \in Held(L, v)
      PROVE  /\ h.sect \in PlainSectors(L) /\ h.slot \in Slots /\ Live(h.e)
             /\ \E x \in Versions(v, h.sect) : h.e = AsDir(x)[h.slot]
             /\ h = [sect |-> h.sect, slot |-> h.slot, e |-> h.e]
  <2>1. PICK s \in PlainSectors(L) : h \in HeldIn(v, s)
    BY DEF Held
  <2>2. Live(h.e) /\ \E i \in Slots : \E x \in Versions(v, s) :
          h = [sect |-> s, slot |-> i, e |-> AsDir(x)[i]]
    BY <2>1 DEF HeldIn
  <2> QED
    BY <2>1, <2>2
<1>2. ASSUME NEW s \in PlainSectors(L), NEW i \in Slots, NEW x \in Versions(v, s),
             Live(AsDir(x)[i])
      PROVE  [sect |-> s, slot |-> i, e |-> AsDir(x)[i]] \in Held(L, v)
  <2>1. [sect |-> s, slot |-> i, e |-> AsDir(x)[i]] \in HeldIn(v, s)
    BY <1>2 DEF HeldIn
  <2> QED
    BY <2>1 DEF Held
<1> QED
  BY <1>1, <1>2

\* A blank sector has no entry.
LEMMA BlankHasNone ==
  ASSUME NEW x, Blank(x), NEW i \in Slots
  PROVE  ~Live(AsDir(x)[i]) /\ AsDir(x)[i].name \in {"junk", "end"}
<1>1. CASE x.kind # "dir"
  BY <1>1 DEF AsDir, Live, Slots, FreeEntry
<1>2. CASE x = ZeroDir
  BY <1>2 DEF AsDir, Live, Slots, ZeroDir, FreeEntry
<1> QED
  BY <1>1, <1>2 DEF Blank

\* Nothing more is held when nothing but blank sectors is new.
LEMMA HeldShrinks ==
  ASSUME NEW L, NEW v, NEW w,
         \A s \in PlainSectors(L) :
           \A x \in Versions(w, s) : x \in Versions(v, s) \/ Blank(x)
  PROVE  Held(L, w) \subseteq Held(L, v)
<1>1. ASSUME NEW h \in Held(L, w)
      PROVE  h \in Held(L, v)
  <2>1. /\ h.sect \in PlainSectors(L) /\ h.slot \in Slots /\ Live(h.e)
        /\ h = [sect |-> h.sect, slot |-> h.slot, e |-> h.e]
    BY HeldIs
  <2>2. PICK x \in Versions(w, h.sect) : h.e = AsDir(x)[h.slot]
    BY HeldIs
  <2>3. x \in Versions(v, h.sect)
    BY <2>1, <2>2, BlankHasNone
  <2> QED
    BY <2>1, <2>2, <2>3, HeldIs
<1> QED
  BY <1>1

\* FATs that were there before, and nothing more that is held.
LEMMA OwnedFrom ==
  ASSUME NEW L, NEW f, NEW g, NEW H, Owned(L, f, g, H),
         NEW f1 \in {f, g}, NEW g1 \in {f, g}, NEW K \in SUBSET H
  PROVE  Owned(L, f1, g1, K)
<1>1. HeadsIn(L, f, K) /\ HeadsIn(L, g, K) /\ Apart(L, K)
  BY DEF Owned, HeadsIn, Apart
<1> QED
  BY <1>1 DEF Owned

\* FATs that were there before, and nothing new that is held, keep the links.
LEMMA LinkedFrom ==
  ASSUME NEW L, NEW v, NEW w, Linked(L, v), LibFat(L, w) = LibFat(L, v),
         CardFat(L, w) \in {CardFat(L, v), LibFat(L, v)}, Held(L, w) \subseteq Held(L, v),
         w.fp = v.fp, NameKept(L, w), Faithful(L, w)
  PROVE  Linked(L, w)
<1>1. Owned(L, LibFat(L, w), CardFat(L, w), Held(L, w))
  BY OwnedFrom DEF Linked
<1>2. OwnFile(L, LibFat(L, w), Held(L, w), w.fp)
  BY DEF Linked, OwnFile
<1> QED
  BY <1>1, <1>2 DEF Linked

--------------------------------------------------------------------------------
\* The disk calls.

\* What is written behind the FATs: what the window has, or what holds nothing.
MayPlace(L, v, s, x) ==
  s \in PlainSectors(L) => \/ s = v.fs.winsect /\ x = v.fs.win
                           \/ x.kind # "dir"
                           \/ x = ZeroDir /\ s # v.fs.winsect

\* A sector written keeps the links when it is one the library may place there.
LEMMA PlacedLinked ==
  ASSUME NEW L \in Geometries, NEW v, NEW w, NEW s \in Sectors(L), NEW x, Linked(L, v),
         MayPlace(L, v, s, x), LibFat(L, w) = LibFat(L, v),
         CardFat(L, w) \in {CardFat(L, v), LibFat(L, v)},
         w.fs = v.fs, w.fp = v.fp, w.disk[s] = x,
         \A t \in Sectors(L) : t # s => w.disk[t] = v.disk[t]
  PROVE  Linked(L, w) /\ Held(L, w) \subseteq Held(L, v)
<1>1. PlainSectors(L) \subseteq Sectors(L)
  BY Regions
<1>2. Held(L, w) \subseteq Held(L, v)
  <2>1. ASSUME NEW t \in PlainSectors(L), NEW y \in Versions(w, t)
        PROVE  y \in Versions(v, t) \/ Blank(y)
    BY <1>1 DEF Versions, MayPlace, Blank
  <2> QED
    BY <2>1, HeldShrinks
<1>3. Faithful(L, w)
  BY <1>1 DEF Linked, Faithful, MayPlace
<1>4. NameKept(L, w)
  <2>1. SUFFICES ASSUME v.fp.open
                 PROVE  NameKept(L, w)
    BY DEF NameKept
  <2>2. /\ v.fp.dir_sect \in PlainSectors(L) /\ v.fp.dir_ptr \in Slots
        /\ LibName(v) \in Names(L) /\ (~v.fs.wflag => CardName(v) \in Names(L))
    BY <2>1 DEF Linked, NameKept
  <2>3. CASE s # v.fp.dir_sect
    BY <1>1, <2>2, <2>3 DEF NameKept, LibName, CardName
  <2>4. CASE s = v.fp.dir_sect /\ s = v.fs.winsect /\ x = v.fs.win
    BY <2>2, <2>4 DEF NameKept, LibName, CardName
  <2>5. CASE s = v.fp.dir_sect /\ Blank(x)
    <3>1. CardName(w) \in {"junk", "end"}
      BY <2>2, <2>5, BlankHasNone DEF CardName
    <3> QED
      BY <2>2, <2>5, <3>1 DEF NameKept, LibName, Names
  <2> QED
    BY <2>2, <2>3, <2>4, <2>5 DEF MayPlace, Blank
<1> QED
  BY <1>2, <1>3, <1>4, LinkedFrom

\* A sector behind the FATs, a copy of the FAT, or what the window has of the first FAT.
LEMMA WriteSound ==
  ASSUME NEW L \in Geometries, NEW F, NEW v, Sound(L, F, v),
         NEW s \in Sectors(L), s >= fatbase(L), NEW x, Fits(L, s, x),
         s \in FirstFat(L) => s = v.fs.winsect /\ x = v.fs.win,
         MayPlace(L, v, s, x)
  PROVE  LET new == [v EXCEPT !.disk[s] = x]
         IN  /\ Sound(L, F, new) /\ Same(L, v, new)
             /\ new.fs = v.fs /\ new.fp = v.fp
             /\ new.disk = [v.disk EXCEPT ![s] = x]
<1> DEFINE new == [v EXCEPT !.disk[s] = x]
<1>1. /\ new.fs = v.fs /\ new.fp = v.fp /\ new.disk = [v.disk EXCEPT ![s] = x]
      /\ Shape(L, new)
  BY DEF Sound, Shape, IsVolume
<1> HIDE DEF new
<1>2. /\ new.disk[s] = x
      /\ \A t \in Sectors(L) : t # s => new.disk[t] = v.disk[t]
  BY <1>1 DEF Sound, Shape, IsVolume
<1>3. Contents(L, new)
  BY <1>1, <1>2, Regions DEF Sound, Contents
<1>4. ASSUME NEW c \in ClusterSet
      PROVE  /\ Card(L, new, c) \in {Card(L, v, c), Lib(L, v, c)}
             /\ Lib(L, new, c) = Lib(L, v, c)
  <2>1. FatSect(L, c) \in FirstFat(L) /\ FatSect(L, c) \in Sectors(L)
    BY FatSects, Regions
  <2>2. CASE FatSect(L, c) = s
    BY <1>1, <1>2, <2>1, <2>2 DEF Card, Lib
  <2>3. CASE FatSect(L, c) # s
    BY <1>1, <1>2, <2>1, <2>3 DEF Card, Lib
  <2> QED
    BY <2>2, <2>3
<1>5. InfoFree(L, new) = InfoFree(L, v)
  <2>1. L.volbase + 1 \in Sectors(L) /\ L.volbase + 1 # s
    BY Places, Regions
  <2> QED
    BY <1>2, <2>1 DEF InfoFree
<1>6. Covered(L, F, new)
  BY <1>4, <1>5, CoveredFrom DEF Sound
<1>8. Linked(L, new) /\ Held(L, new) \subseteq Held(L, v)
  <2>1. LibFat(L, new) = LibFat(L, v)
    BY <1>4 DEF LibFat
  <2>2. CardFat(L, new) \in {CardFat(L, v), LibFat(L, v)}
    <3>1. CASE s \in FirstFat(L)
      <4>1. ASSUME NEW c \in ClusterSet
            PROVE  Card(L, new, c) = Lib(L, v, c)
        <5>1. FatSect(L, c) \in Sectors(L)
          BY FatSects, Regions
        <5> QED
          BY <1>2, <3>1, <5>1 DEF Card, Lib
      <4> QED
        BY <4>1 DEF CardFat, LibFat
    <3>2. CASE s \notin FirstFat(L)
      <4>1. ASSUME NEW c \in ClusterSet
            PROVE  Card(L, new, c) = Card(L, v, c)
        <5>1. FatSect(L, c) \in Sectors(L) /\ FatSect(L, c) # s
          BY <3>2, FatSects, Regions
        <5> QED
          BY <1>2, <5>1 DEF Card
      <4> QED
        BY <4>1 DEF CardFat
    <3> QED
      BY <3>1, <3>2
  <2> QED
    BY <1>1, <1>2, <2>1, <2>2, PlacedLinked DEF Sound
<1>7. Same(L, v, new)
  BY <1>1, <1>4, <1>8 DEF Same, SameRest
<1> QED
  BY <1>1, <1>3, <1>6, <1>7, <1>8 DEF Sound, new

\* A call of the driver that fails changes neither card nor RAM.
LEMMA FaultySound ==
  ASSUME NEW L \in Geometries, NEW F, NEW v, Sound(L, F, v), NEW u \in Faulty(v)
  PROVE  /\ Sound(L, F, u) /\ Same(L, v, u)
         /\ u.disk = v.disk /\ u.fs = v.fs /\ u.fp = v.fp
<1>1. u = [v EXCEPT !.faults = @ + 1] /\ v.faults < MaxFaults
  BY DEF Faulty
<1>2. v.faults + 1 \in 0 .. MaxFaults
  BY <1>1, Constants DEF Sound, Shape, IsVolume
<1>3. Shape(L, u) /\ u.disk = v.disk /\ u.fs = v.fs /\ u.fp = v.fp
  BY <1>1, <1>2 DEF Sound, Shape, IsVolume
<1>4. Contents(L, u)
  BY <1>3 DEF Sound, Contents
<1>5. Covered(L, F, u)
  BY <1>3 DEF Sound, Covered, Card, Lib, InfoFree
<1>7. Held(L, u) = Held(L, v)
  BY <1>3 DEF Held, HeldIn, Versions
<1>6. Same(L, v, u)
  BY <1>3, <1>7 DEF Same, SameRest, Lib, Card
<1>8. Linked(L, u)
  <2>1. LibFat(L, u) = LibFat(L, v) /\ CardFat(L, u) = CardFat(L, v)
    BY <1>3 DEF LibFat, CardFat, Lib, Card
  <2>2. NameKept(L, u) /\ Faithful(L, u)
    BY <1>3 DEF Sound, Linked, NameKept, LibName, CardName, Faithful
  <2> QED
    BY <1>3, <1>7, <2>1, <2>2, LinkedFrom DEF Sound
<1> QED
  BY <1>3, <1>4, <1>5, <1>6, <1>8 DEF Sound

\* FATFS and FIL objects that are not in use.
LEMMA OffSound ==
  ASSUME NEW L \in Geometries, NEW F, NEW v, Sound(L, F, v),
         NEW u, Off(u), u.disk = v.disk,
         IsVolume(u)
  PROVE  Sound(L, F, u)
<1>1. u.fs.fs_type = "none" /\ u.fs.winsect = NoSector /\ u.fs.wflag = FALSE
  BY DEF Off, Unmounted
<1>2. Shape(L, u)
  <2>1. IsFatFs(L, u.fs)
    BY Constants DEF Off, Unmounted, IsFatFs
  <2>2. u.disk = [s \in Sectors(L) |-> u.disk[s]]
    BY DEF Sound, Shape, IsVolume
  <2> QED
    BY <2>1, <2>2 DEF Shape
<1>3. Contents(L, u)
  BY <1>1, Regions DEF Sound, Contents
<1>4. \A c \in ClusterSet : Card(L, u, c) = Card(L, v, c) /\ Lib(L, u, c) = Card(L, v, c)
  BY <1>1, FatSects, Regions DEF Card, Lib
<1>5. Covered(L, F, u)
  BY <1>4, CoveredFrom DEF Sound, InfoFree
<1>6. Linked(L, u)
  <2>1. LibFat(L, u) = CardFat(L, v) /\ CardFat(L, u) = CardFat(L, v)
    BY <1>4 DEF LibFat, CardFat
  <2>2. Held(L, u) \subseteq Held(L, v)
    <3>1. \A s \in PlainSectors(L) : \A x \in Versions(u, s) : x \in Versions(v, s)
      BY <1>1, Regions DEF Versions
    <3> QED
      BY <3>1, HeldShrinks
  <2>3. u.fp.sclust = 0 /\ ~u.fp.open
    BY DEF Off, Closed
  <2>4. Owned(L, LibFat(L, u), CardFat(L, u), Held(L, u))
    BY <2>1, <2>2, OwnedFrom DEF Sound, Linked
  <2> QED
    BY <1>1, <2>3, <2>4, Regions DEF Linked, OwnFile, NameKept, Faithful
<1> QED
  BY <1>2, <1>3, <1>5, <1>6 DEF Sound

\* A loss of power leaves a sound volume with nothing in RAM.
LEMMA CutSound ==
  ASSUME NEW L \in Geometries, NEW F, NEW v, Sound(L, F, v), NEW u \in Cuts(v)
  PROVE  Sound(L, F, u) /\ Off(u) /\ u.disk = v.disk
<1>1. /\ u = [v EXCEPT !.fs = Unmounted, !.fp = Closed, !.resets = @ + 1]
      /\ v.resets < MaxResets
  BY DEF Cuts, PowerOff
<1>2. v.resets + 1 \in 0 .. MaxResets
  BY <1>1, Constants DEF Sound, Shape, IsVolume
<1>3. /\ u.disk = v.disk /\ Off(u)
      /\ IsVolume(u)
  BY <1>1, <1>2 DEF Sound, Shape, IsVolume, Off
<1> QED
  BY <1>3, OffSound

\* What the library writes where.
MayWrite(L, v, s, x) ==
  /\ s \in Sectors(L) /\ s >= fatbase(L) /\ Fits(L, s, x)
  /\ s \in FirstFat(L) => s = v.fs.winsect /\ x = v.fs.win
  /\ MayPlace(L, v, s, x)

Written(L, F, v, s, x, r) ==
  /\ Quiet(L, F, v, r) /\ r.res # "again"
  /\ r.res # "cut" => r.v.fs = v.fs /\ r.v.fp = v.fp
  /\ r.res = "FR_OK" => r.v.disk = [v.disk EXCEPT ![s] = x]

\* disk_write of what may be written keeps the volume sound, or fails.
LEMMA WriteQuiet ==
  ASSUME NEW L \in Geometries, NEW F, NEW v, NEW s, NEW x,
         Sound(L, F, v), MayWrite(L, v, s, x)
  PROVE  \A r \in disk_write(v, s, x) : Written(L, F, v, s, x, r)
<1> DEFINE new == [v EXCEPT !.disk[s] = x]
<1>1. /\ Sound(L, F, new) /\ Same(L, v, new) /\ new.fs = v.fs /\ new.fp = v.fp
      /\ new.disk = [v.disk EXCEPT ![s] = x]
  BY WriteSound DEF MayWrite
<1>2. ASSUME NEW r \in disk_write(v, s, x)
      PROVE  \/ r.v = new /\ r.res = "FR_OK"
             \/ r.v \in Faulty(v) \cup Faulty(new) /\ r.res = "FR_DISK_ERR"
             \/ r.v \in Cuts(v) \cup Cuts(new) /\ r.res = "cut"
  BY <1>2 DEF disk_write, Return, Fails
<1> HIDE DEF new
<1>3. \A u \in Faulty(v) \cup Faulty(new) :
        Sound(L, F, u) /\ Same(L, v, u) /\ u.fs = v.fs /\ u.fp = v.fp
  BY <1>1, FaultySound, SameTrans
<1>4. \A u \in Cuts(v) \cup Cuts(new) : Sound(L, F, u) /\ Off(u)
  BY <1>1, CutSound
<1> QED
  BY <1>1, <1>2, <1>3, <1>4 DEF Quiet, Written

\* disk_read changes nothing; what it returns belongs to its sector.
LEMMA ReadQuiet ==
  ASSUME NEW L \in Geometries, NEW F, NEW v, Sound(L, F, v), NEW s \in Sectors(L)
  PROVE  \A r \in disk_read(v, s) :
           /\ Quiet(L, F, v, r) /\ r.res \notin {"cut", "again"}
           /\ r.v.disk = v.disk /\ r.v.fs = v.fs /\ r.v.fp = v.fp
           /\ r.res = "FR_OK" => r.val = v.disk[s] /\ Fits(L, s, r.val)
<1>1. ASSUME NEW r \in disk_read(v, s)
      PROVE  \/ r.v = v /\ r.res = "FR_OK" /\ r.val = v.disk[s]
             \/ r.v \in Faulty(v) /\ r.res = "FR_DISK_ERR"
  BY <1>1 DEF disk_read, Return, Fails
<1>2. Fits(L, s, v.disk[s])
  BY DEF Sound, Contents
<1>3. Same(L, v, v)
  BY DEF Same, SameRest
<1> QED
  BY <1>1, <1>2, <1>3, FaultySound DEF Quiet

--------------------------------------------------------------------------------
\* The sector window.

\* A change of the FATFS object alone.
LEMMA FsSound ==
  ASSUME NEW L \in Geometries, NEW F, NEW v, Sound(L, F, v),
         NEW w, IsVolume(w), w.disk = v.disk, w.fp = v.fp, IsFatFs(L, w.fs),
         w.fs.winsect # NoSector => Fits(L, w.fs.winsect, w.fs.win),
         w.fs.wflag => w.fs.winsect >= fatbase(L) /\ Mounted(L, w.fs),
         w.fs.winsect \in FirstFat(L) /\ ~w.fs.wflag =>
           w.fs.win = v.disk[w.fs.winsect],
         \A c \in ClusterSet : Lib(L, w, c) \in {Card(L, v, c), Lib(L, v, c)},
         Linked(L, w)
  PROVE  Sound(L, F, w)
<1>1. Shape(L, w)
  BY DEF Sound, Shape
<1>2. Contents(L, w)
  BY DEF Sound, Contents
<1>3. \A c \in ClusterSet : Card(L, w, c) = Card(L, v, c)
  BY DEF Card
<1>4. Covered(L, F, w)
  BY <1>3, CoveredFrom DEF Sound, InfoFree
<1> QED
  BY <1>1, <1>2, <1>4 DEF Sound

\* The same window, or one that is clean now because the card has what it has.
LEMMA SameWindowLinked ==
  ASSUME NEW L, NEW v, NEW w, Linked(L, v), w.disk = v.disk, w.fp = v.fp,
         w.fs.winsect = v.fs.winsect, w.fs.win = v.fs.win,
         \/ w.fs.wflag = v.fs.wflag
         \/ w.fs.winsect \in PlainSectors(L) => v.disk[v.fs.winsect] = v.fs.win
  PROVE  Linked(L, w) /\ Held(L, w) = Held(L, v)
<1>1. LibFat(L, w) = LibFat(L, v) /\ CardFat(L, w) = CardFat(L, v)
  BY DEF LibFat, CardFat, Lib, Card
<1>2. Held(L, w) = Held(L, v)
  BY DEF Held, HeldIn, Versions
<1>3. Faithful(L, w)
  BY DEF Linked, Faithful
<1>4. NameKept(L, w)
  BY DEF Linked, NameKept, LibName, CardName
<1> QED
  BY <1>1, <1>2, <1>3, <1>4, LinkedFrom

\* A clean window elsewhere.
LEMMA NewWindowLinked ==
  ASSUME NEW L, NEW v, NEW w, Linked(L, v), w.disk = v.disk, w.fp = v.fp,
         ~v.fs.wflag, ~w.fs.wflag,
         w.fs.winsect \in PlainSectors(L) => w.fs.win \in {v.disk[w.fs.winsect], ZeroDir},
         \A c \in ClusterSet : Lib(L, w, c) = Lib(L, v, c)
  PROVE  Linked(L, w) /\ Held(L, w) \subseteq Held(L, v)
<1>1. LibFat(L, w) = LibFat(L, v) /\ CardFat(L, w) = CardFat(L, v)
  BY DEF LibFat, CardFat, Card
<1>2. Held(L, w) \subseteq Held(L, v)
  <2>1. ASSUME NEW s \in PlainSectors(L), NEW x \in Versions(w, s)
        PROVE  x \in Versions(v, s) \/ Blank(x)
    BY DEF Versions, Blank
  <2> QED
    BY <2>1, HeldShrinks
<1>3. Faithful(L, w)
  BY DEF Faithful
<1>4. NameKept(L, w)
  <2>1. SUFFICES ASSUME v.fp.open
                 PROVE  NameKept(L, w)
    BY DEF NameKept
  <2>2. /\ v.fp.dir_sect \in PlainSectors(L) /\ v.fp.dir_ptr \in Slots
        /\ CardName(v) \in Names(L) /\ CardName(w) = CardName(v)
    BY <2>1 DEF Linked, NameKept, CardName
  <2>3. CASE w.fs.winsect = v.fp.dir_sect /\ w.fs.win = ZeroDir
    <3>1. LibName(w) \in {"junk", "end"}
      BY <2>2, <2>3, BlankHasNone DEF LibName, Blank
    <3> QED
      BY <2>2, <3>1 DEF NameKept, Names
  <2>4. CASE w.fs.winsect # v.fp.dir_sect \/ w.fs.win = v.disk[w.fs.winsect]
    <3>1. LibName(w) = CardName(v)
      BY <2>2, <2>4 DEF LibName, CardName
    <3> QED
      BY <2>2, <3>1 DEF NameKept
  <2> QED
    BY <2>2, <2>3, <2>4
<1> QED
  BY <1>1, <1>2, <1>3, <1>4, LinkedFrom

\* With a clean window the library has what the card has.
LEMMA CleanLib ==
  ASSUME NEW L \in Geometries, NEW F, NEW v, Sound(L, F, v), ~v.fs.wflag
  PROVE  \A c \in ClusterSet : Lib(L, v, c) = Card(L, v, c)
BY FatSects DEF Sound, Contents, Lib, Card

Clean(v) == [v EXCEPT !.fs.wflag = FALSE]

\* The window may be marked clean when the card has what it has.
LEMMA CleanSound ==
  ASSUME NEW L \in Geometries, NEW F, NEW v, Sound(L, F, v),
         v.disk[v.fs.winsect] = v.fs.win
  PROVE  /\ Sound(L, F, Clean(v)) /\ Same(L, v, Clean(v)) /\ Clean(v).disk = v.disk
         /\ Clean(v).fs.wflag = FALSE
         /\ Clean(v).fs.winsect = v.fs.winsect /\ Clean(v).fs.win = v.fs.win
<1> DEFINE clean == Clean(v)
<1>0. /\ IsVolume(clean) /\ clean.disk = v.disk /\ clean.fp = v.fp
      /\ clean.fs = [v.fs EXCEPT !.wflag = FALSE]
  BY DEF Sound, Shape, IsVolume, Clean
<1> HIDE DEF clean
<1>1. /\ IsFatFs(L, clean.fs) /\ clean.fs.wflag = FALSE
      /\ clean.fs.winsect = v.fs.winsect /\ clean.fs.win = v.fs.win
      /\ clean.fs.fs_type = v.fs.fs_type /\ clean.fs.volbase = v.fs.volbase
      /\ clean.fs.n_fats = v.fs.n_fats /\ clean.fs.free_clst = v.fs.free_clst
      /\ clean.fs.last_clst = v.fs.last_clst /\ clean.fs.fsi_flag = v.fs.fsi_flag
  BY <1>0 DEF Sound, Shape, IsFatFs
<1>2. \A c \in ClusterSet : Lib(L, clean, c) = Lib(L, v, c)
  BY <1>0, <1>1 DEF Lib, Card
<1>3. clean.fs.winsect # NoSector => Fits(L, clean.fs.winsect, clean.fs.win)
  BY <1>1 DEF Sound, Contents
<1>6. Linked(L, clean) /\ Held(L, clean) = Held(L, v)
  BY <1>0, <1>1, SameWindowLinked DEF Sound
<1>4. Sound(L, F, clean)
  BY <1>0, <1>1, <1>2, <1>3, <1>6, FsSound
<1>5. Same(L, v, clean)
  BY <1>0, <1>1, <1>2, <1>6 DEF Same, SameRest
<1> QED
  BY <1>0, <1>1, <1>4, <1>5 DEF clean

\* A clean window may move to any sector with what that sector has.
LEMMA WindowSound ==
  ASSUME NEW L \in Geometries, NEW F, NEW v, Sound(L, F, v), ~v.fs.wflag,
         NEW s \in Sectors(L) \cup {NoSector}, NEW data,
         s # NoSector => Fits(L, s, data),
         s \in FirstFat(L) => data = v.disk[s],
         s \in PlainSectors(L) => data \in {v.disk[s], ZeroDir}
  PROVE  LET w == Window(v, s, data)
         IN  /\ Sound(L, F, w) /\ Same(L, v, w) /\ w.disk = v.disk
             /\ w.fs.winsect = s /\ w.fs.win = data /\ ~w.fs.wflag
<1> DEFINE w == Window(v, s, data)
<1>1. /\ w.disk = v.disk /\ w.fp = v.fp
      /\ w.fs = [v.fs EXCEPT !.winsect = s, !.win = data]
      /\ IsVolume(w)
  BY DEF Sound, Shape, IsVolume, Window
<1> HIDE DEF w
<1>2. /\ IsFatFs(L, w.fs) /\ w.fs.wflag = v.fs.wflag
      /\ w.fs.winsect = s /\ w.fs.win = data
      /\ w.fs.fs_type = v.fs.fs_type /\ w.fs.volbase = v.fs.volbase
      /\ w.fs.n_fats = v.fs.n_fats /\ w.fs.free_clst = v.fs.free_clst
      /\ w.fs.last_clst = v.fs.last_clst /\ w.fs.fsi_flag = v.fs.fsi_flag
  BY <1>1 DEF Sound, Shape, IsFatFs
<1>3. \A c \in ClusterSet : Lib(L, w, c) = Lib(L, v, c)
  <2>1. \A c \in ClusterSet : Lib(L, w, c) = Card(L, v, c)
    BY <1>1, <1>2, FatSects DEF Lib, Card
  <2> QED
    BY <2>1, CleanLib
<1>6. Linked(L, w) /\ Held(L, w) \subseteq Held(L, v)
  BY <1>1, <1>2, <1>3, NewWindowLinked DEF Sound
<1>4. Sound(L, F, w)
  BY <1>1, <1>2, <1>3, <1>6, FsSound
<1>5. Same(L, v, w)
  BY <1>1, <1>2, <1>3, <1>6 DEF Same, SameRest
<1> QED
  BY <1>1, <1>2, <1>4, <1>5 DEF w

\* The copy of a sector of the FAT.
LEMMA CopyQuiet ==
  ASSUME NEW L \in Geometries, NEW F, NEW v, Sound(L, F, v), L.n_fats = 2,
         NEW s \in FirstFat(L), NEW x, Fits(L, s, x)
  PROVE  \A r \in disk_write(v, s + fsize, x) :
           Quiet(L, F, v, r) /\ r.res # "again" /\ (r.res # "cut" => r.v.fs = v.fs)
<1>1. /\ s + fsize \in Sectors(L) /\ s + fsize >= fatbase(L)
      /\ s + fsize \notin FirstFat(L)
      /\ s >= fatbase(L) /\ s < PlainStart(L) /\ s + fsize < PlainStart(L)
  BY Regions
<1>2. /\ L.volbase \in Nat /\ fatbase(L) = L.volbase + 2
      /\ s \in Nat /\ s + fsize \in Nat /\ PlainStart(L) \in Nat
  BY <1>1, Places, Regions
<1>3. Fits(L, s + fsize, x)
  BY <1>1, <1>2 DEF Fits
<1>4. MayWrite(L, v, s + fsize, x)
  <2>1. s + fsize \notin PlainSectors(L)
    BY <1>1, <1>2 DEF PlainSectors
  <2> QED
    BY <1>1, <1>3, <2>1 DEF MayWrite, MayPlace
<1>5. \A r \in disk_write(v, s + fsize, x) : Written(L, F, v, s + fsize, x, r)
  BY <1>4, WriteQuiet
<1> QED
  BY <1>5 DEF Written

\* sync_window.
LEMMA SyncWindowQuiet ==
  ASSUME NEW L \in Geometries, NEW F, NEW v, Sound(L, F, v)
  PROVE  \A r \in sync_window(v) :
           /\ Quiet(L, F, v, r) /\ r.res # "again"
           /\ r.res = "FR_OK" => /\ ~r.v.fs.wflag
                                 /\ r.v.fs.winsect = v.fs.winsect
                                 /\ r.v.fs.win = v.fs.win
<1> TAKE r \in sync_window(v)
<1>0. Same(L, v, v)
  BY DEF Same, SameRest
<1>1. CASE ~v.fs.wflag
  <2>1. r.v = v /\ r.res = "FR_OK"
    BY <1>1 DEF sync_window, Return, Then, Regardless
  <2> QED
    BY <1>0, <1>1, <2>1 DEF Quiet
<1>2. CASE v.fs.wflag
  <2> DEFINE s == v.fs.winsect
             x == v.fs.win
             Copy(u) == UNION {IF y.res = "cut" THEN {y} ELSE Return(y.v, 0)
                               : y \in disk_write(Clean(u), s + fsize, x)}
  <2>1. /\ s \in Sectors(L) /\ s >= fatbase(L) /\ Fits(L, s, x)
        /\ v.fs.n_fats = L.n_fats /\ fatbase(v.fs) = fatbase(L)
    <3>1. s >= fatbase(L) /\ Mounted(L, v.fs) /\ s \in Sectors(L) \cup {NoSector}
      BY <1>2 DEF Sound, Contents, Shape, IsFatFs
    <3>2. s # NoSector
      BY <3>1, Places DEF NoSector
    <3> QED
      BY <3>1, <3>2 DEF Sound, Contents, Mounted, fatbase
  <2>2. PICK q \in disk_write(v, s, x) :
          r \in IF q.res = "FR_OK"
                THEN IF InFirstFat(v.fs, s) /\ v.fs.n_fats = 2 THEN Copy(q.v)
                     ELSE Return(Clean(q.v), 0)
                ELSE {q}
    <3>1. r \in UNION {IF q.res = "FR_OK"
                      THEN IF InFirstFat(v.fs, s) /\ v.fs.n_fats = 2 THEN Copy(q.v)
                           ELSE Return(Clean(q.v), 0)
                      ELSE {q} : q \in disk_write(v, s, x)}
      BY <1>2 DEF sync_window, Then, Regardless, Clean
    <3> QED
      BY <3>1
  <2>0. \A u : Copy(u) = UNION {IF y.res = "cut" THEN {y} ELSE Return(y.v, 0)
                               : y \in disk_write(Clean(u), s + fsize, x)}
    OBVIOUS
  <2> HIDE DEF Copy
  <2>3. /\ Quiet(L, F, v, q) /\ q.res # "again"
        /\ q.res # "cut" => q.v.fs = v.fs /\ q.v.fp = v.fp
        /\ q.res = "FR_OK" => q.v.disk = [v.disk EXCEPT ![s] = x]
    <3>1. MayWrite(L, v, s, x)
      BY <2>1 DEF MayWrite, MayPlace
    <3>2. Written(L, F, v, s, x, q)
      BY <3>1, WriteQuiet
    <3> QED
      BY <3>2 DEF Written
  <2>4. CASE q.res # "FR_OK"
    BY <2>2, <2>3, <2>4 DEF Quiet
  <2>5. CASE q.res = "FR_OK"
    <3>1. q.v.disk[s] = x /\ q.v.fs = v.fs /\ Sound(L, F, q.v) /\ Same(L, v, q.v)
      BY <2>1, <2>3, <2>5 DEF Quiet, Sound, Shape
    <3>2. /\ Sound(L, F, Clean(q.v)) /\ Same(L, q.v, Clean(q.v))
          /\ Clean(q.v).fs.wflag = FALSE
          /\ Clean(q.v).fs.winsect = s /\ Clean(q.v).fs.win = x
      <4>1. Sound(L, F, q.v) /\ q.v.disk[q.v.fs.winsect] = q.v.fs.win
        BY <3>1
      <4>2. q.v.fs.winsect = s /\ q.v.fs.win = x
        BY <3>1
      <4> QED
        BY <4>1, <4>2, CleanSound
    <3>3. CASE ~(InFirstFat(v.fs, s) /\ v.fs.n_fats = 2)
      <4>1. r.v = Clean(q.v) /\ r.res = "FR_OK"
        BY <2>2, <2>5, <3>3 DEF Return
      <4> QED
        BY <3>1, <3>2, <4>1, SameTrans DEF Quiet
    <3>4. CASE InFirstFat(v.fs, s) /\ v.fs.n_fats = 2
      <4>1. PICK y \in disk_write(Clean(q.v), s + fsize, x) :
              r \in IF y.res = "cut" THEN {y} ELSE Return(y.v, 0)
        <5>1. r \in Copy(q.v)
          BY <2>2, <2>5, <3>4
        <5> QED
          BY <2>0, <5>1
      <4>2. s \in FirstFat(L) /\ L.n_fats = 2 /\ Fits(L, s, x)
        BY <2>1, <3>4, Regions DEF InFirstFat, Sectors
      <4>3. Sound(L, F, Clean(q.v))
        BY <3>2
      <4>4. /\ Quiet(L, F, Clean(q.v), y) /\ y.res # "again"
            /\ y.res # "cut" => y.v.fs = Clean(q.v).fs
        <5>1. \A z \in disk_write(Clean(q.v), s + fsize, x) :
                /\ Quiet(L, F, Clean(q.v), z) /\ z.res # "again"
                /\ z.res # "cut" => z.v.fs = Clean(q.v).fs
          BY <4>2, <4>3, CopyQuiet
        <5> QED
          BY <5>1
      <4>5. CASE y.res = "cut"
        BY <4>1, <4>4, <4>5 DEF Quiet
      <4>6. CASE y.res # "cut"
        <5>1. r.v = y.v /\ r.res = "FR_OK"
          BY <4>1, <4>6 DEF Return
        <5> QED
          BY <3>1, <3>2, <4>4, <4>6, <5>1, SameTrans DEF Quiet
      <4> QED
        BY <4>5, <4>6
    <3> QED
      BY <3>3, <3>4
  <2> QED
    BY <2>4, <2>5
<1> QED
  BY <1>1, <1>2

\* move_window: the window gets the sector, or nothing.
Moved(L, F, v, s, r) ==
  /\ Quiet(L, F, v, r) /\ r.res # "again"
  /\ r.res = "FR_OK" => /\ r.v.fs.winsect = s /\ Fits(L, s, r.v.fs.win)
                        /\ s # v.fs.winsect => r.v.fs.win = r.v.disk[s]

\* move_window keeps the volume sound, whatever fails in it.
LEMMA MoveWindowQuiet ==
  ASSUME NEW L \in Geometries, NEW F, NEW v, NEW s, Sound(L, F, v), s \in Sectors(L)
  PROVE  \A r \in move_window(v, s) : Moved(L, F, v, s, r)
<1> TAKE r \in move_window(v, s)
<1>0. Same(L, v, v)
  BY DEF Same, SameRest
<1>1. CASE s = v.fs.winsect
  <2>1. r.v = v /\ r.res = "FR_OK"
    BY <1>1 DEF move_window, Return, Then
  <2> QED
    BY <1>0, <1>1, <2>1, Regions DEF Moved, Quiet, Sound, Contents
<1>2. CASE s # v.fs.winsect
  <2>1. PICK q \in sync_window(v) :
          IF q.res = "FR_OK"
          THEN \E y \in disk_read(q.v, s) :
                 r \in IF y.res = "FR_OK" THEN Return(Window(y.v, s, y.val), 0)
                       ELSE Fails(Window(y.v, NoSector, NoData), y.res)
          ELSE r = q
    BY <1>2 DEF move_window, Then
  <2>2. /\ Quiet(L, F, v, q) /\ q.res # "again"
        /\ q.res = "FR_OK" => ~q.v.fs.wflag
    BY SyncWindowQuiet
  <2>3. CASE q.res # "FR_OK"
    BY <2>1, <2>2, <2>3 DEF Moved
  <2>4. CASE q.res = "FR_OK"
    <3>1. PICK y \in disk_read(q.v, s) :
            r \in IF y.res = "FR_OK" THEN Return(Window(y.v, s, y.val), 0)
                  ELSE Fails(Window(y.v, NoSector, NoData), y.res)
      BY <2>1, <2>4
    <3>2. Sound(L, F, q.v) /\ Same(L, v, q.v)
      BY <2>2, <2>4 DEF Moved, Quiet
    <3>3. /\ Quiet(L, F, q.v, y) /\ y.res \notin {"cut", "again"} /\ y.v.disk = q.v.disk
          /\ y.v.fs = q.v.fs
          /\ y.res = "FR_OK" => y.val = q.v.disk[s] /\ Fits(L, s, y.val)
      BY <3>2, ReadQuiet
    <3>4. Sound(L, F, y.v) /\ Same(L, v, y.v) /\ ~y.v.fs.wflag
      BY <2>2, <2>4, <3>2, <3>3, SameTrans DEF Moved, Quiet
    <3>5. CASE y.res = "FR_OK"
      <4>1. r.v = Window(y.v, s, y.val) /\ r.res = "FR_OK"
        BY <3>1, <3>5 DEF Return
      <4>2. /\ Sound(L, F, r.v) /\ Same(L, y.v, r.v) /\ r.v.fs.winsect = s
            /\ r.v.fs.win = y.val /\ r.v.disk = y.v.disk
        BY <3>3, <3>4, <3>5, <4>1, WindowSound
      <4> QED
        BY <3>3, <3>4, <3>5, <4>1, <4>2, SameTrans DEF Moved, Quiet
    <3>6. CASE y.res # "FR_OK"
      <4>1. r.v = Window(y.v, NoSector, NoData) /\ r.res = y.res
        BY <3>1, <3>6 DEF Fails
      <4>2. Sound(L, F, r.v) /\ Same(L, y.v, r.v)
        BY <3>4, <4>1, WindowSound, Regions
      <4> QED
        BY <3>3, <3>4, <3>6, <4>1, <4>2, SameTrans DEF Moved, Quiet
    <3> QED
      BY <3>5, <3>6
  <2> QED
    BY <2>3, <2>4
<1> QED
  BY <1>1, <1>2

--------------------------------------------------------------------------------
\* One call after the other.

\* A mounted volume between two calls.
Ready(L, F, v) == Sound(L, F, v) /\ Mounted(L, v.fs)

\* The head of a chain that is not in any entry yet.
Orphan(L, v, c) ==
  /\ IsHead(LibFat(L, v), c) /\ ~IsRoot(L, c)
  /\ c # v.fp.sclust /\ \A h \in Held(L, v) : h.e.clst # c

\* The results of an operation that may give clusters away or take them back; Keeps: it
\* does not take from a chain that is not in any entry yet, nor link to it.
Settles(L, F, v, r) ==
  /\ Sound(L, F, r.v)
  /\ IF r.res = "cut" THEN Off(r.v)
     ELSE /\ r.v.fp = v.fp /\ Mounted(L, r.v.fs)
          /\ Counted(L, v) => Counted(L, r.v)
Keeps(L, F, v, r) ==
  /\ Settles(L, F, v, r)
  /\ r.res # "cut" => \A c : Orphan(L, v, c) => Orphan(L, r.v, c)

\* A chain that is in no entry is still in none.
LEMMA SameOrphans ==
  ASSUME NEW L, NEW v, NEW w, Same(L, v, w), NEW c, Orphan(L, v, c)
  PROVE  Orphan(L, w, c)
<1>1. LibFat(L, w) = LibFat(L, v)
  BY DEF LibFat, Same
<1> QED
  BY <1>1 DEF Orphan, Same, SameRest

\* After a quiet operation the volume is ready for the next one.
LEMMA QuietReady ==
  ASSUME NEW L, NEW F, NEW v, NEW r, Ready(L, F, v), Quiet(L, F, v, r), r.res # "cut"
  PROVE  Ready(L, F, r.v) /\ Same(L, v, r.v)
BY SameMounted DEF Ready, Quiet

\* Two quiet operations are one.
LEMMA QuietTrans ==
  ASSUME NEW L, NEW F, NEW v, NEW q, NEW r, Quiet(L, F, v, q), q.res # "cut",
         Quiet(L, F, q.v, r)
  PROVE  Quiet(L, F, v, r)
BY SameTrans DEF Quiet

\* A quiet operation keeps chains and counts.
LEMMA QuietKeeps ==
  ASSUME NEW L, NEW F, NEW v, NEW r, Ready(L, F, v), Quiet(L, F, v, r)
  PROVE  Keeps(L, F, v, r)
<1>1. CASE r.res = "cut"
  BY <1>1 DEF Quiet, Keeps, Settles
<1>2. CASE r.res # "cut"
  BY <1>2, QuietReady, SameCounted, SameOrphans DEF Ready, Keeps, Settles, Same, SameRest
<1> QED
  BY <1>1, <1>2

\* After an operation that keeps chains and counts, ready for the next one.
LEMMA KeepsReady ==
  ASSUME NEW L, NEW F, NEW v, NEW r, Keeps(L, F, v, r), r.res # "cut"
  PROVE  Ready(L, F, r.v)
BY DEF Ready, Keeps, Settles

\* Two such operations are one.
LEMMA KeepsTrans ==
  ASSUME NEW L, NEW F, NEW v, NEW q, NEW r, Keeps(L, F, v, q), q.res # "cut",
         Keeps(L, F, q.v, r)
  PROVE  Keeps(L, F, v, r)
BY DEF Keeps, Settles

\* After an operation that may give clusters away, ready for the next one.
LEMMA SettlesReady ==
  ASSUME NEW L, NEW F, NEW v, NEW r, Settles(L, F, v, r), r.res # "cut"
  PROVE  Ready(L, F, r.v)
BY DEF Ready, Settles

\* Two such operations are one.
LEMMA SettlesTrans ==
  ASSUME NEW L, NEW F, NEW v, NEW q, NEW r, Settles(L, F, v, q), q.res # "cut",
         Settles(L, F, q.v, r)
  PROVE  Settles(L, F, v, r)
BY DEF Settles

\* A result that is passed on with another FRESULT or value.
LEMMA PassedOn ==
  ASSUME NEW L, NEW F, NEW v, NEW q, NEW r, r.v = q.v, r.res = "cut" <=> q.res = "cut"
  PROVE  /\ Quiet(L, F, v, q) => Quiet(L, F, v, r)
         /\ Keeps(L, F, v, q) => Keeps(L, F, v, r)
         /\ Settles(L, F, v, q) => Settles(L, F, v, r)
BY DEF Quiet, Keeps, Settles

\* A result without a disk call keeps everything.
LEMMA AtOnce ==
  ASSUME NEW L, NEW F, NEW v, NEW r, Ready(L, F, v), r.v = v, r.res # "cut"
  PROVE  Quiet(L, F, v, r) /\ Keeps(L, F, v, r)
BY DEF Ready, Quiet, Keeps, Settles, Same, SameRest

\* What an operation that is the last of another one returns.
LEMMA Returned ==
  /\ \A v, val, r : r \in Return(v, val) => r.v = v /\ r.res = "FR_OK" /\ r.val = val
  /\ \A v, res, r : r \in Fails(v, res) => r.v = v /\ r.res = res
  /\ \A v, x, r : r \in Again(v, x) => r.v = v /\ r.res = "again" /\ r.val = x
BY DEF Return, Fails, Again

--------------------------------------------------------------------------------
\* The FAT.

GotFat(L, F, v, c, r) ==
  /\ Quiet(L, F, v, r) /\ r.res # "again"
  /\ r.res = "FR_OK" => /\ c \in ClusterSet
                        /\ r.val = Lib(L, v, c) /\ r.val \in Nat

\* get_fat changes nothing and returns the entry as the library has it.
LEMMA GetFat ==
  ASSUME NEW L \in Geometries, NEW F, NEW v, NEW c, Ready(L, F, v), c \in Nat
  PROVE  \A r \in get_fat(v, c) : GotFat(L, F, v, c, r)
<1> TAKE r \in get_fat(v, c)
<1>1. CASE ~IsCluster(c)
  <2>1. r.v = v /\ r.res = "FR_INT_ERR"
    BY <1>1, Returned DEF get_fat
  <2> QED
    BY <2>1, AtOnce DEF GotFat
<1>2. CASE IsCluster(c)
  <2>1. /\ c \in ClusterSet /\ FatSect(L, c) \in FirstFat(L) /\ FatSect(L, c) \in Sectors(L)
        /\ fatbase(v.fs) + c \div FatEntries = FatSect(L, c)
    BY <1>2, FatSects, Regions DEF Ready, Mounted, fatbase, FatSect
  <2>2. PICK q \in move_window(v, FatSect(L, c)) :
          r \in IF q.res = "FR_OK" THEN Return(q.v, q.v.fs.win.fat[c % FatEntries]) ELSE {q}
    BY <1>2, <2>1 DEF get_fat, Then
  <2>3. Moved(L, F, v, FatSect(L, c), q)
    BY <2>1, MoveWindowQuiet DEF Ready
  <2>4. CASE q.res # "FR_OK"
    BY <2>2, <2>3, <2>4 DEF Moved, GotFat
  <2>5. CASE q.res = "FR_OK"
    <3>1. r.v = q.v /\ r.res = "FR_OK" /\ r.val = q.v.fs.win.fat[c % FatEntries]
      BY <2>2, <2>5, Returned
    <3>2. r.val = Lib(L, q.v, c) /\ Lib(L, q.v, c) = Lib(L, v, c)
      BY <2>1, <2>3, <2>5, <3>1 DEF Moved, Quiet, Same, Lib
    <3>3. r.val \in Nat
      <4>1. q.v.fs.win \in [kind : {"fat"}, fat : [0 .. FatEntries - 1 -> Nat]]
        BY <2>1, <2>3, <2>5, Regions DEF Moved, Fits
      <4>2. c % FatEntries \in 0 .. FatEntries - 1
        BY EntryPlaces
      <4> QED
        BY <3>1, <4>1, <4>2
    <3> QED
      BY <2>1, <2>3, <2>5, <3>1, <3>2, <3>3, PassedOn DEF Moved, GotFat
  <2> QED
    BY <2>4, <2>5
<1> QED
  BY <1>1, <1>2

\* One entry changed, in the window.
WithEntry(v, c, val) == [v EXCEPT !.fs.win.fat[c % FatEntries] = val, !.fs.wflag = TRUE]

MayPut(F, c, val) == val \in Nat /\ (val = 0 => c \in F) /\ (c \in F => Within(F, val))

\* A link leads to a chain that is not in any entry, and so does what is given back.
MayLink(L, v, c, val) == \/ val = EOC
                         \/ val = 0 /\ Orphan(L, v, c)
                         \/ val \in ClusterSet /\ Orphan(L, v, val)

Entered(L, v, w, c, val) ==
  /\ SameRest(v, w)
  /\ Held(L, w) \subseteq Held(L, v)
  /\ \A d \in ClusterSet : Lib(L, w, d) = IF d = c THEN val ELSE Lib(L, v, d)

\* The marks of a free cluster and of an end are no clusters.
LEMMA NoCluster == 0 \notin ClusterSet /\ EOC \notin ClusterSet /\ EOC # 0
BY Constants, Sizes DEF ClusterSet, EOC

\* A FAT with one entry changed: heads stay heads.
LEMMA EnteredHeads ==
  ASSUME NEW f, Links(f), NEW c \in ClusterSet, NEW val,
         (val = EOC \/ (val = 0 /\ IsHead(f, c)) \/ IsHead(f, val)),
         NEW g, \A d \in ClusterSet : g[d] = IF d = c THEN val ELSE f[d]
  PROVE  /\ Links(g)
         /\ \A h : IsHead(f, h) /\ h # val /\ ~(val = 0 /\ h = c) => IsHead(g, h)
<1>1. Links(g)
  BY NoCluster DEF Links, IsHead
<1>2. ASSUME NEW h, IsHead(f, h), h # val, ~(val = 0 /\ h = c)
      PROVE  IsHead(g, h)
  BY <1>2, NoCluster DEF IsHead
<1> QED
  BY <1>1, <1>2

\* One entry of the FAT changed in the window keeps the links.
LEMMA EntryLinked ==
  ASSUME NEW L \in Geometries, NEW v, NEW w, NEW c \in ClusterSet, NEW val, Linked(L, v),
         MayLink(L, v, c, val), w.disk = v.disk, w.fp = v.fp, w.fs.wflag,
         w.fs.winsect = v.fs.winsect, v.fs.winsect \notin PlainSectors(L),
         \A d \in ClusterSet : Lib(L, w, d) = IF d = c THEN val ELSE Lib(L, v, d)
  PROVE  Linked(L, w) /\ Held(L, w) \subseteq Held(L, v)
<1> DEFINE f == LibFat(L, v)
           g == LibFat(L, w)
<1>1. \A d \in ClusterSet : g[d] = IF d = c THEN val ELSE f[d]
  BY DEF LibFat
<1>2. CardFat(L, w) = CardFat(L, v)
  BY DEF CardFat, Card
<1>3. Held(L, w) \subseteq Held(L, v)
  <2>1. \A s \in PlainSectors(L) : \A x \in Versions(w, s) : x \in Versions(v, s)
    BY DEF Versions
  <2> QED
    BY <2>1, HeldShrinks
<1>4. Faithful(L, w) /\ NameKept(L, w)
  BY DEF Linked, Faithful, NameKept, LibName, CardName
<1> HIDE DEF f, g
<1>5. Owned(L, f, CardFat(L, v), Held(L, v)) /\ OwnFile(L, f, Held(L, v), v.fp)
  BY DEF Linked, f
<1>6. Links(f) /\ (val = EOC \/ (val = 0 /\ IsHead(f, c)) \/ IsHead(f, val))
  BY <1>5 DEF MayLink, Orphan, Owned, HeadsIn, f
<1>7. Links(g) /\ \A h : IsHead(f, h) /\ h # val /\ ~(val = 0 /\ h = c) => IsHead(g, h)
  BY <1>1, <1>6, EnteredHeads
<1>8. /\ \A h \in Held(L, v) : h.e.clst # val /\ ~(val = 0 /\ h.e.clst = c)
      /\ v.fp.sclust # 0 => v.fp.sclust # val /\ ~(val = 0 /\ v.fp.sclust = c)
      /\ L.fs_type = "FAT32" => 2 # val /\ ~(val = 0 /\ c = 2)
  <2>1. /\ \A h \in Held(L, v) : h.e.clst \in ClusterSet
        /\ v.fp.sclust # 0 => v.fp.sclust \in ClusterSet
        /\ L.fs_type = "FAT32" => 2 \in ClusterSet
    BY <1>5 DEF Owned, HeadsIn, OwnFile, IsHead
  <2> QED
    BY <2>1, NoCluster DEF MayLink, Orphan, IsRoot
<1>9. HeadsIn(L, g, Held(L, w))
  BY <1>3, <1>5, <1>7, <1>8 DEF HeadsIn, Owned
<1>10. HeadsIn(L, CardFat(L, w), Held(L, w)) /\ Apart(L, Held(L, w))
  BY <1>2, <1>3, <1>5 DEF HeadsIn, Owned, Apart
<1>11. OwnFile(L, g, Held(L, w), w.fp)
  BY <1>3, <1>5, <1>7, <1>8 DEF OwnFile
<1> QED
  BY <1>3, <1>4, <1>9, <1>10, <1>11 DEF Linked, Owned, g

\* What becomes of the chains that are not in any entry.
LEMMA EnteredOrphans ==
  ASSUME NEW L, NEW v, NEW w, NEW c \in ClusterSet, NEW val, Linked(L, v),
         MayLink(L, v, c, val), Entered(L, v, w, c, val)
  PROVE  /\ \A o : Orphan(L, v, o) /\ o # val /\ ~(val = 0 /\ o = c) => Orphan(L, w, o)
         /\ val = EOC /\ Lib(L, v, c) = 0 => Orphan(L, w, c)
         /\ val = 0 /\ Lib(L, v, c) \in ClusterSet => Orphan(L, w, Lib(L, v, c))
<1> DEFINE f == LibFat(L, v)
           g == LibFat(L, w)
<1>1. \A d \in ClusterSet : g[d] = (IF d = c THEN val ELSE f[d]) /\ f[d] = Lib(L, v, d)
  BY DEF LibFat, Entered
<1> HIDE DEF f, g
<1>2. /\ Links(f) /\ \A h \in Held(L, v) : IsHead(f, h.e.clst) /\ ~IsRoot(L, h.e.clst)
      /\ v.fp.sclust # 0 => IsHead(f, v.fp.sclust)
      /\ \A d : IsRoot(L, d) => IsHead(f, d)
  BY DEF Linked, Owned, HeadsIn, Apart, OwnFile, IsRoot, f
<1>3. w.fp = v.fp /\ Held(L, w) \subseteq Held(L, v)
  BY DEF Entered, SameRest
<1>4. val = EOC \/ (val = 0 /\ IsHead(f, c)) \/ IsHead(f, val)
  BY DEF MayLink, Orphan, f
<1>5. \A h : IsHead(f, h) /\ h # val /\ ~(val = 0 /\ h = c) => IsHead(g, h)
  BY <1>1, <1>2, <1>4, EnteredHeads
<1>6. ASSUME NEW o, Orphan(L, v, o), o # val, ~(val = 0 /\ o = c)
      PROVE  Orphan(L, w, o)
  BY <1>3, <1>5, <1>6 DEF Orphan, f, g
<1>7. ASSUME val = EOC, Lib(L, v, c) = 0
      PROVE  Orphan(L, w, c)
  <2>1. IsHead(g, c)
    BY <1>1, <1>2, <1>7, NoCluster DEF IsHead, Links
  <2>2. ~IsHead(f, c)
    BY <1>1, <1>7 DEF IsHead
  <2>3. c # 0
    BY NoCluster
  <2> QED
    BY <1>2, <1>3, <2>1, <2>2, <2>3 DEF Orphan, g
<1>8. ASSUME val = 0, Lib(L, v, c) \in ClusterSet
      PROVE  Orphan(L, w, Lib(L, v, c))
  <2> DEFINE n == Lib(L, v, c)
  <2>1. f[c] = n /\ n \in ClusterSet /\ n # 0
    BY <1>1, <1>8, NoCluster
  <2> HIDE DEF n
  <2>2. IsHead(f, c)
    BY <1>8, NoCluster DEF MayLink, Orphan, f, EOC
  <2>3. IsHead(g, n)
    <3>1. n # c /\ f[n] # 0 /\ \A d \in ClusterSet : f[d] = n => d = c
      BY <2>1, <2>2, <1>2 DEF IsHead, Links
    <3> QED
      BY <1>1, <1>8, <2>1, <3>1 DEF IsHead
  <2>4. ~IsHead(f, n)
    BY <2>1 DEF IsHead
  <2> QED
    BY <1>2, <1>3, <2>1, <2>3, <2>4 DEF Orphan, g, n
<1> QED
  BY <1>6, <1>7, <1>8

\* One entry of the FAT changed in the window keeps the volume sound.
LEMMA EntrySound ==
  ASSUME NEW L \in Geometries, NEW F, NEW v, NEW c, NEW val, Ready(L, F, v),
         c \in ClusterSet, v.fs.winsect = FatSect(L, c), MayPut(F, c, val),
         MayLink(L, v, c, val)
  PROVE  /\ Sound(L, F, WithEntry(v, c, val))
         /\ Entered(L, v, WithEntry(v, c, val), c, val)
<1> DEFINE w == WithEntry(v, c, val)
           i == c % FatEntries
<1>1. /\ FatSect(L, c) \in FirstFat(L) /\ FatSect(L, c) \in Sectors(L)
      /\ FatSect(L, c) >= fatbase(L) /\ FatSect(L, c) < PlainStart(L)
      /\ i \in 0 .. FatEntries - 1
  BY FatSects, EntryPlaces, Regions
<1>2. PICK fat \in [0 .. FatEntries - 1 -> Nat] : v.fs.win = [kind |-> "fat", fat |-> fat]
  <2>1. v.fs.win \in [kind : {"fat"}, fat : [0 .. FatEntries - 1 -> Nat]]
    BY <1>1, Regions DEF Ready, Sound, Contents, Fits
  <2> QED
    BY <2>1
<1>3. /\ IsVolume(w) /\ w.disk = v.disk /\ w.fp = v.fp
      /\ w.fs = [v.fs EXCEPT !.win.fat[i] = val, !.wflag = TRUE]
  BY DEF Ready, Sound, Shape, IsVolume, WithEntry
<1> HIDE DEF w, i
<1>4. /\ IsFatFs(L, w.fs) /\ w.fs.wflag = TRUE /\ w.fs.winsect = FatSect(L, c)
      /\ SameRest(v, w)
  BY <1>3 DEF Ready, Sound, Shape, IsFatFs, SameRest
<1>11. w.fs.win = [kind |-> "fat", fat |-> [fat EXCEPT ![i] = val]]
  <2>1. w.fs.win = [v.fs.win EXCEPT !.fat[i] = val]
    BY <1>3 DEF Ready, Sound, Shape, IsFatFs
  <2> QED
    BY <1>2, <2>1
<1>5. /\ w.fs.win \in [kind : {"fat"}, fat : [0 .. FatEntries - 1 -> Nat]]
      /\ w.fs.win.fat[i] = val
      /\ \A j \in 0 .. FatEntries - 1 : j # i => w.fs.win.fat[j] = v.fs.win.fat[j]
  BY <1>1, <1>2, <1>11 DEF MayPut
<1>6. Fits(L, FatSect(L, c), w.fs.win)
  <2>1. FatSect(L, c) # L.volbase /\ FatSect(L, c) # L.volbase + 1
        /\ ~(FatSect(L, c) < L.volbase) /\ ~(FatSect(L, c) >= PlainStart(L))
    BY <1>1, Places, Regions
  <2> QED
    BY <1>5, <2>1 DEF Fits
<1>7. Contents(L, w)
  BY <1>1, <1>3, <1>4, <1>6 DEF Ready, Sound, Contents, Mounted, SameRest
<1>8. ASSUME NEW d \in ClusterSet
      PROVE  /\ Card(L, w, d) = Card(L, v, d)
             /\ Lib(L, w, d) = IF d = c THEN val ELSE Lib(L, v, d)
  <2>1. Card(L, w, d) = Card(L, v, d)
    BY <1>3 DEF Card
  <2>2. CASE d = c
    BY <1>4, <1>5, <2>1, <2>2 DEF Lib, i
  <2>3. CASE d # c /\ FatSect(L, d) = FatSect(L, c)
    <3>1. d % FatEntries # i /\ d % FatEntries \in 0 .. FatEntries - 1
      BY <2>3, FatSects, EntryPlaces DEF i
    <3> QED
      BY <1>4, <1>5, <2>1, <2>3, <3>1 DEF Lib
  <2>4. CASE d # c /\ FatSect(L, d) # FatSect(L, c)
    BY <1>4, <2>1, <2>4 DEF Lib
  <2> QED
    BY <2>1, <2>2, <2>3, <2>4
<1>9. Covered(L, F, w)
  <2>1. InfoFree(L, w) = InfoFree(L, v)
    BY <1>3 DEF InfoFree
  <2> QED
    BY <1>8, <2>1 DEF Ready, Sound, Covered, MayPut
<1>10. Shape(L, w)
  BY <1>3, <1>4 DEF Ready, Sound, Shape
<1>12. Linked(L, w) /\ Held(L, w) \subseteq Held(L, v)
  <2>1. v.fs.winsect \notin PlainSectors(L)
    BY <1>1, Regions
  <2> QED
    BY <1>3, <1>4, <1>8, <2>1, EntryLinked DEF Ready, Sound
<1> QED
  BY <1>4, <1>7, <1>8, <1>9, <1>10, <1>12 DEF Sound, Entered, w

PutFatResult(L, F, v, c, val, r) ==
  /\ Sound(L, F, r.v) /\ r.res # "again"
  /\ r.res = "cut" => Off(r.v)
  /\ r.res = "FR_OK" => c \in ClusterSet /\ Entered(L, v, r.v, c, val)
  /\ r.res \notin {"cut", "FR_OK"} => Same(L, v, r.v)

\* put_fat changes the one entry, or nothing.
LEMMA PutFat ==
  ASSUME NEW L \in Geometries, NEW F, NEW v, NEW c, NEW val, Ready(L, F, v), c \in Nat,
         MayPut(F, c, val), MayLink(L, v, c, val)
  PROVE  \A r \in put_fat(v, c, val) : PutFatResult(L, F, v, c, val, r)
<1> TAKE r \in put_fat(v, c, val)
<1>1. CASE ~IsCluster(c)
  <2>1. r.v = v /\ r.res = "FR_INT_ERR"
    BY <1>1, Returned DEF put_fat
  <2> QED
    BY <2>1 DEF Ready, PutFatResult, Same, SameRest
<1>2. CASE IsCluster(c)
  <2>1. /\ c \in ClusterSet /\ FatSect(L, c) \in Sectors(L)
        /\ fatbase(v.fs) + c \div FatEntries = FatSect(L, c)
    BY <1>2, FatSects, Regions DEF Ready, Mounted, fatbase, FatSect
  <2>2. PICK q \in move_window(v, FatSect(L, c)) :
          r \in IF q.res = "FR_OK" THEN Return(WithEntry(q.v, c, val), 0) ELSE {q}
    BY <1>2, <2>1 DEF put_fat, Then, WithEntry
  <2>3. Moved(L, F, v, FatSect(L, c), q)
    BY <2>1, MoveWindowQuiet DEF Ready
  <2>4. CASE q.res # "FR_OK"
    BY <2>2, <2>3, <2>4 DEF Moved, Quiet, PutFatResult
  <2>5. CASE q.res = "FR_OK"
    <3>1. r.v = WithEntry(q.v, c, val) /\ r.res = "FR_OK"
      BY <2>2, <2>5, Returned
    <3>2. Ready(L, F, q.v) /\ Same(L, v, q.v) /\ q.v.fs.winsect = FatSect(L, c)
      BY <2>3, <2>5, QuietReady DEF Moved
    <3>5. MayLink(L, q.v, c, val)
      BY <3>2, SameOrphans DEF MayLink
    <3>3. Sound(L, F, r.v) /\ Entered(L, q.v, r.v, c, val)
      BY <2>1, <3>1, <3>2, <3>5, EntrySound
    <3>4. Entered(L, v, r.v, c, val)
      BY <3>2, <3>3 DEF Entered, Same, SameRest
    <3> QED
      BY <2>1, <3>1, <3>3, <3>4 DEF PutFatResult
  <2> QED
    BY <2>4, <2>5
<1> QED
  BY <1>1, <1>2

\* Sets of clusters are finite, and there are Clusters of them.
LEMMA FreeClustersCounted ==
  /\ IsFiniteSet(ClusterSet) /\ Cardinality(ClusterSet) = Clusters
  /\ \A S \in SUBSET ClusterSet : /\ IsFiniteSet(S)
                                  /\ Cardinality(S) \in Nat /\ Cardinality(S) <= Clusters
  /\ \A T \in SUBSET ClusterSet : \A S \in SUBSET T : Cardinality(S) <= Cardinality(T)
  /\ \A L, v : LibFree(L, v) \in SUBSET ClusterSet /\ Free(L, v) \in 0 .. Clusters
<1>1. IsFiniteSet(ClusterSet) /\ Cardinality(ClusterSet) = Clusters
  <2>1. 2 \in Int /\ n_fatent - 1 \in Int /\ (n_fatent - 1) - 2 + 1 = Clusters
        /\ ~(2 > n_fatent - 1)
    BY Sizes, Constants
  <2> QED
    BY <2>1, FS_Interval DEF ClusterSet
<1>2. \A S \in SUBSET ClusterSet :
        IsFiniteSet(S) /\ Cardinality(S) \in Nat /\ Cardinality(S) <= Clusters
  BY <1>1, FS_Subset, FS_CardinalityType
<1>3. \A T \in SUBSET ClusterSet : \A S \in SUBSET T : Cardinality(S) <= Cardinality(T)
  BY <1>2, FS_Subset
<1>4. \A L, v : LibFree(L, v) \in SUBSET ClusterSet
  BY DEF LibFree
<1>5. \A L, v : Free(L, v) \in 0 .. Clusters
  BY <1>2, <1>4, Constants DEF Free
<1> QED
  BY <1>1, <1>2, <1>3, <1>4, <1>5

\* One entry changed makes the number of free clusters differ by one at most.
LEMMA FreeEntered ==
  ASSUME NEW L, NEW v, NEW w, NEW c, NEW val, c \in ClusterSet, Entered(L, v, w, c, val)
  PROVE  /\ val = 0 => Free(L, w) <= Free(L, v) + 1
         /\ val # 0 => /\ LibFree(L, w) = LibFree(L, v) \ {c}
                       /\ Free(L, w) <= Free(L, v)
                       /\ c \in LibFree(L, v) => Free(L, w) = Free(L, v) - 1
<1>1. /\ LibFree(L, v) \in SUBSET ClusterSet /\ IsFiniteSet(LibFree(L, v))
      /\ Cardinality(LibFree(L, v)) \in Nat
  BY FreeClustersCounted
<1>2. CASE val = 0
  <2>1. LibFree(L, w) = LibFree(L, v) \cup {c}
    BY <1>2 DEF Entered, LibFree
  <2>2. Cardinality(LibFree(L, v) \cup {c}) <= Cardinality(LibFree(L, v)) + 1
    BY <1>1, FS_AddElement
  <2> QED
    BY <1>2, <2>1, <2>2 DEF Free
<1>3. CASE val # 0
  <2>1. LibFree(L, w) = LibFree(L, v) \ {c}
    BY <1>3 DEF Entered, LibFree
  <2>2. CASE c \in LibFree(L, v)
    <3>1. Cardinality(LibFree(L, v) \ {c}) = Cardinality(LibFree(L, v)) - 1
      BY <1>1, <2>2, FS_RemoveElement
    <3>2. Free(L, w) = Free(L, v) - 1 /\ Free(L, v) \in Nat
      BY <1>1, <2>1, <3>1 DEF Free
    <3> QED
      BY <1>3, <2>1, <2>2, <3>2
  <2>3. CASE c \notin LibFree(L, v)
    <3>1. LibFree(L, w) = LibFree(L, v)
      BY <2>1, <2>3
    <3>2. Free(L, w) = Free(L, v) /\ Free(L, v) \in Nat
      BY <1>1, <3>1 DEF Free
    <3> QED
      BY <1>3, <2>1, <2>3, <3>2
  <2> QED
    BY <2>2, <2>3
<1> QED
  BY <1>2, <1>3

\* Other counts, the same window.
Recounted(L, v, w) ==
  /\ IsVolume(w) /\ w.disk = v.disk /\ w.fp = v.fp /\ IsFatFs(L, w.fs)
  /\ w.fs.winsect = v.fs.winsect /\ w.fs.win = v.fs.win /\ w.fs.wflag = v.fs.wflag
  /\ w.fs.fs_type = v.fs.fs_type /\ w.fs.volbase = v.fs.volbase
  /\ w.fs.n_fats = v.fs.n_fats

\* Another count in the FATFS object changes nothing else.
LEMMA RecountedReady ==
  ASSUME NEW L \in Geometries, NEW F, NEW v, NEW w, Ready(L, F, v), Recounted(L, v, w)
  PROVE  /\ Ready(L, F, w) /\ Free(L, w) = Free(L, v) /\ LibFree(L, w) = LibFree(L, v)
         /\ \A c : Orphan(L, v, c) <=> Orphan(L, w, c)
<1>1. \A c \in ClusterSet : Lib(L, w, c) = Lib(L, v, c)
  BY DEF Recounted, Lib, Card
<1>2. LibFree(L, w) = LibFree(L, v)
  BY <1>1 DEF LibFree
<1>3. Mounted(L, w.fs)
  BY DEF Ready, Recounted, Mounted
<1>5. Linked(L, w) /\ Held(L, w) = Held(L, v)
  BY SameWindowLinked DEF Ready, Sound, Recounted
<1>4. Sound(L, F, w)
  <2>1. /\ w.fs.winsect # NoSector => Fits(L, w.fs.winsect, w.fs.win)
        /\ w.fs.wflag => w.fs.winsect >= fatbase(L) /\ Mounted(L, w.fs)
        /\ w.fs.winsect \in FirstFat(L) /\ ~w.fs.wflag => w.fs.win = v.disk[w.fs.winsect]
    BY <1>3 DEF Ready, Sound, Contents, Recounted
  <2>2. Sound(L, F, v) /\ IsVolume(w) /\ w.disk = v.disk /\ w.fp = v.fp /\ IsFatFs(L, w.fs)
    BY DEF Ready, Recounted
  <2> QED
    BY <1>1, <1>5, <2>1, <2>2, FsSound
<1>6. LibFat(L, w) = LibFat(L, v) /\ w.fp = v.fp
  BY <1>1 DEF LibFat, Recounted
<1> QED
  BY <1>2, <1>3, <1>4, <1>5, <1>6 DEF Ready, Free, Orphan

\* GiveBack changes only the count, which goes up by one.
LEMMA GiveBackRecounts ==
  ASSUME NEW L \in Geometries, NEW F, NEW v, Ready(L, F, v)
  PROVE  /\ Recounted(L, v, GiveBack(v))
         /\ GiveBack(v).fs.free_clst = IF v.fs.free_clst < Clusters
                                       THEN v.fs.free_clst + 1 ELSE v.fs.free_clst
<1>1. IsVolume(v) /\ IsFatFs(L, v.fs) /\ v.fs.free_clst \in Nat
  BY DEF Ready, Sound, Shape, IsFatFs
<1>2. Changed(v.fs) \in {"disabled", "clean", "changed"}
  BY DEF Changed
<1>3. n_fatent - 2 = Clusters
  BY Sizes, Constants
<1>4. CASE v.fs.free_clst < Clusters
  <2> DEFINE w == GiveBack(v)
             n == v.fs.free_clst + 1
  <2>1. /\ IsVolume(w) /\ w.disk = v.disk /\ w.fp = v.fp
        /\ w.fs = [v.fs EXCEPT !.free_clst = n, !.fsi_flag = Changed(v.fs)]
    BY <1>1, <1>3, <1>4 DEF GiveBack, IsVolume
  <2>0. n \in Nat
    BY <1>1
  <2> HIDE DEF w, n
  <2>2. /\ IsFatFs(L, w.fs) /\ w.fs.free_clst = n
        /\ w.fs.winsect = v.fs.winsect /\ w.fs.win = v.fs.win
        /\ w.fs.wflag = v.fs.wflag /\ w.fs.fs_type = v.fs.fs_type
        /\ w.fs.volbase = v.fs.volbase /\ w.fs.n_fats = v.fs.n_fats
    BY <1>1, <1>2, <2>0, <2>1 DEF IsFatFs
  <2>3. Recounted(L, v, w)
    BY <2>1, <2>2 DEF Recounted
  <2> QED
    BY <1>4, <2>2, <2>3 DEF w, n
<1>5. CASE ~(v.fs.free_clst < Clusters)
  <2>1. GiveBack(v) = v
    BY <1>3, <1>5 DEF GiveBack
  <2> QED
    BY <1>1, <1>5, <2>1 DEF Recounted
<1> QED
  BY <1>4, <1>5

\* A cluster given back: the count goes up, or is all there are.
LEMMA GiveBackKeeps ==
  ASSUME NEW L \in Geometries, NEW F, NEW u, NEW w, NEW c,
         Ready(L, F, u), Sound(L, F, w), c \in ClusterSet, Entered(L, u, w, c, 0)
  PROVE  /\ Ready(L, F, GiveBack(w)) /\ GiveBack(w).fp = u.fp
         /\ Counted(L, u) => Counted(L, GiveBack(w))
         /\ \A o : Orphan(L, w, o) => Orphan(L, GiveBack(w), o)
<1>1. Ready(L, F, w) /\ w.fp = u.fp /\ w.fs.free_clst = u.fs.free_clst
  BY DEF Ready, Mounted, Entered, SameRest
<1>2. /\ Ready(L, F, GiveBack(w)) /\ GiveBack(w).fp = w.fp
      /\ Free(L, GiveBack(w)) = Free(L, w)
      /\ GiveBack(w).fs.free_clst = IF w.fs.free_clst < Clusters
                                    THEN w.fs.free_clst + 1 ELSE w.fs.free_clst
      /\ \A o : Orphan(L, w, o) => Orphan(L, GiveBack(w), o)
  <2>1. /\ Recounted(L, w, GiveBack(w))
        /\ GiveBack(w).fs.free_clst = IF w.fs.free_clst < Clusters
                                      THEN w.fs.free_clst + 1 ELSE w.fs.free_clst
    BY <1>1, GiveBackRecounts
  <2>2. /\ Ready(L, F, GiveBack(w)) /\ Free(L, GiveBack(w)) = Free(L, w)
        /\ \A o : Orphan(L, w, o) => Orphan(L, GiveBack(w), o)
    BY <1>1, <2>1, RecountedReady
  <2>3. GiveBack(w).fp = w.fp
    BY <2>1 DEF Recounted
  <2> QED
    BY <2>1, <2>2, <2>3
<1>3. /\ Free(L, w) <= Free(L, u) + 1
      /\ Free(L, w) \in 0 .. Clusters /\ Free(L, u) \in 0 .. Clusters
  BY FreeEntered, FreeClustersCounted
<1>4. u.fs.free_clst \in Nat
  BY DEF Ready, Sound, Shape, IsFatFs
<1>5. Counted(L, u) => Counted(L, GiveBack(w))
  BY <1>1, <1>2, <1>3, <1>4, Constants DEF Counted
<1> QED
  BY <1>1, <1>2, <1>5

\* A round of remove_chain; F has the cluster, and the next one, which is the head of what
\* is left.
Removed(L, F, v, r) ==
  Settles(L, F, v, r) /\ (r.res = "again" => r.val \in F /\ Orphan(L, r.v, r.val))

\* A round of remove_chain keeps the volume sound and what is left a chain.
LEMMA RemoveOneSettles ==
  ASSUME NEW L \in Geometries, NEW F, NEW v, NEW c, Ready(L, F, v), c \in F,
         Orphan(L, v, c)
  PROVE  \A r \in RemoveOne(v, c) : Removed(L, F, v, r)
<1> TAKE r \in RemoveOne(v, c)
<1> DEFINE After(u, nxt) ==
             UNION {IF y.res = "FR_OK"
                    THEN IF nxt < n_fatent THEN Again(GiveBack(y.v), nxt)
                         ELSE Return(GiveBack(y.v), 0)
                    ELSE {y} : y \in put_fat(u, c, 0)}
<1>1. PICK q \in get_fat(v, c) :
        r \in IF q.res = "FR_OK"
              THEN IF q.val = 0 THEN Return(q.v, 0) ELSE After(q.v, q.val)
              ELSE {q}
  BY DEF RemoveOne, Then
<1>2. \A u, nxt, x : x \in After(u, nxt) =>
        \E y \in put_fat(u, c, 0) :
          x \in IF y.res = "FR_OK"
                THEN IF nxt < n_fatent THEN Again(GiveBack(y.v), nxt)
                     ELSE Return(GiveBack(y.v), 0)
                ELSE {y}
  OBVIOUS
<1> HIDE DEF After
<1>3. c \in ClusterSet /\ c \in Nat /\ F \in SUBSET ClusterSet
  BY FatSects DEF Ready, Sound, Covered
<1>4. GotFat(L, F, v, c, q)
  BY <1>3, GetFat
<1>5. Settles(L, F, v, q) /\ q.res # "again"
  BY <1>4, QuietKeeps DEF GotFat, Keeps
<1>6. CASE q.res # "FR_OK"
  BY <1>1, <1>5, <1>6 DEF Removed
<1>7. CASE q.res = "FR_OK" /\ q.val = 0
  <2>1. r.v = q.v /\ r.res = "FR_OK"
    BY <1>1, <1>7, Returned
  <2> QED
    BY <1>5, <1>7, <2>1, PassedOn DEF Removed
<1>8. CASE q.res = "FR_OK" /\ q.val # 0
  <2>1. PICK y \in put_fat(q.v, c, 0) :
          r \in IF y.res = "FR_OK"
                THEN IF q.val < n_fatent THEN Again(GiveBack(y.v), q.val)
                     ELSE Return(GiveBack(y.v), 0)
                ELSE {y}
    BY <1>1, <1>2, <1>8
  <2>2. Ready(L, F, q.v) /\ Same(L, v, q.v)
    BY <1>4, <1>8, QuietReady DEF GotFat
  <2>7. MayLink(L, q.v, c, 0)
    BY <2>2, SameOrphans DEF MayLink
  <2>3. PutFatResult(L, F, q.v, c, 0, y)
    <3>1. MayPut(F, c, 0)
      BY DEF MayPut, Within
    <3> QED
      BY <1>3, <2>2, <2>7, <3>1, PutFat
  <2>8. q.val < n_fatent => q.val \in F /\ q.val \in ClusterSet
    <3>1. q.val = Lib(L, v, c) /\ Within(F, q.val)
      BY <1>3, <1>4, <1>8 DEF GotFat, Ready, Sound, Covered
    <3>2. q.val \in Nat /\ n_fatent \in Nat
      BY <1>4, <1>8, Sizes DEF GotFat
    <3> QED
      BY <1>3, <1>8, <3>1, <3>2 DEF Within
  <2>4. /\ Settles(L, F, q.v, r)
        /\ r.res = "again" => r.val = q.val /\ q.val \in F /\ Orphan(L, r.v, q.val)
    <3>1. CASE y.res # "FR_OK"
      <4>1. r = y /\ y.res # "again"
        BY <2>1, <2>3, <3>1 DEF PutFatResult
      <4>2. Quiet(L, F, q.v, y)
        BY <2>3, <3>1 DEF PutFatResult, Quiet
      <4> QED
        BY <2>2, <4>1, <4>2, QuietKeeps DEF Keeps
    <3>2. CASE y.res = "FR_OK"
      <4>1. /\ r.v = GiveBack(y.v) /\ r.res # "cut"
            /\ r.res = "again" => r.val = q.val /\ q.val < n_fatent
        BY <2>1, <3>2, Returned
      <4>2. Sound(L, F, y.v) /\ Entered(L, q.v, y.v, c, 0)
        BY <2>3, <3>2 DEF PutFatResult
      <4>3. /\ Ready(L, F, r.v) /\ r.v.fp = q.v.fp
            /\ Counted(L, q.v) => Counted(L, r.v)
            /\ \A o : Orphan(L, y.v, o) => Orphan(L, r.v, o)
        BY <1>3, <2>2, <4>1, <4>2, GiveBackKeeps
      <4>4. q.val < n_fatent => Orphan(L, y.v, q.val)
        <5>1. q.val = Lib(L, q.v, c) /\ Linked(L, q.v)
          BY <1>3, <1>4, <1>8, <2>2 DEF GotFat, Same, Ready, Sound
        <5> QED
          BY <1>3, <2>7, <2>8, <4>2, <5>1, EnteredOrphans
      <4> QED
        BY <2>8, <4>1, <4>3, <4>4 DEF Settles, Ready
    <3> QED
      BY <3>1, <3>2
  <2>5. Settles(L, F, v, r)
    BY <1>5, <1>8, <2>4, SettlesTrans
  <2> QED
    BY <2>4, <2>5 DEF Removed
<1> QED
  BY <1>6, <1>7, <1>8

RemoveStep(p, n, S) ==
  UNION {IF r.res = "again" THEN RemoveOne(r.v, r.val) ELSE {r} : r \in S}
RemoveGood(p, q, n, S) == \A r \in S : Removed(q.L, q.F, q.v, r)
Remove == INSTANCE Induction WITH Step <- RemoveStep, Good <- RemoveGood

\* remove_chain of a chain in no entry keeps the volume sound and counted.
LEMMA RemoveChain ==
  ASSUME NEW L \in Geometries, NEW F, NEW v, NEW c, Ready(L, F, v), c \in F,
         Orphan(L, v, c)
  PROVE  \A r \in remove_chain(v, c) : Settles(L, F, v, r) /\ r.res # "again"
<1> DEFINE base == Again(v, c)
           q == [L |-> L, F |-> F, v |-> v]
<1>1. remove_chain(v, c) =
        {r \in Remove!Recursive(0, base, n_fatent)[n_fatent] : r.res # "again"}
  BY DEF remove_chain, Loop, Remove!Recursive, RemoveStep
<1>2. RemoveGood(0, q, 0, base)
  <2>1. \A r \in base : r.v = v /\ r.res = "again" /\ r.val = c
    BY Returned
  <2>2. \A r \in base : Removed(L, F, v, r)
    BY <2>1, AtOnce DEF Removed, Keeps
  <2> QED
    BY <2>2 DEF RemoveGood
<1>3. ASSUME NEW n \in 1 .. n_fatent, NEW S, RemoveGood(0, q, n - 1, S)
      PROVE  RemoveGood(0, q, n, RemoveStep(0, n, S))
  <2>1. ASSUME NEW r \in RemoveStep(0, n, S)
        PROVE  Removed(L, F, v, r)
    <3>1. PICK x \in S : r \in IF x.res = "again" THEN RemoveOne(x.v, x.val) ELSE {x}
      BY <2>1 DEF RemoveStep
    <3>2. Removed(L, F, v, x)
      BY <1>3 DEF RemoveGood
    <3>3. CASE x.res = "again"
      <4>1. Removed(L, F, x.v, r)
        BY <3>1, <3>2, <3>3, SettlesReady, RemoveOneSettles DEF Removed
      <4> QED
        BY <3>2, <3>3, <4>1, SettlesTrans DEF Removed
    <3> QED
      BY <3>1, <3>2, <3>3
  <2> QED
    BY <2>1 DEF RemoveGood
<1>4. n_fatent \in Nat /\ n_fatent \in 0 .. n_fatent
  BY Sizes
<1> HIDE DEF q, base
<1>5. \A n \in 0 .. n_fatent : RemoveGood(0, q, n, Remove!Recursive(0, base, n_fatent)[n])
  BY <1>2, <1>3, <1>4, Remove!RecursionInduction
<1> QED
  BY <1>1, <1>4, <1>5 DEF RemoveGood, Removed, q

\* The clusters that the search for a free one has seen, from the one behind scl to ncl.
Seen(scl, ncl, d) ==
  \/ ncl > scl /\ d > scl /\ d <= ncl
  \/ ncl < scl /\ (d > scl \/ d <= ncl)

Searched(L, F, v, scl, r) ==
  /\ Quiet(L, F, v, r)
  /\ r.res = "again" => /\ r.val \in 1 .. n_fatent - 1
                        /\ \A d \in ClusterSet : Seen(scl, r.val, d) => Lib(L, v, d) # 0
  /\ r.res = "FR_OK" => \/ r.val = 0 /\ LibFree(L, v) = {}
                        \/ r.val \in LibFree(L, v)

\* One more cluster seen, or all of them.
LEMMA SeenNext ==
  ASSUME NEW scl \in 1 .. n_fatent - 1, NEW ncl \in 1 .. n_fatent - 1, NEW d \in ClusterSet
  PROVE  LET wraps == ncl + 1 >= n_fatent
             next == IF wraps THEN 2 ELSE ncl + 1
         IN  /\ wraps /\ next > scl => Seen(scl, ncl, d)
             /\ ~(wraps /\ next > scl) =>
                  /\ next \in ClusterSet
                  /\ next = scl => Seen(scl, ncl, d) \/ d = next
                  /\ next # scl => (Seen(scl, next, d) => Seen(scl, ncl, d) \/ d = next)
<1>1. n_fatent \in Nat /\ n_fatent >= 3
  BY Sizes, Constants
<1> QED
  BY <1>1 DEF Seen, ClusterSet

\* A round of the search sees one cluster more.
LEMMA FreeBehindSearches ==
  ASSUME NEW L \in Geometries, NEW F, NEW v, NEW scl, NEW x,
         Ready(L, F, v), scl \in 1 .. n_fatent - 1, Searched(L, F, v, scl, x),
         x.res = "again"
  PROVE  \A r \in FreeBehind(x.v, x.val, scl) : Searched(L, F, v, scl, r)
<1> TAKE r \in FreeBehind(x.v, x.val, scl)
<1> DEFINE ncl == x.val
           wraps == ncl + 1 >= n_fatent
           next == IF wraps THEN 2 ELSE ncl + 1
<1>1. /\ ncl \in 1 .. n_fatent - 1
      /\ \A d \in ClusterSet : Seen(scl, ncl, d) => Lib(L, v, d) # 0
      /\ Quiet(L, F, v, x)
  BY DEF Searched
<1>2. /\ wraps /\ next > scl => \A d \in ClusterSet : Seen(scl, ncl, d)
      /\ ~(wraps /\ next > scl) =>
           /\ next \in ClusterSet /\ next \in Nat /\ next \in 1 .. n_fatent - 1
           /\ next = scl => \A d \in ClusterSet : Seen(scl, ncl, d) \/ d = next
           /\ next # scl => \A d \in ClusterSet : Seen(scl, next, d) =>
                                                    Seen(scl, ncl, d) \/ d = next
  <2>1. n_fatent \in Nat /\ n_fatent >= 3
    BY Sizes, Constants
  <2>2. /\ wraps /\ next > scl => \A d \in ClusterSet : Seen(scl, ncl, d)
        /\ ~(wraps /\ next > scl) =>
             /\ next = scl => \A d \in ClusterSet : Seen(scl, ncl, d) \/ d = next
             /\ next # scl => \A d \in ClusterSet : Seen(scl, next, d) =>
                                                      Seen(scl, ncl, d) \/ d = next
    BY <1>1, SeenNext
  <2>3. ~(wraps /\ next > scl) => /\ next \in ClusterSet /\ next \in Nat
                                  /\ next \in 1 .. n_fatent - 1
    BY <1>1, <2>1 DEF ClusterSet
  <2> QED
    BY <2>2, <2>3
<1>3. r \in IF wraps /\ next > scl THEN Return(x.v, 0)
            ELSE UNION {IF q.res = "FR_OK"
                        THEN IF q.val = 0 THEN Return(q.v, next)
                             ELSE IF next = scl THEN Return(q.v, 0)
                             ELSE Again(q.v, next)
                        ELSE {q} : q \in get_fat(x.v, next)}
  BY DEF FreeBehind, Then
<1> HIDE DEF wraps, next
<1>4. CASE wraps /\ next > scl
  <2>1. r.v = x.v /\ r.res = "FR_OK" /\ r.val = 0
    BY <1>3, <1>4, Returned
  <2>2. LibFree(L, v) = {}
    BY <1>1, <1>2, <1>4 DEF LibFree
  <2>3. Quiet(L, F, v, r)
    BY <1>1, <2>1, PassedOn
  <2> QED
    BY <2>1, <2>2, <2>3 DEF Searched
<1>5. CASE ~(wraps /\ next > scl)
  <2>1. PICK q \in get_fat(x.v, next) :
          r \in IF q.res = "FR_OK"
                THEN IF q.val = 0 THEN Return(q.v, next)
                     ELSE IF next = scl THEN Return(q.v, 0)
                     ELSE Again(q.v, next)
                ELSE {q}
    BY <1>3, <1>5
  <2>2. Ready(L, F, x.v) /\ Same(L, v, x.v)
    BY <1>1, QuietReady
  <2>3. GotFat(L, F, x.v, next, q)
    BY <1>2, <1>5, <2>2, GetFat
  <2>4. Quiet(L, F, v, q)
    BY <1>1, <2>3, QuietTrans DEF GotFat
  <2>5. CASE q.res # "FR_OK"
    BY <2>1, <2>3, <2>4, <2>5 DEF GotFat, Searched
  <2>6. CASE q.res = "FR_OK"
    <3>1. next \in ClusterSet /\ q.val = Lib(L, v, next)
      BY <1>2, <1>5, <2>2, <2>3, <2>6 DEF GotFat, Same
    <3>2. CASE q.val = 0
      <4>1. r.v = q.v /\ r.res = "FR_OK" /\ r.val = next
        BY <2>1, <2>6, <3>2, Returned
      <4>2. r.val \in LibFree(L, v)
        BY <3>1, <3>2, <4>1 DEF LibFree
      <4>3. Quiet(L, F, v, r)
        BY <2>4, <2>6, <4>1, PassedOn
      <4> QED
        BY <4>1, <4>2, <4>3 DEF Searched
    <3>3. CASE q.val # 0 /\ next = scl
      <4>1. r.v = q.v /\ r.res = "FR_OK" /\ r.val = 0
        BY <2>1, <2>6, <3>3, Returned
      <4>2. \A d \in ClusterSet : Lib(L, v, d) # 0
        BY <1>1, <1>2, <1>5, <3>1, <3>3
      <4>3. Quiet(L, F, v, r)
        BY <2>4, <2>6, <4>1, PassedOn
      <4> QED
        BY <4>1, <4>2, <4>3 DEF Searched, LibFree
    <3>4. CASE q.val # 0 /\ next # scl
      <4>1. r.v = q.v /\ r.res = "again" /\ r.val = next
        BY <2>1, <2>6, <3>4, Returned
      <4>2. \A d \in ClusterSet : Seen(scl, next, d) => Lib(L, v, d) # 0
        BY <1>1, <1>2, <1>5, <3>1, <3>4
      <4>3. Quiet(L, F, v, r)
        BY <2>4, <2>6, <4>1, PassedOn
      <4> QED
        BY <1>2, <1>5, <4>1, <4>2, <4>3 DEF Searched
    <3> QED
      BY <3>2, <3>3, <3>4
  <2> QED
    BY <2>5, <2>6
<1> QED
  BY <1>4, <1>5

FreeStep(scl, n, S) ==
  UNION {IF r.res = "again" THEN FreeBehind(r.v, r.val, scl) ELSE {r} : r \in S}
FreeGood(scl, q, n, S) == \A r \in S : Searched(q.L, q.F, q.v, scl, r)
Search == INSTANCE Induction WITH Step <- FreeStep, Good <- FreeGood

\* The search finds a free cluster if there is one.
LEMMA FreeFromSearches ==
  ASSUME NEW L \in Geometries, NEW F, NEW v, NEW scl,
         Ready(L, F, v), scl \in 1 .. n_fatent - 1
  PROVE  \A r \in FreeFrom(v, scl) : Searched(L, F, v, scl, r) /\ r.res # "again"
<1> DEFINE base == Again(v, scl)
           q == [L |-> L, F |-> F, v |-> v]
<1>1. FreeFrom(v, scl) =
        {r \in Search!Recursive(scl, base, n_fatent)[n_fatent] : r.res # "again"}
  BY DEF FreeFrom, Loop, Search!Recursive, FreeStep
<1>2. FreeGood(scl, q, 0, base)
  <2>1. \A r \in base : r.v = v /\ r.res = "again" /\ r.val = scl
    BY Returned
  <2>2. \A d \in ClusterSet : ~Seen(scl, scl, d)
    BY Sizes DEF Seen
  <2>3. \A r \in base : Searched(L, F, v, scl, r)
    BY <2>1, <2>2, AtOnce DEF Searched
  <2> QED
    BY <2>3 DEF FreeGood
<1>3. ASSUME NEW n \in 1 .. n_fatent, NEW S, FreeGood(scl, q, n - 1, S)
      PROVE  FreeGood(scl, q, n, FreeStep(scl, n, S))
  <2>1. ASSUME NEW r \in FreeStep(scl, n, S)
        PROVE  Searched(L, F, v, scl, r)
    <3>1. PICK x \in S : r \in IF x.res = "again" THEN FreeBehind(x.v, x.val, scl) ELSE {x}
      BY <2>1 DEF FreeStep
    <3>2. Searched(L, F, v, scl, x)
      BY <1>3 DEF FreeGood
    <3>3. CASE x.res = "again"
      BY <3>1, <3>2, <3>3, FreeBehindSearches
    <3> QED
      BY <3>1, <3>2, <3>3
  <2> QED
    BY <2>1 DEF FreeGood
<1>4. n_fatent \in Nat /\ n_fatent \in 0 .. n_fatent
  BY Sizes
<1> HIDE DEF q, base
<1>5. \A n \in 0 .. n_fatent : FreeGood(scl, q, n, Search!Recursive(scl, base, n_fatent)[n])
  BY <1>2, <1>3, <1>4, Search!RecursionInduction
<1> QED
  BY <1>1, <1>4, <1>5 DEF FreeGood, q

\* A free cluster is taken.
LEMMA TakenRecounts ==
  ASSUME NEW L \in Geometries, NEW F, NEW v, NEW ncl, Ready(L, F, v), ncl \in Nat
  PROVE  /\ Recounted(L, v, Taken(v, ncl))
         /\ Taken(v, ncl).fs.free_clst = IF v.fs.free_clst \in 1 .. Clusters
                                         THEN v.fs.free_clst - 1 ELSE v.fs.free_clst
<1>1. IsVolume(v) /\ IsFatFs(L, v.fs) /\ v.fs.free_clst \in Nat
  BY DEF Ready, Sound, Shape, IsFatFs
<1>2. Changed(v.fs) \in {"disabled", "clean", "changed"}
  BY DEF Changed
<1>3. n_fatent - 2 = Clusters
  BY Sizes, Constants
<1> DEFINE w == Taken(v, ncl)
           n == v.fs.free_clst - 1
<1>4. CASE v.fs.free_clst \in 1 .. Clusters
  <2>1. n \in Nat
    BY <1>4, Constants
  <2>2. /\ IsVolume(w) /\ w.disk = v.disk /\ w.fp = v.fp
        /\ w.fs = [v.fs EXCEPT !.last_clst = ncl, !.free_clst = n,
                               !.fsi_flag = Changed(v.fs)]
    BY <1>1, <1>3, <1>4 DEF Taken, IsVolume, IsFatFs
  <2> HIDE DEF w, n
  <2>3. /\ IsFatFs(L, w.fs) /\ w.fs.free_clst = n
        /\ w.fs.winsect = v.fs.winsect /\ w.fs.win = v.fs.win
        /\ w.fs.wflag = v.fs.wflag /\ w.fs.fs_type = v.fs.fs_type
        /\ w.fs.volbase = v.fs.volbase /\ w.fs.n_fats = v.fs.n_fats
    BY <1>1, <1>2, <2>1, <2>2 DEF IsFatFs
  <2>4. Recounted(L, v, w)
    BY <2>2, <2>3 DEF Recounted
  <2> QED
    BY <1>4, <2>3, <2>4 DEF w, n
<1>5. CASE v.fs.free_clst \notin 1 .. Clusters
  <2>1. /\ IsVolume(w) /\ w.disk = v.disk /\ w.fp = v.fp
        /\ w.fs = [v.fs EXCEPT !.last_clst = ncl]
    BY <1>1, <1>3, <1>5 DEF Taken, IsVolume
  <2> HIDE DEF w
  <2>2. /\ IsFatFs(L, w.fs) /\ w.fs.free_clst = v.fs.free_clst
        /\ w.fs.winsect = v.fs.winsect /\ w.fs.win = v.fs.win
        /\ w.fs.wflag = v.fs.wflag /\ w.fs.fs_type = v.fs.fs_type
        /\ w.fs.volbase = v.fs.volbase /\ w.fs.n_fats = v.fs.n_fats
    BY <1>1, <2>1 DEF IsFatFs
  <2>3. Recounted(L, v, w)
    BY <2>1, <2>2 DEF Recounted
  <2> QED
    BY <1>5, <2>2, <2>3 DEF w
<1> QED
  BY <1>4, <1>5

\* The result of create_chain: a cluster, or 0 if there is no free one; a new chain (c = 0)
\* is not in any entry yet.
Created(L, F, v, c, S, r) ==
  /\ Keeps(L, F, v, r) /\ r.res # "again"
  /\ c = 0 /\ r.res = "FR_OK" /\ r.val # 0 => Orphan(L, r.v, r.val)
  /\ r.res = "FR_OK" => \/ r.val = 0 /\ LibFree(L, r.v) = {}
                        \/ r.val \in S

\* A free cluster that is not one any more, and the count that goes down with it.
LEMMA TakenKeeps ==
  ASSUME NEW L \in Geometries, NEW F, NEW u, NEW w, NEW ncl,
         Ready(L, F, w), Counted(L, u), ncl \in LibFree(L, u),
         w.fs.free_clst = u.fs.free_clst, w.fp = u.fp, Free(L, w) <= Free(L, u) - 1
  PROVE  /\ Ready(L, F, Taken(w, ncl)) /\ Taken(w, ncl).fp = u.fp
         /\ Counted(L, Taken(w, ncl))
         /\ \A o : Orphan(L, w, o) => Orphan(L, Taken(w, ncl), o)
<1>1. ncl \in Nat
  BY FatSects DEF LibFree
<1>2. /\ Ready(L, F, Taken(w, ncl)) /\ Taken(w, ncl).fp = w.fp
      /\ Free(L, Taken(w, ncl)) = Free(L, w)
      /\ Taken(w, ncl).fs.free_clst = IF w.fs.free_clst \in 1 .. Clusters
                                      THEN w.fs.free_clst - 1 ELSE w.fs.free_clst
      /\ \A o : Orphan(L, w, o) => Orphan(L, Taken(w, ncl), o)
  <2>1. /\ Recounted(L, w, Taken(w, ncl))
        /\ Taken(w, ncl).fs.free_clst = IF w.fs.free_clst \in 1 .. Clusters
                                        THEN w.fs.free_clst - 1 ELSE w.fs.free_clst
    BY <1>1, TakenRecounts
  <2>2. /\ Ready(L, F, Taken(w, ncl)) /\ Free(L, Taken(w, ncl)) = Free(L, w)
        /\ \A o : Orphan(L, w, o) => Orphan(L, Taken(w, ncl), o)
    BY <2>1, RecountedReady
  <2>3. Taken(w, ncl).fp = w.fp
    BY <2>1 DEF Recounted
  <2> QED
    BY <2>1, <2>2, <2>3
<1>3. /\ Free(L, w) \in 0 .. Clusters /\ Free(L, u) \in 0 .. Clusters
      /\ w.fs.free_clst \in Nat
  BY FreeClustersCounted DEF Ready, Sound, Shape, IsFatFs
<1>4. Counted(L, Taken(w, ncl))
  BY <1>2, <1>3, Constants DEF Counted
<1> QED
  BY <1>2, <1>4

\* Take links a free cluster to its chain, or says that there is none.
LEMMA TakeCreates ==
  ASSUME NEW L \in Geometries, NEW F, NEW v, NEW c, NEW ncl,
         Ready(L, F, v), Counted(L, v), c \in Nat,
         (ncl = 0 /\ LibFree(L, v) = {}) \/ ncl \in LibFree(L, v)
  PROVE  \A r \in Take(v, c, ncl) : Created(L, F, v, c, F, r)
<1> TAKE r \in Take(v, c, ncl)
<1>1. CASE ncl = 0
  <2>1. r.v = v /\ r.res = "FR_OK" /\ r.val = 0
    BY <1>1, Returned DEF Take
  <2>2. LibFree(L, v) = {}
    BY <1>1, Sizes DEF LibFree, ClusterSet
  <2> QED
    BY <2>1, <2>2, AtOnce DEF Created
<1>2. CASE ncl # 0
  <2> DEFINE LinkedTo(u) == IF c = 0 THEN Return(u, 0) ELSE put_fat(u, c, ncl)
             After(u) == UNION {IF y.res = "FR_OK" THEN Return(Taken(y.v, ncl), ncl)
                                ELSE {y} : y \in LinkedTo(u)}
  <2>1. PICK q \in put_fat(v, ncl, EOC) : r \in IF q.res = "FR_OK" THEN After(q.v) ELSE {q}
    BY <1>2 DEF Take, Then
  <2>2. \A u, x : x \in After(u) =>
          \E y \in LinkedTo(u) : x \in IF y.res = "FR_OK" THEN Return(Taken(y.v, ncl), ncl)
                                     ELSE {y}
    OBVIOUS
  <2>3. \A u : LinkedTo(u) = IF c = 0 THEN Return(u, 0) ELSE put_fat(u, c, ncl)
    OBVIOUS
  <2> HIDE DEF After, LinkedTo
  <2>4. /\ ncl \in LibFree(L, v) /\ ncl \in ClusterSet /\ ncl \in Nat /\ ncl \in F
        /\ EOC \in Nat /\ EOC # 0
    BY <1>2, FatSects, Constants DEF LibFree, Ready, Sound, Covered, EOC
  <2>5. MayPut(F, ncl, EOC) /\ MayPut(F, c, ncl)
    BY <1>2, <2>4, Sizes, Constants DEF MayPut, Within, EOC
  <2>9. MayLink(L, v, ncl, EOC)
    BY DEF MayLink
  <2>6. PutFatResult(L, F, v, ncl, EOC, q)
    BY <2>4, <2>5, <2>9, PutFat
  <2>7. CASE q.res # "FR_OK"
    <3>1. r = q /\ Quiet(L, F, v, q) /\ q.res # "again"
      BY <2>1, <2>6, <2>7 DEF PutFatResult, Quiet
    <3> QED
      BY <2>7, <3>1, QuietKeeps DEF Created
  <2>8. CASE q.res = "FR_OK"
    <3>1. PICK y \in LinkedTo(q.v) :
            r \in IF y.res = "FR_OK" THEN Return(Taken(y.v, ncl), ncl) ELSE {y}
      BY <2>1, <2>2, <2>8
    <3>2. /\ Ready(L, F, q.v) /\ q.v.fp = v.fp /\ q.v.fs.free_clst = v.fs.free_clst
          /\ Free(L, q.v) = Free(L, v) - 1
      <4>1. Sound(L, F, q.v) /\ Entered(L, v, q.v, ncl, EOC)
        BY <2>6, <2>8 DEF PutFatResult
      <4>2. Free(L, q.v) = Free(L, v) - 1
        BY <2>4, <4>1, FreeEntered
      <4> QED
        BY <4>1, <4>2 DEF Ready, Mounted, Entered, SameRest
    <3>8. /\ Orphan(L, q.v, ncl)
          /\ \A o : Orphan(L, v, o) => o # ncl /\ Orphan(L, q.v, o)
      <4>1. Entered(L, v, q.v, ncl, EOC) /\ Linked(L, v) /\ Lib(L, v, ncl) = 0
        BY <2>4, <2>6, <2>8 DEF PutFatResult, LibFree, Ready, Sound
      <4>2. \A o : Orphan(L, v, o) => o # ncl /\ o # EOC
        BY <2>4, <4>1, NoCluster DEF Orphan, IsHead, LibFat
      <4> QED
        BY <2>4, <2>9, <4>1, <4>2, EnteredOrphans
    <3>9. MayLink(L, q.v, c, ncl)
      BY <2>4, <3>8 DEF MayLink
    <3>3. /\ Free(L, v) \in 0 .. Clusters /\ Free(L, q.v) \in 0 .. Clusters
          /\ v.fs.free_clst \in Nat
      BY FreeClustersCounted DEF Ready, Sound, Shape, IsFatFs
    <3>4. Counted(L, q.v)
      BY <3>2, <3>3, Constants DEF Counted
    <3>5. /\ Sound(L, F, y.v) /\ y.res # "again"
          /\ y.res = "cut" => Off(y.v)
          /\ y.res # "cut" => /\ Mounted(L, y.v.fs) /\ y.v.fp = v.fp
                              /\ y.v.fs.free_clst = v.fs.free_clst
                              /\ Free(L, y.v) <= Free(L, q.v)
                              /\ \A o : Orphan(L, v, o) => Orphan(L, y.v, o)
                              /\ c = 0 => Orphan(L, y.v, ncl)
      <4>1. CASE c = 0
        <5>1. y.v = q.v /\ y.res = "FR_OK"
          BY <2>3, <4>1, Returned
        <5> QED
          BY <3>2, <3>3, <3>8, <5>1 DEF Ready
      <4>2. CASE c # 0
        <5>1. PutFatResult(L, F, q.v, c, ncl, y)
          BY <2>3, <2>5, <3>2, <3>9, <4>2, PutFat
        <5>2. CASE y.res = "FR_OK"
          <6>1. Entered(L, q.v, y.v, c, ncl) /\ c \in ClusterSet
            BY <5>1, <5>2 DEF PutFatResult
          <6>2. Free(L, y.v) <= Free(L, q.v)
            BY <1>2, <6>1, FreeEntered
          <6>3. \A o : Orphan(L, v, o) => Orphan(L, y.v, o)
            <7>1. ncl # 0 /\ Linked(L, q.v)
              BY <1>2, <3>2 DEF Ready, Sound
            <7> QED
              BY <3>8, <3>9, <6>1, <7>1, EnteredOrphans
          <6> QED
            BY <3>2, <4>2, <5>1, <5>2, <6>1, <6>2, <6>3
               DEF PutFatResult, Ready, Mounted, Entered, SameRest
        <5>3. CASE y.res \notin {"FR_OK", "cut"}
          <6>1. Same(L, q.v, y.v)
            BY <5>1, <5>3 DEF PutFatResult
          <6>2. LibFree(L, y.v) = LibFree(L, q.v)
            BY <6>1 DEF Same, LibFree
          <6>3. \A o : Orphan(L, v, o) => Orphan(L, y.v, o)
            BY <3>8, <6>1, SameOrphans
          <6> QED
            BY <3>2, <3>3, <4>2, <5>1, <5>3, <6>1, <6>2, <6>3
               DEF PutFatResult, Ready, Mounted, Same, SameRest, Free
        <5>4. CASE y.res = "cut"
          BY <5>1, <5>4 DEF PutFatResult
        <5> QED
          BY <5>2, <5>3, <5>4
      <4> QED
        BY <4>1, <4>2
    <3>6. CASE y.res # "FR_OK"
      <4>1. r = y
        BY <3>1, <3>6
      <4>2. y.res # "cut" => Counted(L, y.v)
        <5>1. Free(L, y.v) \in 0 .. Clusters /\ v.fs.free_clst \in Nat
          BY FreeClustersCounted DEF Ready, Sound, Shape, IsFatFs
        <5> QED
          BY <3>2, <3>3, <3>5, <5>1 DEF Counted
      <4> QED
        BY <3>5, <3>6, <4>1, <4>2 DEF Created, Keeps, Settles
    <3>7. CASE y.res = "FR_OK"
      <4>1. r.v = Taken(y.v, ncl) /\ r.res = "FR_OK" /\ r.val = ncl
        BY <3>1, <3>7, Returned
      <4>2. Ready(L, F, y.v) /\ Free(L, y.v) <= Free(L, v) - 1
        BY <3>2, <3>3, <3>5, <3>7 DEF Ready
      <4>3. y.v.fs.free_clst = v.fs.free_clst /\ y.v.fp = v.fp /\ ncl \in LibFree(L, v)
        BY <2>4, <3>5, <3>7
      <4>4. /\ Ready(L, F, Taken(y.v, ncl)) /\ Taken(y.v, ncl).fp = v.fp
            /\ Counted(L, Taken(y.v, ncl))
            /\ \A o : Orphan(L, y.v, o) => Orphan(L, Taken(y.v, ncl), o)
        BY <4>2, <4>3, TakenKeeps
      <4> QED
        BY <2>4, <3>5, <3>7, <4>1, <4>4 DEF Created, Keeps, Settles, Ready
    <3> QED
      BY <3>6, <3>7
  <2> QED
    BY <2>7, <2>8
<1> QED
  BY <1>1, <1>2

\* create_chain after an operation that changes nothing.
LEMMA CreatedAfter ==
  ASSUME NEW L, NEW F, NEW v, NEW q, NEW c, NEW S, NEW T, NEW r, Ready(L, F, v),
         Quiet(L, F, v, q),
         q.res # "cut", Created(L, F, q.v, c, S, r), S \subseteq T
  PROVE  Created(L, F, v, c, T, r)
<1>1. Keeps(L, F, v, q)
  BY QuietKeeps
<1>2. Keeps(L, F, v, r)
  BY <1>1, KeepsTrans DEF Created
<1> QED
  BY <1>2 DEF Created

\* A volume after a call that has changed nothing.
LEMMA QuietCounted ==
  ASSUME NEW L, NEW F, NEW v, NEW q, Ready(L, F, v), Counted(L, v), Quiet(L, F, v, q),
         q.res # "cut"
  PROVE  /\ Ready(L, F, q.v) /\ Counted(L, q.v) /\ LibFree(L, q.v) = LibFree(L, v)
<1>1. Ready(L, F, q.v) /\ Same(L, v, q.v)
  BY QuietReady
<1>2. LibFree(L, q.v) = LibFree(L, v)
  BY <1>1 DEF Same, LibFree
<1> QED
  BY <1>1, <1>2, SameCounted

\* A count of 0 is to be believed.
LEMMA NoneFree ==
  ASSUME NEW L, NEW v, Counted(L, v), v.fs.free_clst = 0
  PROVE  LibFree(L, v) = {}
<1>1. Free(L, v) = 0
  BY FreeClustersCounted, Constants DEF Counted
<1> QED
  BY <1>1, FreeClustersCounted, FS_EmptySet DEF Free

SearchAndTake(v, c, scl) ==
  UNION {IF q.res = "FR_OK" THEN Take(q.v, c, q.val) ELSE {q} : q \in FreeFrom(v, scl)}

\* A cluster is searched for and taken, wherever the search begins.
LEMMA SearchTakes ==
  ASSUME NEW L \in Geometries, NEW F, NEW v, NEW c, NEW scl,
         Ready(L, F, v), Counted(L, v), c \in Nat, scl \in 1 .. n_fatent - 1
  PROVE  \A r \in SearchAndTake(v, c, scl) : Created(L, F, v, c, F, r)
<1> TAKE r \in SearchAndTake(v, c, scl)
<1>1. PICK q \in FreeFrom(v, scl) :
        r \in IF q.res = "FR_OK" THEN Take(q.v, c, q.val) ELSE {q}
  BY DEF SearchAndTake
<1>2. Searched(L, F, v, scl, q) /\ q.res # "again"
  BY FreeFromSearches
<1>3. CASE q.res # "FR_OK"
  <2>1. Keeps(L, F, v, q)
    BY <1>2, QuietKeeps DEF Searched
  <2> QED
    BY <1>1, <1>2, <1>3, <2>1 DEF Created
<1>4. CASE q.res = "FR_OK"
  <2>1. Quiet(L, F, v, q) /\ q.res # "cut"
    BY <1>2, <1>4 DEF Searched
  <2>2. /\ Ready(L, F, q.v) /\ Counted(L, q.v)
        /\ (q.val = 0 /\ LibFree(L, q.v) = {}) \/ q.val \in LibFree(L, q.v)
    <3>1. Ready(L, F, q.v) /\ Counted(L, q.v) /\ LibFree(L, q.v) = LibFree(L, v)
      BY <2>1, QuietCounted
    <3>2. (q.val = 0 /\ LibFree(L, v) = {}) \/ q.val \in LibFree(L, v)
      BY <1>2, <1>4 DEF Searched
    <3> QED
      BY <3>1, <3>2
  <2>3. Created(L, F, q.v, c, F, r)
    BY <1>1, <1>4, <2>2, TakeCreates
  <2> QED
    BY <2>1, <2>3, CreatedAfter
<1> QED
  BY <1>3, <1>4

\* create_chain for a new chain.
LEMMA NewChainCreates ==
  ASSUME NEW L \in Geometries, NEW F, NEW v, Ready(L, F, v), Counted(L, v)
  PROVE  \A r \in NewChain(v) : Created(L, F, v, 0, F, r)
<1> TAKE r \in NewChain(v)
<1> DEFINE hint == v.fs.last_clst
           scl == IF hint = 0 \/ hint >= n_fatent THEN 1 ELSE hint
<1>1. r \in IF v.fs.free_clst = 0 THEN Return(v, 0)
            ELSE SearchAndTake(v, 0, scl)
  BY DEF NewChain, SearchAndTake, Then
<1>2. scl \in 1 .. n_fatent - 1
  <2>1. hint \in Nat /\ n_fatent \in Nat /\ n_fatent >= 3
    BY Sizes, Constants DEF Ready, Sound, Shape, IsFatFs
  <2> QED
    BY <2>1
<1> HIDE DEF scl
<1>3. CASE v.fs.free_clst = 0
  <2>1. r.v = v /\ r.res = "FR_OK" /\ r.val = 0
    BY <1>1, <1>3, Returned
  <2> QED
    BY <1>3, <2>1, AtOnce, NoneFree DEF Created
<1>4. CASE v.fs.free_clst # 0
  <2>1. 0 \in Nat
    OBVIOUS
  <2>2. \A x \in SearchAndTake(v, 0, scl) : Created(L, F, v, 0, F, x)
    BY <1>2, <2>1, SearchTakes
  <2> QED
    BY <1>1, <1>4, <2>2
<1> QED
  BY <1>3, <1>4

\* create_chain for a chain that gets longer.
LEMMA StretchCreates ==
  ASSUME NEW L \in Geometries, NEW F, NEW v, NEW c, Ready(L, F, v), Counted(L, v),
         c \in ClusterSet
  PROVE  \A r \in Stretch(v, c) : Created(L, F, v, c, F, r)
<1> TAKE r \in Stretch(v, c)
<1> DEFINE neighbour == IF c + 1 >= n_fatent THEN 2 ELSE c + 1
           hint == v.fs.last_clst
           scl == IF IsCluster(hint) THEN hint ELSE c
<1>1. r \in IF v.fs.free_clst = 0 THEN Return(v, 0)
            ELSE UNION {IF q.res = "FR_OK"
                        THEN IF q.val = 0 THEN Take(q.v, c, neighbour)
                             ELSE SearchAndTake(q.v, c, scl)
                        ELSE {q} : q \in get_fat(v, neighbour)}
  BY DEF Stretch, Then, SearchAndTake
<1>2. /\ neighbour \in ClusterSet /\ neighbour \in Nat /\ c \in Nat
      /\ scl \in 1 .. n_fatent - 1
  <2>1. hint \in Nat /\ n_fatent \in Nat /\ n_fatent >= 3
    BY Sizes, Constants DEF Ready, Sound, Shape, IsFatFs
  <2> QED
    BY <2>1 DEF ClusterSet, IsCluster
<1>4. CASE v.fs.free_clst = 0
  <2>1. r.v = v /\ r.res = "FR_OK" /\ r.val = 0
    BY <1>1, <1>4, Returned
  <2> QED
    BY <1>4, <2>1, AtOnce, NoneFree DEF Created
<1>5. CASE v.fs.free_clst # 0
  <2>1. PICK q \in get_fat(v, neighbour) :
          r \in IF q.res = "FR_OK"
                THEN IF q.val = 0 THEN Take(q.v, c, neighbour)
                     ELSE SearchAndTake(q.v, c, scl)
                ELSE {q}
    BY <1>1, <1>5
  <2>2. GotFat(L, F, v, neighbour, q)
    BY <1>2, GetFat
  <2>3. CASE q.res # "FR_OK"
    <3>1. Keeps(L, F, v, q)
      BY <2>2, QuietKeeps DEF GotFat
    <3> QED
      BY <2>1, <2>2, <2>3, <3>1 DEF Created, GotFat
  <2>4. CASE q.res = "FR_OK"
    <3>1. Quiet(L, F, v, q) /\ q.res # "cut"
      BY <2>2, <2>4 DEF GotFat
    <3>2. Ready(L, F, q.v) /\ Counted(L, q.v) /\ LibFree(L, q.v) = LibFree(L, v)
      BY <3>1, QuietCounted
    <3>3. Created(L, F, q.v, c, F, r)
      <4>1. CASE q.val = 0
        <5>1. neighbour \in LibFree(L, q.v)
          BY <1>2, <2>2, <2>4, <3>2, <4>1 DEF GotFat, LibFree
        <5>2. r \in Take(q.v, c, neighbour)
          BY <2>1, <2>4, <4>1
        <5> QED
          BY <1>2, <3>2, <5>1, <5>2, TakeCreates
      <4>2. CASE q.val # 0
        BY <1>2, <2>1, <2>4, <3>2, <4>2, SearchTakes
      <4> QED
        BY <4>1, <4>2
    <3> QED
      BY <3>1, <3>3, CreatedAfter
  <2> QED
    BY <2>3, <2>4
<1> QED
  BY <1>4, <1>5

\* create_chain: a cluster, in no entry yet if it begins a chain, or none is free.
LEMMA CreateChain ==
  ASSUME NEW L \in Geometries, NEW F, NEW v, NEW c, Ready(L, F, v), Counted(L, v), c \in Nat
  PROVE  \A r \in create_chain(v, c) :
           Created(L, F, v, c, IF c = 0 THEN F ELSE ClusterSet, r)
<1> TAKE r \in create_chain(v, c)
<1>1. CASE c = 0
  <2>1. r \in NewChain(v)
    BY <1>1 DEF create_chain
  <2> QED
    BY <1>1, <2>1, NewChainCreates
<1>2. CASE c # 0
  <2>1. PICK q \in get_fat(v, c) :
          r \in IF q.res = "FR_OK"
                THEN IF q.val < 2 THEN Fails(q.v, "FR_INT_ERR")
                     ELSE IF q.val < n_fatent THEN Return(q.v, q.val)
                     ELSE Stretch(q.v, c)
                ELSE {q}
    BY <1>2 DEF create_chain, Then
  <2>2. GotFat(L, F, v, c, q)
    BY GetFat
  <2>3. Keeps(L, F, v, q)
    BY <2>2, QuietKeeps DEF GotFat
  <2>4. CASE q.res # "FR_OK"
    BY <1>2, <2>1, <2>2, <2>3, <2>4 DEF Created, GotFat
  <2>5. CASE q.res = "FR_OK" /\ q.val < 2
    <3>1. r.v = q.v /\ r.res = "FR_INT_ERR"
      BY <2>1, <2>5, Returned
    <3> QED
      BY <2>3, <2>5, <3>1, PassedOn DEF Created
  <2>6. CASE q.res = "FR_OK" /\ ~(q.val < 2) /\ q.val < n_fatent
    <3>1. r.v = q.v /\ r.res = "FR_OK" /\ r.val = q.val
      BY <2>1, <2>6, Returned
    <3>2. r.val \in ClusterSet
      BY <2>2, <2>6, <3>1, Sizes DEF GotFat, ClusterSet
    <3> QED
      BY <1>2, <2>3, <2>6, <3>1, <3>2, PassedOn DEF Created
  <2>7. CASE q.res = "FR_OK" /\ ~(q.val < 2) /\ ~(q.val < n_fatent)
    <3>1. Quiet(L, F, v, q) /\ q.res # "cut" /\ c \in ClusterSet
      BY <2>2, <2>7 DEF GotFat
    <3>2. Ready(L, F, q.v) /\ Counted(L, q.v)
      BY <3>1, QuietCounted
    <3>3. Created(L, F, q.v, c, F, r)
      BY <2>1, <2>7, <3>1, <3>2, StretchCreates
    <3>4. F \subseteq ClusterSet
      BY DEF Ready, Sound, Covered
    <3> QED
      BY <1>2, <3>1, <3>3, <3>4, CreatedAfter
  <2> QED
    BY <2>4, <2>5, <2>6, <2>7
<1> QED
  BY <1>1, <1>2

--------------------------------------------------------------------------------
\* Directories.

\* Multiplication by n keeps the order.
LEMMA Monotone ==
  ASSUME NEW n \in Nat, NEW a \in Nat, NEW b \in Nat, a <= b
  PROVE  n * a <= n * b
OBVIOUS

\* Every sector of a cluster is behind the FATs, and so is the root directory of FAT16;
\* that of FAT32 is a cluster.
LEMMA ClusterSectors ==
  ASSUME NEW L \in Geometries, NEW f, Mounted(L, f)
  PROVE  /\ \A c \in ClusterSet : /\ clst2sect(f, c) = clst2sect(L, c)
                                  /\ clst2sect(f, c) \in Nat /\ clst2sect(f, c) # 0
                                  /\ \A k \in 0 .. csize - 1 :
                                       clst2sect(f, c) + k \in PlainSectors(L)
         /\ \A c \in Nat : c \notin ClusterSet => clst2sect(f, c) = 0
         /\ IsFat32(f) => dirbase(f) = 2 /\ 2 \in ClusterSet
         /\ ~IsFat32(f) => dirbase(f) \in PlainSectors(L) /\ dirbase(f) # 0
<1>1. /\ database(f) = database(L) /\ fatbase(f) = fatbase(L) /\ f.n_fats = L.n_fats
      /\ f.fs_type = L.fs_type
  BY DEF Mounted, database, fatbase, RootSectors
<1>2. /\ database(L) \in Nat /\ PlainStart(L) \in Nat /\ PlainStart(L) > 0
      /\ database(L) >= PlainStart(L)
      /\ LastSector(L) = database(L) + csize * Clusters - 1
      /\ csize * Clusters \in Nat \ {0}
      /\ L.fs_type = "FAT16" => database(L) = PlainStart(L) + 1
      /\ L.fs_type \in {"FAT16", "FAT32"}
  BY Places, Sizes
<1>3. ASSUME NEW c \in ClusterSet
      PROVE  /\ clst2sect(f, c) = clst2sect(L, c)
             /\ clst2sect(f, c) \in Nat /\ clst2sect(f, c) # 0
             /\ \A k \in 0 .. csize - 1 : clst2sect(f, c) + k \in PlainSectors(L)
  <2>1. c - 2 \in Nat /\ Clusters - 1 \in Nat /\ c - 2 <= Clusters - 1 /\ IsCluster(c)
    BY Sizes, Constants DEF ClusterSet, IsCluster
  <2>2. csize * (c - 2) <= csize * (Clusters - 1)
    BY <2>1, Constants, Monotone
  <2>3. /\ csize * (c - 2) \in Nat
        /\ csize * (Clusters - 1) = csize * Clusters - csize
    BY <2>1, Constants
  <2>4. /\ clst2sect(f, c) = database(L) + csize * (c - 2)
        /\ clst2sect(L, c) = database(L) + csize * (c - 2)
    BY <1>1, <2>1 DEF clst2sect
  <2> QED
    BY <1>2, <2>2, <2>3, <2>4, Constants DEF PlainSectors
<1>4. \A c \in Nat : c \notin ClusterSet => clst2sect(f, c) = 0
  BY FatSects DEF clst2sect
<1>5. IsFat32(f) => dirbase(f) = 2 /\ 2 \in ClusterSet
  BY Sizes, Constants DEF IsFat32, dirbase, ClusterSet
<1>6. ~IsFat32(f) => dirbase(f) \in PlainSectors(L) /\ dirbase(f) # 0
  <2>1. ~IsFat32(f) => dirbase(f) = PlainStart(L) /\ L.fs_type = "FAT16"
    BY <1>1, <1>2 DEF IsFat32, dirbase, PlainStart
  <2> QED
    BY <1>2, <2>1 DEF PlainSectors
<1> QED
  BY <1>3, <1>4, <1>5, <1>6

\* Entries and tables.
LEMMA Entries ==
  /\ \A name, dir : \A clst \in Nat :
       dir \in BOOLEAN =>
         IsEntry([name |-> name, clst |-> clst, size |-> 0, dir |-> dir])
  /\ \A e, name : IsEntry(e) => IsEntry([e EXCEPT !.name = name])
  /\ \A e, name : \A clst \in Nat :
       IsEntry(e) /\ e.size = 0 => IsEntry([e EXCEPT !.name = name, !.clst = clst])
  /\ \A e : \A clst, size \in Nat :
       IsEntry(e) /\ (size > 0 => clst # 0) =>
         IsEntry([e EXCEPT !.clst = clst, !.size = size])
<1>1. \A name, dir : \A clst \in Nat :
        dir \in BOOLEAN =>
          IsEntry([name |-> name, clst |-> clst, size |-> 0, dir |-> dir])
  BY DEF IsEntry
<1>2. \A e, name : IsEntry(e) => IsEntry([e EXCEPT !.name = name])
  BY DEF IsEntry
<1>3. ASSUME NEW e, NEW name, NEW clst \in Nat, IsEntry(e), e.size = 0
      PROVE  IsEntry([e EXCEPT !.name = name, !.clst = clst])
  <2> DEFINE f == [e EXCEPT !.name = name, !.clst = clst]
  <2>1. f.size = 0
    BY <1>3 DEF IsEntry
  <2>2. f \in [name : {f.name}, clst : Nat, size : Nat, dir : BOOLEAN]
    BY <1>3 DEF IsEntry
  <2> HIDE DEF f
  <2>3. IsEntry(f)
    BY <2>1, <2>2 DEF IsEntry
  <2> QED
    BY <2>3 DEF f
<1>4. \A e : \A clst, size \in Nat :
        IsEntry(e) /\ (size > 0 => clst # 0) =>
          IsEntry([e EXCEPT !.clst = clst, !.size = size])
  BY DEF IsEntry
<1> QED
  BY <1>1, <1>2, <1>3, <1>4

\* What fits behind the FATs is read as a table of entries, the other way too.
LEMMA Tables ==
  /\ IsEntry(FreeEntry) /\ IsEntry([FreeEntry EXCEPT !.name = "junk"])
  /\ IsTable(ZeroDir.table)
  /\ \A L \in Geometries : \A s \in PlainSectors(L) : \A x :
       Fits(L, s, x) => IsTable(AsDir(x))
  /\ \A t, i, e : IsTable(t) /\ IsEntry(e) => IsTable([t EXCEPT ![i] = e])
<1>1. IsEntry(FreeEntry) /\ IsEntry([FreeEntry EXCEPT !.name = "junk"])
  <2>1. 0 \in Nat
    OBVIOUS
  <2>2. IsEntry(FreeEntry)
    BY <2>1, Entries, Zenon DEF FreeEntry
  <2> QED
    BY <2>2, Entries
<1>2. IsTable(ZeroDir.table)
  BY <1>1 DEF IsTable, ZeroDir
<1>3. ASSUME NEW L \in Geometries, NEW s \in PlainSectors(L), NEW x, Fits(L, s, x)
      PROVE  IsTable(AsDir(x))
  <2>1. x.kind = "dir" => IsTable(x.table)
    BY <1>3, Regions DEF Fits
  <2> HIDE DEF FreeEntry
  <2>2. IsTable([i \in 0 .. DirEntries - 1 |-> [FreeEntry EXCEPT !.name = "junk"]])
    BY <1>1 DEF IsTable
  <2> QED
    BY <2>1, <2>2 DEF AsDir
<1>4. ASSUME NEW t, NEW i, NEW e, IsTable(t), IsEntry(e)
      PROVE  IsTable([t EXCEPT ![i] = e])
  BY <1>4 DEF IsTable
<1> QED
  BY <1>1, <1>2, <1>3, <1>4

\* A table fits behind the FATs.
LEMMA TableFits ==
  ASSUME NEW L \in Geometries, NEW s \in PlainSectors(L), NEW t, IsTable(t)
  PROVE  Fits(L, s, [kind |-> "dir", table |-> t])
<1>1. /\ s >= fatbase(L) /\ s >= PlainStart(L) /\ s \in Nat /\ PlainStart(L) \in Nat
      /\ fatbase(L) = L.volbase + 2 /\ L.volbase \in Nat
  BY Regions, Places
<1> QED
  BY <1>1 DEF Fits

\* A table changed in the window.
WithTable(v, t) == [v EXCEPT !.fs.win = [kind |-> "dir", table |-> t], !.fs.wflag = TRUE]

\* What an operation leaves that may put the name of a chain into a directory.
SameFat(L, v, w) ==
  SameRest(v, w) /\ \A c \in ClusterSet : Lib(L, w, c) = Lib(L, v, c)

\* As many free clusters as before.
LEMMA SameFatCounted ==
  ASSUME NEW L, NEW v, NEW w, SameFat(L, v, w)
  PROVE  /\ LibFree(L, w) = LibFree(L, v)
         /\ Counted(L, v) => Counted(L, w)
<1>1. LibFree(L, w) = LibFree(L, v)
  BY DEF SameFat, LibFree
<1> QED
  BY <1>1 DEF Counted, Free, SameFat, SameRest

TableIn(L, v, w, t) ==
  /\ w.disk = v.disk /\ w.fp = v.fp
  /\ v.fs.winsect \in PlainSectors(L) /\ w.fs.winsect = v.fs.winsect
  /\ w.fs.win = [kind |-> "dir", table |-> t] /\ w.fs.wflag

\* With such a sector in the window the library has the FAT of the card.
LEMMA TableFats ==
  ASSUME NEW L \in Geometries, NEW v, NEW w, NEW t, TableIn(L, v, w, t)
  PROVE  /\ LibFat(L, v) = CardFat(L, v) /\ LibFat(L, w) = CardFat(L, v)
         /\ CardFat(L, w) = CardFat(L, v)
<1>1. \A c \in ClusterSet : FatSect(L, c) # v.fs.winsect
  BY FatSects, Regions DEF TableIn
<1> QED
  BY <1>1 DEF LibFat, CardFat, Lib, Card, TableIn

\* With a table in the window no more is held than before and what it has.
LEMMA TableHeld ==
  ASSUME NEW L, NEW v, NEW w, NEW t, TableIn(L, v, w, t), NEW h \in Held(L, w)
  PROVE  \/ h \in Held(L, v)
         \/ h.sect = v.fs.winsect /\ h.slot \in Slots /\ h.e = t[h.slot] /\ Live(h.e)
<1>1. /\ h.sect \in PlainSectors(L) /\ h.slot \in Slots /\ Live(h.e)
      /\ h = [sect |-> h.sect, slot |-> h.slot, e |-> h.e]
  BY HeldIs
<1>2. PICK x \in Versions(w, h.sect) : h.e = AsDir(x)[h.slot]
  BY HeldIs
<1>3. CASE x \in Versions(v, h.sect)
  BY <1>1, <1>2, <1>3, HeldIs
<1>4. CASE h.sect = v.fs.winsect /\ x = [kind |-> "dir", table |-> t]
  BY <1>1, <1>2, <1>4 DEF AsDir
<1> QED
  BY <1>3, <1>4 DEF Versions, TableIn

\* Entries without a chain, before a file is open.
LEMMA DeadLinked ==
  ASSUME NEW L \in Geometries, NEW v, NEW w, NEW t, Linked(L, v), TableIn(L, v, w, t),
         ~v.fp.open,
         \A i \in Slots : t[i] = AsDir(v.fs.win)[i] \/ ~Live(t[i])
  PROVE  Linked(L, w) /\ Held(L, w) \subseteq Held(L, v)
<1>1. ASSUME NEW h \in Held(L, w)
      PROVE  h \in Held(L, v)
  <2>1. CASE h.sect = v.fs.winsect /\ h.slot \in Slots /\ h.e = t[h.slot] /\ Live(h.e)
    <3>1. h.e = AsDir(v.fs.win)[h.slot] /\ v.fs.win \in Versions(v, h.sect)
      BY <2>1 DEF Versions
    <3>2. h = [sect |-> h.sect, slot |-> h.slot, e |-> h.e]
      BY HeldIs
    <3> QED
      BY <2>1, <3>1, <3>2, HeldIs DEF TableIn
  <2> QED
    BY <2>1, TableHeld
<1>2. NameKept(L, w) /\ Faithful(L, w)
  BY DEF TableIn, NameKept, Faithful
<1> QED
  BY <1>1, <1>2, TableFats, LinkedFrom DEF TableIn

\* The name of a chain that is in no entry yet, or the entry of the open file.
MayHold(L, v, i, e) ==
  /\ Live(e) => \/ Orphan(L, v, e.clst)
                \/ /\ e.clst = v.fp.sclust /\ e.name = L.name
                   /\ v.fs.winsect = v.fp.dir_sect /\ i = v.fp.dir_ptr
  /\ v.fp.open /\ v.fs.winsect = v.fp.dir_sect /\ i = v.fp.dir_ptr => e.name \in Names(L)

\* A table with one entry changed keeps the links.
LEMMA LiveLinked ==
  ASSUME NEW L \in Geometries, NEW v, NEW w, NEW t, NEW i \in Slots, Linked(L, v),
         TableIn(L, v, w, t), MayHold(L, v, i, t[i]),
         \A j \in Slots : j # i => t[j] = AsDir(v.fs.win)[j]
  PROVE  Linked(L, w)
<1> DEFINE f == LibFat(L, v)
           e == t[i]
           s == v.fs.winsect
<1>1. f = CardFat(L, v) /\ LibFat(L, w) = f /\ CardFat(L, w) = f
  BY TableFats
<1>2. w.fp = v.fp /\ w.fs.winsect = s /\ s \in PlainSectors(L)
  BY DEF TableIn
<1>3. /\ HeadsIn(L, f, Held(L, v)) /\ Apart(L, Held(L, v))
      /\ OwnFile(L, f, Held(L, v), v.fp)
  BY DEF Linked, Owned
<1> HIDE DEF f
<1>4. ASSUME NEW h \in Held(L, w), h \notin Held(L, v)
      PROVE  h.sect = s /\ h.slot = i /\ h.e = e /\ Live(e)
  <2>1. h.sect = s /\ h.slot \in Slots /\ h.e = t[h.slot] /\ Live(h.e)
    BY <1>4, TableHeld
  <2>2. CASE h.slot # i
    <3>1. h.e = AsDir(v.fs.win)[h.slot] /\ v.fs.win \in Versions(v, h.sect)
      BY <2>1, <2>2 DEF Versions
    <3>2. h = [sect |-> h.sect, slot |-> h.slot, e |-> h.e]
      BY HeldIs
    <3> QED
      BY <1>2, <1>4, <2>1, <3>1, <3>2, HeldIs
  <2> QED
    BY <2>1, <2>2
<1>5. Live(e) => \/ Orphan(L, v, e.clst)
                 \/ /\ e.clst = v.fp.sclust /\ e.name = L.name
                    /\ s = v.fp.dir_sect /\ i = v.fp.dir_ptr
  BY DEF MayHold
<1>6. Live(e) => e.clst # 0
  BY DEF Live
<1> HIDE DEF e, s
<1>7. Live(e) => IsHead(f, e.clst) /\ ~IsRoot(L, e.clst)
  BY <1>3, <1>5, <1>6 DEF Orphan, OwnFile, f
<1>8. HeadsIn(L, f, Held(L, w))
  BY <1>3, <1>4, <1>7 DEF HeadsIn
<1>9. ASSUME Live(e), NEW k \in Held(L, v), k.e.clst = e.clst
      PROVE  k.sect = s /\ k.slot = i /\ k.e.name = e.name
  BY <1>3, <1>5, <1>6, <1>9 DEF Orphan, OwnFile
<1>10. Apart(L, Held(L, w))
  <2>1. \A h \in Held(L, w) : ~IsRoot(L, h.e.clst)
    BY <1>3, <1>4, <1>7 DEF Apart
  <2>2. ASSUME NEW h \in Held(L, w), NEW k \in Held(L, w), h.e.clst = k.e.clst
        PROVE  h.sect = k.sect /\ h.slot = k.slot /\ h.e.name = k.e.name
    <3>1. CASE h \in Held(L, v) /\ k \in Held(L, v)
      BY <1>3, <2>2, <3>1 DEF Apart
    <3>2. CASE h \notin Held(L, v) /\ k \in Held(L, v)
      BY <1>4, <1>9, <2>2, <3>2
    <3>3. CASE h \in Held(L, v) /\ k \notin Held(L, v)
      BY <1>4, <1>9, <2>2, <3>3
    <3>4. CASE h \notin Held(L, v) /\ k \notin Held(L, v)
      BY <1>4, <3>4
    <3> QED
      BY <3>1, <3>2, <3>3, <3>4
  <2> QED
    BY <2>1, <2>2 DEF Apart
<1>11. OwnFile(L, f, Held(L, w), v.fp)
  <2>1. ASSUME v.fp.sclust # 0, NEW h \in Held(L, w), h.e.clst = v.fp.sclust
        PROVE  h.sect = v.fp.dir_sect /\ h.slot = v.fp.dir_ptr /\ h.e.name = L.name
    BY <1>3, <1>4, <1>5, <2>1 DEF OwnFile, Orphan
  <2> QED
    BY <1>3, <2>1 DEF OwnFile
<1>12. Faithful(L, w)
  BY DEF Faithful, TableIn
<1>13. NameKept(L, w)
  <2>1. SUFFICES ASSUME v.fp.open
                 PROVE  NameKept(L, w)
    BY <1>2 DEF NameKept
  <2>2. /\ v.fp.dir_sect \in PlainSectors(L) /\ v.fp.dir_ptr \in Slots
        /\ LibName(v) \in Names(L)
    BY <2>1 DEF Linked, NameKept
  <2>3. LibName(w) \in Names(L)
    <3>1. CASE v.fs.winsect # v.fp.dir_sect
      BY <2>2, <3>1 DEF LibName, CardName, TableIn
    <3>2. CASE v.fs.winsect = v.fp.dir_sect
      <4>1. LibName(w) = t[v.fp.dir_ptr].name
        BY <3>2 DEF LibName, TableIn, AsDir
      <4>2. CASE v.fp.dir_ptr = i
        BY <2>1, <3>2, <4>1, <4>2 DEF MayHold
      <4>3. CASE v.fp.dir_ptr # i
        BY <2>2, <3>2, <4>1, <4>3 DEF LibName
      <4> QED
        BY <4>2, <4>3
    <3> QED
      BY <3>1, <3>2
  <2> QED
    BY <2>2, <2>3 DEF NameKept, TableIn
<1> QED
  BY <1>1, <1>2, <1>8, <1>10, <1>11, <1>12, <1>13 DEF Linked, Owned

\* A table in the window keeps the volume sound if it keeps the links.
LEMMA TableSound ==
  ASSUME NEW L \in Geometries, NEW F, NEW v, NEW t, Ready(L, F, v),
         v.fs.winsect \in PlainSectors(L), IsTable(t),
         TableIn(L, v, WithTable(v, t), t) => Linked(L, WithTable(v, t))
  PROVE  /\ Ready(L, F, WithTable(v, t)) /\ SameFat(L, v, WithTable(v, t))
         /\ TableIn(L, v, WithTable(v, t), t)
<1> DEFINE w == WithTable(v, t)
           win == [kind |-> "dir", table |-> t]
<1>1. /\ IsVolume(w) /\ w.disk = v.disk /\ w.fp = v.fp
      /\ w.fs = [v.fs EXCEPT !.win = win, !.wflag = TRUE]
  BY DEF Ready, Sound, Shape, IsVolume, WithTable
<1>2. Fits(L, v.fs.winsect, win)
  BY TableFits
<1> HIDE DEF w, win
<1>3. /\ IsFatFs(L, w.fs) /\ w.fs.wflag = TRUE /\ w.fs.winsect = v.fs.winsect
      /\ w.fs.win = win /\ SameRest(v, w)
  BY <1>1 DEF Ready, Sound, Shape, IsFatFs, SameRest
<1>4. v.fs.winsect >= fatbase(L) /\ v.fs.winsect \notin FirstFat(L)
  BY Regions
<1>5. \A c \in ClusterSet : Lib(L, w, c) = Lib(L, v, c)
  BY <1>1, <1>3, <1>4, FatSects DEF Lib, Card
<1>6. Mounted(L, w.fs)
  BY <1>3 DEF Ready, Mounted, SameRest
<1>8. TableIn(L, v, w, t)
  BY <1>1, <1>3 DEF TableIn, win
<1>9. Linked(L, w)
  BY <1>8 DEF w
<1>7. Sound(L, F, w)
  <2>1. /\ w.fs.winsect # NoSector => Fits(L, w.fs.winsect, w.fs.win)
        /\ w.fs.wflag => w.fs.winsect >= fatbase(L) /\ Mounted(L, w.fs)
        /\ w.fs.winsect \in FirstFat(L) /\ ~w.fs.wflag => w.fs.win = v.disk[w.fs.winsect]
    BY <1>2, <1>3, <1>4, <1>6
  <2> QED
    BY <1>1, <1>3, <1>5, <1>9, <2>1, FsSound DEF Ready
<1> QED
  BY <1>3, <1>5, <1>6, <1>7, <1>8 DEF Ready, SameFat, w

\* One entry: without a chain, and any.
LEMMA EntrySectors ==
  ASSUME NEW L \in Geometries, NEW F, NEW v, NEW dp, NEW e, Ready(L, F, v),
         v.fs.winsect \in PlainSectors(L), IsEntry(e), dp.dptr \in Nat
  PROVE  /\ IsEntry(EntryAt(v, dp)) /\ dp.dptr % DirEntries \in Slots
         /\ ~v.fp.open /\ ~Live(e) =>
              Ready(L, F, PutEntry(v, dp, e)) /\ Same(L, v, PutEntry(v, dp, e))
         /\ MayHold(L, v, dp.dptr % DirEntries, e) =>
              Ready(L, F, PutEntry(v, dp, e)) /\ SameFat(L, v, PutEntry(v, dp, e))
         /\ PutEntry(v, dp, e).fs.winsect = v.fs.winsect
         /\ EntryAt(PutEntry(v, dp, e), dp) = e
<1>1. Fits(L, v.fs.winsect, v.fs.win)
  BY Regions DEF Ready, Sound, Contents
<1>2. IsTable(AsDir(v.fs.win))
  BY <1>1, Tables
<1>3. dp.dptr % DirEntries \in Slots
  BY Constants, Division DEF Slots
<1>4. IsEntry(EntryAt(v, dp))
  BY <1>2, <1>3 DEF IsTable, EntryAt, Slots
<1> DEFINE i == dp.dptr % DirEntries
           t == [AsDir(v.fs.win) EXCEPT ![i] = e]
<1>5. IsTable(t)
  BY <1>2, Tables
<1>6. PutEntry(v, dp, e) = WithTable(v, t)
  BY DEF PutEntry, WithTable
<1>8. t[i] = e /\ \A j \in Slots : j # i => t[j] = AsDir(v.fs.win)[j]
  BY <1>2, <1>3 DEF IsTable, Slots
<1>9. /\ WithTable(v, t).fs.winsect = v.fs.winsect
      /\ WithTable(v, t).fs.win = [kind |-> "dir", table |-> t]
  BY DEF WithTable, Ready, Sound, Shape, IsVolume, IsFatFs
<1> HIDE DEF t, i
<1>10. EntryAt(WithTable(v, t), dp) = e
  <2>1. AsDir(WithTable(v, t).fs.win) = t
    BY <1>9 DEF AsDir
  <2> QED
    BY <1>8, <2>1 DEF EntryAt, i
<1>11. Linked(L, v)
  BY DEF Ready, Sound
<1>7. ASSUME ~v.fp.open, ~Live(e)
      PROVE  Ready(L, F, WithTable(v, t)) /\ Same(L, v, WithTable(v, t))
  <2>1. \A j \in Slots : t[j] = AsDir(v.fs.win)[j] \/ ~Live(t[j])
    BY <1>7, <1>8
  <2>2. TableIn(L, v, WithTable(v, t), t) =>
          Linked(L, WithTable(v, t)) /\ Held(L, WithTable(v, t)) \subseteq Held(L, v)
    BY <1>7, <1>11, <2>1, DeadLinked
  <2>3. Ready(L, F, WithTable(v, t)) /\ SameFat(L, v, WithTable(v, t))
        /\ TableIn(L, v, WithTable(v, t), t)
    BY <1>5, <2>2, TableSound
  <2> QED
    BY <2>2, <2>3 DEF Same, SameFat
<1>12. ASSUME MayHold(L, v, i, e)
       PROVE  Ready(L, F, WithTable(v, t)) /\ SameFat(L, v, WithTable(v, t))
  <2>1. TableIn(L, v, WithTable(v, t), t) => Linked(L, WithTable(v, t))
    BY <1>3, <1>8, <1>11, <1>12, LiveLinked DEF i
  <2> QED
    BY <1>5, <2>1, TableSound
<1> QED
  BY <1>3, <1>4, <1>6, <1>7, <1>9, <1>10, <1>12 DEF i

\* The dot entries hold no chain.
LEMMA DotsSound ==
  ASSUME NEW L \in Geometries, NEW F, NEW v, NEW c \in Nat, NEW parent \in Nat,
         Ready(L, F, v), v.fs.winsect \in PlainSectors(L), ~v.fp.open
  PROVE  Ready(L, F, DotEntries(v, c, parent)) /\ Same(L, v, DotEntries(v, c, parent))
<1>1. Fits(L, v.fs.winsect, v.fs.win)
  BY Regions DEF Ready, Sound, Contents
<1> DEFINE dot == [name |-> "dot", clst |-> c, size |-> 0, dir |-> TRUE]
           dotdot == [dot EXCEPT !.name = "dotdot", !.clst = parent]
           t == [AsDir(v.fs.win) EXCEPT ![0] = dot, ![1] = dotdot]
<1>2. IsEntry(dot) /\ IsEntry(dotdot)
  <2>1. IsEntry(dot)
    BY Entries, Zenon
  <2>2. dot.size = 0
    OBVIOUS
  <2> HIDE DEF dot
  <2> QED
    BY <2>1, <2>2, Entries
<1>3. DotEntries(v, c, parent) = WithTable(v, t)
  BY DEF DotEntries, WithTable
<1>6. ~Live(dot) /\ ~Live(dotdot)
  BY DEF Live
<1> HIDE DEF dot, dotdot
<1>4. IsTable(t)
  BY <1>1, <1>2, Tables
<1>7. \A j \in Slots : t[j] = AsDir(v.fs.win)[j] \/ ~Live(t[j])
  <2>1. IsTable(AsDir(v.fs.win))
    BY <1>1, Tables
  <2> QED
    BY <1>6, <2>1 DEF IsTable, Slots
<1> HIDE DEF t
<1>8. TableIn(L, v, WithTable(v, t), t) =>
        Linked(L, WithTable(v, t)) /\ Held(L, WithTable(v, t)) \subseteq Held(L, v)
  BY <1>7, DeadLinked DEF Ready, Sound
<1>9. /\ Ready(L, F, WithTable(v, t)) /\ SameFat(L, v, WithTable(v, t))
      /\ TableIn(L, v, WithTable(v, t), t)
  BY <1>4, <1>8, TableSound
<1>5. Ready(L, F, WithTable(v, t)) /\ Same(L, v, WithTable(v, t))
  BY <1>8, <1>9 DEF Same, SameFat
<1> QED
  BY <1>3, <1>5

\* dir_clear.
Zeroed(L, F, v, s, r) ==
  /\ Quiet(L, F, v, r)
  /\ r.res # "cut" => r.v.fs.winsect = s /\ r.v.fs.win = ZeroDir
  /\ r.res = "again" => r.val \in 0 .. csize - 1

ZeroStep(p, n, S) == UNION {IF r.res = "again" THEN ZeroOne(r.v, r.val) ELSE {r} : r \in S}
ZeroGood(p, q, n, S) == \A r \in S : Zeroed(q.L, q.F, q.v, q.s, r)
Zero == INSTANCE Induction WITH Step <- ZeroStep, Good <- ZeroGood

\* A round of dir_clear.
LEMMA ZeroOneQuiet ==
  ASSUME NEW L \in Geometries, NEW F, NEW v, NEW c \in ClusterSet, NEW x, Ready(L, F, v),
         Zeroed(L, F, v, clst2sect(L, c), x), x.res = "again"
  PROVE  \A r \in ZeroOne(x.v, x.val) : Zeroed(L, F, v, clst2sect(L, c), r)
<1> TAKE r \in ZeroOne(x.v, x.val)
<1> DEFINE s == clst2sect(L, c)
<1>1. PICK q \in disk_write(x.v, x.v.fs.winsect + x.val, ZeroDir) :
        r \in IF q.res = "FR_OK"
              THEN IF x.val + 1 < csize THEN Again(q.v, x.val + 1) ELSE Return(q.v, 0)
              ELSE {q}
  BY DEF ZeroOne, Then
<1>2. /\ x.v.fs.winsect = s /\ x.v.fs.win = ZeroDir
      /\ x.val \in 0 .. csize - 1 /\ Quiet(L, F, v, x)
  BY DEF Zeroed
<1>3. s + x.val \in PlainSectors(L)
  <2>1. Mounted(L, L)
    BY DEF Mounted
  <2> QED
    BY <1>2, <2>1, ClusterSectors
<1> HIDE DEF s
<1>4. MayWrite(L, x.v, s + x.val, ZeroDir)
  <2>1. Fits(L, s + x.val, ZeroDir)
    BY <1>3, TableFits, Tables DEF ZeroDir
  <2> QED
    BY <1>2, <1>3, <2>1, Regions DEF MayWrite, MayPlace
<1>5. Written(L, F, x.v, s + x.val, ZeroDir, q)
  BY <1>1, <1>2, <1>4, QuietReady, WriteQuiet DEF Ready
<1>6. /\ Quiet(L, F, v, q) /\ q.res # "again"
      /\ q.res # "cut" => q.v.fs.winsect = s /\ q.v.fs.win = ZeroDir
  BY <1>2, <1>5, QuietTrans DEF Written
<1>7. CASE q.res # "FR_OK"
  BY <1>1, <1>6, <1>7 DEF Zeroed, s
<1>8. CASE q.res = "FR_OK"
  <2>1. /\ r.v = q.v /\ r.res # "cut"
        /\ r.res = "again" => r.val = x.val + 1 /\ x.val + 1 < csize
    BY <1>1, <1>8, Returned
  <2>2. Quiet(L, F, v, r)
    BY <1>6, <1>8, <2>1, PassedOn
  <2>3. r.res = "again" => r.val \in 0 .. csize - 1
    BY <1>2, <2>1, Constants
  <2> QED
    BY <1>6, <1>8, <2>1, <2>2, <2>3 DEF Zeroed, s
<1> QED
  BY <1>7, <1>8

Cleared(L, F, v, r) ==
  /\ Quiet(L, F, v, r) /\ r.res # "again"
  /\ r.res = "FR_OK" => r.v.fs.winsect \in PlainSectors(L)

\* dir_clear is quiet, and leaves the window behind the FATs.
LEMMA DirClear ==
  ASSUME NEW L \in Geometries, NEW F, NEW v, NEW c, Ready(L, F, v), c \in ClusterSet
  PROVE  \A r \in dir_clear(v, c) : Cleared(L, F, v, r)
<1> TAKE r \in dir_clear(v, c)
<1> DEFINE s == clst2sect(L, c)
           Base(u) == Again(Window(u, clst2sect(u.fs, c), ZeroDir), 0)
<1>1. PICK u \in sync_window(v) :
        r \in IF u.res = "FR_OK"
              THEN {z \in Zero!Recursive(0, Base(u.v), csize)[csize] : z.res # "again"}
              ELSE {u}
  BY DEF dir_clear, Then, Loop, Zero!Recursive, ZeroStep
<1>0. \A w : Base(w) = Again(Window(w, clst2sect(w.fs, c), ZeroDir), 0)
  OBVIOUS
<1> HIDE DEF Base
<1>2. /\ Quiet(L, F, v, u) /\ u.res # "again"
      /\ u.res = "FR_OK" => ~u.v.fs.wflag
  BY SyncWindowQuiet DEF Ready
<1>3. CASE u.res # "FR_OK"
  BY <1>1, <1>2, <1>3 DEF Cleared
<1>4. CASE u.res = "FR_OK"
  <2>1. Ready(L, F, u.v) /\ Same(L, v, u.v) /\ ~u.v.fs.wflag
    BY <1>2, <1>4, QuietReady
  <2>2. clst2sect(u.v.fs, c) = s /\ s \in PlainSectors(L)
    <3>1. /\ clst2sect(u.v.fs, c) = s
          /\ \A k \in 0 .. csize - 1 : clst2sect(u.v.fs, c) + k \in PlainSectors(L)
          /\ clst2sect(u.v.fs, c) \in Nat
      BY <2>1, ClusterSectors DEF Ready
    <3>2. s + 0 \in PlainSectors(L) /\ s + 0 = s
      BY <3>1, Constants
    <3> QED
      BY <3>1, <3>2
  <2> DEFINE w == Window(u.v, s, ZeroDir)
             q == [L |-> L, F |-> F, v |-> v, s |-> s]
             base == Base(u.v)
  <2> HIDE DEF s
  <2>3. /\ Sound(L, F, w) /\ Same(L, u.v, w)
        /\ w.fs.winsect = s /\ w.fs.win = ZeroDir
    <3>1. Fits(L, s, ZeroDir)
      BY <2>2, TableFits, Tables DEF ZeroDir
    <3>2. s \in Sectors(L) \cup {NoSector} /\ s \notin FirstFat(L)
      BY <2>2, Regions
    <3> QED
      BY <2>1, <3>1, <3>2, WindowSound DEF Ready
  <2>4. ZeroGood(0, q, 0, base)
    <3>1. \A x \in base : x.v = w /\ x.res = "again" /\ x.val = 0
      BY <1>0, <2>2, Returned
    <3>2. Sound(L, F, w) /\ Same(L, v, w)
      BY <2>1, <2>3, SameTrans
    <3>3. 0 \in 0 .. csize - 1
      BY Constants
    <3> HIDE DEF w, base
    <3>4. \A x \in base : Zeroed(L, F, v, s, x)
      BY <2>3, <3>1, <3>2, <3>3 DEF Zeroed, Quiet
    <3> QED
      BY <3>4 DEF ZeroGood
  <2>5. ASSUME NEW n \in 1 .. csize, NEW S, ZeroGood(0, q, n - 1, S)
        PROVE  ZeroGood(0, q, n, ZeroStep(0, n, S))
    <3>1. ASSUME NEW y \in ZeroStep(0, n, S)
          PROVE  Zeroed(L, F, v, s, y)
      <4>1. PICK x \in S : y \in IF x.res = "again" THEN ZeroOne(x.v, x.val) ELSE {x}
        BY <3>1 DEF ZeroStep
      <4>2. Zeroed(L, F, v, s, x)
        BY <2>5 DEF ZeroGood
      <4>3. CASE x.res = "again"
        BY <4>1, <4>2, <4>3, ZeroOneQuiet DEF s
      <4> QED
        BY <4>1, <4>2, <4>3
    <3> QED
      BY <3>1 DEF ZeroGood
  <2>6. csize \in Nat /\ csize \in 0 .. csize
    BY Constants
  <2> HIDE DEF q, base, w
  <2>7. \A n \in 0 .. csize : ZeroGood(0, q, n, Zero!Recursive(0, base, csize)[n])
    BY <2>4, <2>5, <2>6, Zero!RecursionInduction
  <2>8. r \in Zero!Recursive(0, base, csize)[csize] /\ r.res # "again"
    BY <1>1, <1>4 DEF base
  <2>9. Zeroed(L, F, v, s, r)
    BY <2>6, <2>7, <2>8 DEF ZeroGood, q
  <2> QED
    BY <2>2, <2>8, <2>9 DEF Zeroed, Cleared
<1> QED
  BY <1>3, <1>4

\* A DIR object: the sector is the one of the cluster that the entry is in.
DpFits(L, dp) ==
  /\ dp \in [sclust : {dp.sclust}, dptr : Nat, clust : Nat, sect : PlainSectors(L)]
  /\ dp.clust # 0 =>
       /\ dp.clust \in ClusterSet
       /\ dp.sect = clst2sect(L, dp.clust) + ((dp.dptr \div DirEntries) % csize)

DirFound(L, F, v, r) ==
  /\ Quiet(L, F, v, r) /\ r.res # "again"
  /\ r.res = "FR_OK" => DpFits(L, r.val)

\* dir_sdi finds the first sector of a directory.
LEMMA DirSdi ==
  ASSUME NEW L \in Geometries, NEW F, NEW v, NEW sclust, Ready(L, F, v), sclust \in Nat
  PROVE  \A r \in dir_sdi(v, sclust) : DirFound(L, F, v, r)
<1> TAKE r \in dir_sdi(v, sclust)
<1> DEFINE clst == IF sclust = 0 /\ IsFat32(v.fs) THEN dirbase(v.fs) ELSE sclust
           sect == IF clst = 0 THEN dirbase(v.fs) ELSE clst2sect(v.fs, clst)
           dp == [sclust |-> sclust, dptr |-> 0, clust |-> clst, sect |-> sect]
<1>1. r \in IF sect = 0 THEN Fails(v, "FR_INT_ERR") ELSE Return(v, dp)
  BY DEF dir_sdi
<1>2. sect # 0 => DpFits(L, dp)
  <2>1. /\ \A c \in ClusterSet : /\ clst2sect(v.fs, c) = clst2sect(L, c)
                                 /\ clst2sect(v.fs, c) \in Nat
                                 /\ \A k \in 0 .. csize - 1 :
                                      clst2sect(v.fs, c) + k \in PlainSectors(L)
        /\ \A c \in Nat : c \notin ClusterSet => clst2sect(v.fs, c) = 0
        /\ IsFat32(v.fs) => dirbase(v.fs) = 2 /\ 2 \in ClusterSet
        /\ ~IsFat32(v.fs) => dirbase(v.fs) \in PlainSectors(L)
    BY ClusterSectors DEF Ready
  <2>2. clst \in Nat
    BY <2>1
  <2>3. CASE clst = 0
    <3>1. dirbase(v.fs) \in PlainSectors(L)
      BY <2>1, <2>3
    <3> QED
      BY <2>3, <3>1 DEF DpFits
  <2>4. CASE clst # 0 /\ clst \notin ClusterSet
    BY <2>1, <2>2, <2>4
  <2>5. CASE clst # 0 /\ clst \in ClusterSet
    <3> HIDE DEF clst
    <3>1. 0 \div DirEntries = 0 /\ 0 % csize = 0 /\ 0 \in 0 .. csize - 1
      BY Constants
    <3>2. sect = clst2sect(L, clst) /\ sect \in Nat /\ sect + 0 \in PlainSectors(L)
      BY <2>1, <2>5, <3>1
    <3> HIDE DEF sect
    <3>3. sect \in PlainSectors(L) /\ sect = clst2sect(L, clst) + ((0 \div DirEntries) % csize)
      BY <3>1, <3>2
    <3> QED
      BY <2>2, <2>5, <3>3 DEF DpFits
  <2> QED
    BY <2>3, <2>4, <2>5
<1> HIDE DEF dp, sect
<1>3. r.v = v /\ r.res \in {"FR_OK", "FR_INT_ERR"} /\ (r.res = "FR_OK" => r.val = dp /\ sect # 0)
  BY <1>1, Returned
<1> QED
  BY <1>2, <1>3, AtOnce DEF DirFound

\* The next entry is in the same sector, in the next one, or in the first of another
\* cluster.
LEMMA NextEntry ==
  ASSUME NEW d \in Nat
  PROVE  /\ d \div DirEntries \in Nat /\ (d + 1) \div DirEntries \in Nat
         /\ (d + 1) % DirEntries # 0 => (d + 1) \div DirEntries = d \div DirEntries
         /\ (d + 1) % DirEntries = 0 => (d + 1) \div DirEntries = (d \div DirEntries) + 1
<1>1. /\ d \div DirEntries \in Nat /\ d % DirEntries \in 0 .. DirEntries - 1
      /\ d = DirEntries * (d \div DirEntries) + (d % DirEntries)
      /\ (d + 1) \div DirEntries \in Nat /\ (d + 1) % DirEntries \in 0 .. DirEntries - 1
      /\ d + 1 = DirEntries * ((d + 1) \div DirEntries) + ((d + 1) % DirEntries)
      /\ DirEntries \in Nat \ {0}
  <2>1. d + 1 \in Nat /\ DirEntries \in Nat \ {0}
    BY Constants
  <2> QED
    BY <2>1, Division
<1>2. ASSUME NEW n \in Nat \ {0}, NEW q \in Nat, NEW p \in Nat, NEW a \in 0 .. n - 1,
             NEW b \in 0 .. n - 1, n * q + a + 1 = n * p + b
      PROVE  (b # 0 => p = q) /\ (b = 0 => p = q + 1)
  <2>1. n * (p - q) = a + 1 - b
    BY <1>2
  <2>2. p - q \in Int /\ (p - q >= 2 => n * (p - q) >= 2 * n)
        /\ (p - q <= -1 => n * (p - q) <= -n)
    OBVIOUS
  <2>3. p - q = 0 \/ p - q = 1
    BY <2>1, <2>2
  <2> QED
    BY <2>1, <2>3
<1>3. DirEntries * (d \div DirEntries) + (d % DirEntries) + 1 =
        DirEntries * ((d + 1) \div DirEntries) + ((d + 1) % DirEntries)
  BY <1>1
<1> HIDE DEF Division
<1> QED
  BY <1>1, <1>2, <1>3

\* The next sector of a cluster, or the first of another.
LEMMA NextRemainder ==
  ASSUME NEW q \in Nat
  PROVE  /\ q % csize \in 0 .. csize - 1 /\ (q + 1) % csize \in 0 .. csize - 1
         /\ (q + 1) % csize # 0 => (q + 1) % csize = (q % csize) + 1
<1>1. /\ csize \in Nat \ {0}
      /\ q \div csize \in Nat /\ q % csize \in 0 .. csize - 1
      /\ q = csize * (q \div csize) + (q % csize)
      /\ (q + 1) \div csize \in Nat /\ (q + 1) % csize \in 0 .. csize - 1
      /\ q + 1 = csize * ((q + 1) \div csize) + ((q + 1) % csize)
  <2>1. q + 1 \in Nat /\ csize \in Nat \ {0}
    BY Constants
  <2> QED
    BY <2>1, Division
<1>2. ASSUME NEW n \in Nat \ {0}, NEW k \in Nat, NEW p \in Nat, NEW a \in 0 .. n - 1,
             NEW b \in 0 .. n - 1, n * k + a + 1 = n * p + b
      PROVE  b # 0 => b = a + 1
  <2>1. p \in Int /\ k \in Int /\ n * (p - k) = a + 1 - b
    BY <1>2
  <2>2. p - k \in Int /\ (p - k >= 2 => n * (p - k) >= 2 * n)
        /\ (p - k <= -1 => n * (p - k) <= -n)
    OBVIOUS
  <2>3. p - k = 0 \/ p - k = 1
    BY <2>1, <2>2
  <2> DEFINE e == p - k
  <2>4. n * e = a + 1 - b /\ (e = 0 \/ e = 1)
    BY <2>1, <2>3
  <2> HIDE DEF e
  <2> QED
    BY <2>4
<1> DEFINE a == q % csize
           b == (q + 1) % csize
           k == q \div csize
           p == (q + 1) \div csize
<1>3. a \in 0 .. csize - 1 /\ b \in 0 .. csize - 1 /\ k \in Nat /\ p \in Nat
  BY <1>1
<1>4. q = csize * k + a /\ q + 1 = csize * p + b
  BY <1>1
<1> HIDE DEF a, b, k, p
<1>5. csize * k + a + 1 = csize * p + b
  BY <1>4
<1>6. b # 0 => b = a + 1
  BY <1>1, <1>2, <1>3, <1>5
<1> QED
  BY <1>3, <1>6 DEF a, b

\* A DIR object that moves.
LEMMA DirMoves ==
  ASSUME NEW L, NEW dp, DpFits(L, dp), NEW n \in Nat
  PROVE  LET next == [dp EXCEPT !.dptr = n]
         IN  /\ next \in [sclust : {next.sclust}, dptr : Nat, clust : Nat,
                          sect : PlainSectors(L)]
             /\ next.dptr = n /\ next.clust = dp.clust /\ next.sect = dp.sect
             /\ \A s \in PlainSectors(L) :
                  (dp.clust # 0 => s = clst2sect(L, dp.clust) + ((n \div DirEntries) % csize))
                    => DpFits(L, [next EXCEPT !.sect = s])
             /\ \A c \in ClusterSet : \A s \in PlainSectors(L) :
                  c \in Nat /\ s = clst2sect(L, c) + ((n \div DirEntries) % csize)
                    => DpFits(L, [next EXCEPT !.clust = c, !.sect = s])
<1> DEFINE next == [dp EXCEPT !.dptr = n]
<1>1. /\ next \in [sclust : {next.sclust}, dptr : Nat, clust : Nat, sect : PlainSectors(L)]
      /\ next.dptr = n /\ next.clust = dp.clust /\ next.sect = dp.sect
  BY DEF DpFits
<1> HIDE DEF next
<1>2. ASSUME NEW s \in PlainSectors(L),
             dp.clust # 0 => s = clst2sect(L, dp.clust) + ((n \div DirEntries) % csize)
      PROVE  DpFits(L, [next EXCEPT !.sect = s])
  <2> DEFINE dn == [next EXCEPT !.sect = s]
  <2>1. /\ dn \in [sclust : {dn.sclust}, dptr : Nat, clust : Nat, sect : PlainSectors(L)]
        /\ dn.dptr = n /\ dn.clust = dp.clust /\ dn.sect = s
    BY <1>1
  <2> HIDE DEF dn
  <2>2. DpFits(L, dn)
    BY <1>2, <2>1 DEF DpFits
  <2> QED
    BY <2>2 DEF dn
<1>3. ASSUME NEW c \in ClusterSet, NEW s \in PlainSectors(L), c \in Nat,
             s = clst2sect(L, c) + ((n \div DirEntries) % csize)
      PROVE  DpFits(L, [next EXCEPT !.clust = c, !.sect = s])
  <2> DEFINE dn == [next EXCEPT !.clust = c, !.sect = s]
  <2>1. /\ dn \in [sclust : {dn.sclust}, dptr : Nat, clust : Nat, sect : PlainSectors(L)]
        /\ dn.dptr = n /\ dn.clust = c /\ dn.sect = s
    BY <1>1, <1>3
  <2> HIDE DEF dn
  <2>2. DpFits(L, dn)
    BY <1>3, <2>1 DEF DpFits
  <2> QED
    BY <2>2 DEF dn
<1> QED
  BY <1>1, <1>2, <1>3 DEF next

\* A new cluster for a directory.
LEMMA StretchTableKeeps ==
  ASSUME NEW L \in Geometries, NEW F, NEW v, NEW dp, Ready(L, F, v), Counted(L, v),
         dp.clust \in ClusterSet
  PROVE  \A r \in StretchTable(v, dp) :
           Keeps(L, F, v, r) /\ r.res # "again" /\ (r.res = "FR_OK" => r.val \in ClusterSet)
<1> TAKE r \in StretchTable(v, dp)
<1> DEFINE After(u, c) == UNION {IF y.res = "FR_OK" THEN Return(y.v, c) ELSE {y}
                                 : y \in dir_clear(u, c)}
<1>1. PICK q \in create_chain(v, dp.clust) :
        r \in IF q.res = "FR_OK"
              THEN IF q.val = 0 THEN Fails(q.v, "FR_DENIED") ELSE After(q.v, q.val)
              ELSE {q}
  BY DEF StretchTable, Then
<1>2. \A u, c, x : x \in After(u, c) =>
        \E y \in dir_clear(u, c) : x \in IF y.res = "FR_OK" THEN Return(y.v, c) ELSE {y}
  OBVIOUS
<1> HIDE DEF After
<1>3. Created(L, F, v, dp.clust, ClusterSet, q)
  <2>1. dp.clust \in Nat /\ dp.clust # 0
    BY FatSects, Sizes DEF ClusterSet
  <2> QED
    BY <2>1, CreateChain
<1>4. CASE q.res # "FR_OK"
  BY <1>1, <1>3, <1>4 DEF Created
<1>5. CASE q.res = "FR_OK" /\ q.val = 0
  <2>1. r.v = q.v /\ r.res = "FR_DENIED"
    BY <1>1, <1>5, Returned
  <2> QED
    BY <1>3, <1>5, <2>1, PassedOn DEF Created
<1>6. CASE q.res = "FR_OK" /\ q.val # 0
  <2>1. PICK y \in dir_clear(q.v, q.val) :
          r \in IF y.res = "FR_OK" THEN Return(y.v, q.val) ELSE {y}
    BY <1>1, <1>2, <1>6
  <2>2. /\ Keeps(L, F, v, q) /\ q.res # "cut" /\ Ready(L, F, q.v) /\ q.val \in ClusterSet
    BY <1>3, <1>6, KeepsReady DEF Created
  <2>3. Cleared(L, F, q.v, y)
    BY <2>1, <2>2, DirClear
  <2>4. Keeps(L, F, v, y) /\ y.res # "again"
    BY <2>2, <2>3, QuietKeeps, KeepsTrans DEF Cleared
  <2>5. CASE y.res # "FR_OK"
    BY <2>1, <2>4, <2>5
  <2>6. CASE y.res = "FR_OK"
    <3>1. r.v = y.v /\ r.res = "FR_OK" /\ r.val = q.val
      BY <2>1, <2>6, Returned
    <3> QED
      BY <2>2, <2>4, <2>6, <3>1, PassedOn
  <2> QED
    BY <2>5, <2>6
<1> QED
  BY <1>4, <1>5, <1>6

Stepped(L, F, v, stretch, r) ==
  /\ IF stretch THEN Keeps(L, F, v, r) ELSE Quiet(L, F, v, r)
  /\ r.res # "again"
  /\ r.res = "FR_OK" => DpFits(L, r.val)

\* dir_next moves on to an entry of the directory, which may get a new cluster.
LEMMA DirNext ==
  ASSUME NEW L \in Geometries, NEW F, NEW v, NEW dp, NEW stretch \in BOOLEAN,
         Ready(L, F, v), stretch => Counted(L, v), DpFits(L, dp)
  PROVE  \A r \in dir_next(v, dp, stretch) : Stepped(L, F, v, stretch, r)
<1> TAKE r \in dir_next(v, dp, stretch)
<1> DEFINE d == dp.dptr
           next == [dp EXCEPT !.dptr = d + 1]
           At(u, c) == Return(u, [next EXCEPT !.clust = c, !.sect = clst2sect(u.fs, c)])
           Last(u) == IF ~stretch THEN Fails(u, "FR_NO_FILE")
                      ELSE UNION {IF y.res = "FR_OK" THEN At(y.v, y.val) ELSE {y}
                                  : y \in StretchTable(u, dp)}
<1>1. r \in IF (d + 1) % DirEntries # 0 THEN Return(v, next)
            ELSE IF dp.clust = 0 THEN Fails(v, "FR_NO_FILE")
            ELSE IF ((d + 1) \div DirEntries) % csize # 0
                 THEN Return(v, [next EXCEPT !.sect = dp.sect + 1])
            ELSE UNION {IF q.res = "FR_OK"
                        THEN IF q.val <= 1 THEN Fails(q.v, "FR_INT_ERR")
                             ELSE IF q.val < n_fatent THEN At(q.v, q.val)
                             ELSE Last(q.v)
                        ELSE {q} : q \in get_fat(v, dp.clust)}
  <2>1. next.dptr = d + 1 /\ next.sect = dp.sect
    BY DEF DpFits
  <2> QED
    BY Zenon, <2>1 DEF dir_next, Then
<1>2. /\ d \in Nat /\ dp.clust \in Nat /\ dp.sect \in PlainSectors(L)
      /\ dp.clust # 0 =>
           /\ dp.clust \in ClusterSet
           /\ dp.sect = clst2sect(L, dp.clust) + ((d \div DirEntries) % csize)
  BY DEF DpFits
<1>9. /\ \A s \in PlainSectors(L) :
           (dp.clust # 0 => s = clst2sect(L, dp.clust) + (((d + 1) \div DirEntries) % csize))
             => DpFits(L, [next EXCEPT !.sect = s])
      /\ \A c \in ClusterSet : \A s \in PlainSectors(L) :
           c \in Nat /\ s = clst2sect(L, c) + (((d + 1) \div DirEntries) % csize)
             => DpFits(L, [next EXCEPT !.clust = c, !.sect = s])
  <2> DEFINE n == d + 1
  <2>1. n \in Nat
    BY <1>2
  <2> HIDE DEF n
  <2>2. /\ \A s \in PlainSectors(L) :
             (dp.clust # 0 => s = clst2sect(L, dp.clust) + ((n \div DirEntries) % csize))
               => DpFits(L, [[dp EXCEPT !.dptr = n] EXCEPT !.sect = s])
        /\ \A c \in ClusterSet : \A s \in PlainSectors(L) :
             c \in Nat /\ s = clst2sect(L, c) + ((n \div DirEntries) % csize)
               => DpFits(L, [[dp EXCEPT !.dptr = n] EXCEPT !.clust = c, !.sect = s])
    BY <2>1, DirMoves, Zenon
  <2> QED
    BY <2>2, Zenon DEF n
<1>3. /\ d \div DirEntries \in Nat /\ (d + 1) \div DirEntries \in Nat
      /\ (d + 1) % DirEntries # 0 => (d + 1) \div DirEntries = d \div DirEntries
      /\ (d + 1) % DirEntries = 0 => (d + 1) \div DirEntries = (d \div DirEntries) + 1
  BY <1>2, NextEntry
<1>4. ASSUME NEW u, NEW c \in ClusterSet, NEW x \in At(u, c), Mounted(L, u.fs),
             ((d + 1) \div DirEntries) % csize = 0
      PROVE  x.v = u /\ x.res = "FR_OK" /\ DpFits(L, x.val)
  <2>1. /\ clst2sect(u.fs, c) = clst2sect(L, c) /\ clst2sect(u.fs, c) \in Nat
        /\ clst2sect(u.fs, c) + 0 \in PlainSectors(L)
    BY <1>4, ClusterSectors, Constants
  <2> DEFINE s == clst2sect(u.fs, c)
             dn == [next EXCEPT !.clust = c, !.sect = s]
  <2>2. x.v = u /\ x.res = "FR_OK" /\ x.val = dn
    BY <1>4, Returned
  <2>3. s \in PlainSectors(L) /\ s = clst2sect(L, c) + (((d + 1) \div DirEntries) % csize)
    BY <1>4, <2>1
  <2> HIDE DEF s
  <2> HIDE DEF next, d
  <2>4. DpFits(L, dn)
    BY <1>9, <2>3, FatSects
  <2> QED
    BY <2>2, <2>4
<1>5. CASE (d + 1) % DirEntries # 0
  <2>1. r.v = v /\ r.res = "FR_OK" /\ r.val = next
    BY <1>1, <1>5, Returned
  <2>2. /\ next \in [sclust : {next.sclust}, dptr : Nat, clust : Nat, sect : PlainSectors(L)]
        /\ next.dptr = d + 1 /\ next.clust = dp.clust /\ next.sect = dp.sect
    BY <1>2 DEF DpFits
  <2> HIDE DEF next
  <2>3. DpFits(L, next)
    BY <1>2, <1>3, <1>5, <2>2 DEF DpFits
  <2> QED
    BY <2>1, <2>3, AtOnce DEF Stepped
<1>6. CASE (d + 1) % DirEntries = 0 /\ dp.clust = 0
  <2>1. r.v = v /\ r.res = "FR_NO_FILE"
    BY <1>1, <1>6, Returned
  <2> QED
    BY <2>1, AtOnce DEF Stepped
<1>7. CASE /\ (d + 1) % DirEntries = 0 /\ dp.clust # 0
           /\ ((d + 1) \div DirEntries) % csize # 0
  <2> DEFINE s == dp.sect + 1
             dn == [next EXCEPT !.sect = s]
  <2>1. r.v = v /\ r.res = "FR_OK" /\ r.val = dn
    BY <1>1, <1>7, Returned
  <2>2. /\ s \in PlainSectors(L)
        /\ s = clst2sect(L, dp.clust) + (((d + 1) \div DirEntries) % csize)
    <3>1. /\ clst2sect(L, dp.clust) \in Nat
          /\ \A k \in 0 .. csize - 1 : clst2sect(L, dp.clust) + k \in PlainSectors(L)
      BY <1>2, <1>7, ClusterSectors DEF Mounted
    <3>2. /\ ((d + 1) \div DirEntries) % csize \in 0 .. csize - 1
          /\ (d \div DirEntries) % csize \in 0 .. csize - 1
          /\ ((d + 1) \div DirEntries) % csize = ((d \div DirEntries) % csize) + 1
      BY <1>3, <1>7, NextRemainder
    <3>3. s = clst2sect(L, dp.clust) + (((d + 1) \div DirEntries) % csize)
      BY <1>2, <1>7, <3>1, <3>2
    <3> QED
      BY <3>1, <3>2, <3>3
  <2> HIDE DEF s
  <2> HIDE DEF next, d
  <2>3. DpFits(L, dn)
    BY <1>9, <2>2
  <2> QED
    BY <2>1, <2>3, AtOnce DEF Stepped
<1>8. CASE /\ (d + 1) % DirEntries = 0 /\ dp.clust # 0
           /\ ((d + 1) \div DirEntries) % csize = 0
  <2> HIDE DEF At, next
  <2>1. PICK q \in get_fat(v, dp.clust) :
          r \in IF q.res = "FR_OK"
                THEN IF q.val <= 1 THEN Fails(q.v, "FR_INT_ERR")
                     ELSE IF q.val < n_fatent THEN At(q.v, q.val)
                     ELSE Last(q.v)
                ELSE {q}
    BY <1>1, <1>8
  <2>2. GotFat(L, F, v, dp.clust, q)
    BY <1>2, GetFat
  <2>3. Quiet(L, F, v, q) /\ Keeps(L, F, v, q) /\ q.res # "again"
    BY <2>2, QuietKeeps DEF GotFat
  <2>4. CASE q.res # "FR_OK"
    BY <2>1, <2>3, <2>4 DEF Stepped
  <2>5. CASE q.res = "FR_OK" /\ q.val <= 1
    <3>1. r.v = q.v /\ r.res = "FR_INT_ERR"
      BY <2>1, <2>5, Returned
    <3> QED
      BY <2>3, <2>5, <3>1, PassedOn DEF Stepped
  <2>6. CASE q.res = "FR_OK" /\ ~(q.val <= 1) /\ q.val < n_fatent
    <3>1. q.val \in ClusterSet /\ Mounted(L, q.v.fs)
      BY <2>2, <2>3, <2>6, Sizes DEF GotFat, ClusterSet, Keeps, Settles
    <3>2. r.v = q.v /\ r.res = "FR_OK" /\ DpFits(L, r.val)
      BY <1>4, <1>8, <2>1, <2>6, <3>1
    <3> QED
      BY <2>3, <2>6, <3>2, PassedOn DEF Stepped
  <2>7. CASE q.res = "FR_OK" /\ ~(q.val <= 1) /\ ~(q.val < n_fatent) /\ ~stretch
    <3>1. r.v = q.v /\ r.res = "FR_NO_FILE"
      BY <2>1, <2>7, Returned
    <3> QED
      BY <2>3, <2>7, <3>1, PassedOn DEF Stepped
  <2>8. CASE q.res = "FR_OK" /\ ~(q.val <= 1) /\ ~(q.val < n_fatent) /\ stretch
    <3>1. PICK y \in StretchTable(q.v, dp) :
            r \in IF y.res = "FR_OK" THEN At(y.v, y.val) ELSE {y}
      BY <2>1, <2>8
    <3>2. Ready(L, F, q.v) /\ Counted(L, q.v)
      BY <2>3, <2>8, QuietCounted
    <3>3. /\ Keeps(L, F, q.v, y) /\ y.res # "again"
          /\ y.res = "FR_OK" => y.val \in ClusterSet
      BY <1>2, <1>8, <3>2, StretchTableKeeps
    <3>4. Keeps(L, F, v, y)
      BY <2>3, <2>8, <3>3, KeepsTrans
    <3>5. CASE y.res # "FR_OK"
      BY <2>8, <3>1, <3>3, <3>4, <3>5 DEF Stepped
    <3>6. CASE y.res = "FR_OK"
      <4>1. y.val \in ClusterSet /\ Mounted(L, y.v.fs)
        BY <3>3, <3>4, <3>6 DEF Keeps, Settles
      <4>2. r.v = y.v /\ r.res = "FR_OK" /\ DpFits(L, r.val)
        BY <1>4, <1>8, <3>1, <3>6, <4>1
      <4> QED
        BY <2>8, <3>4, <3>6, <4>2, PassedOn DEF Stepped
    <3> QED
      BY <3>5, <3>6
  <2> QED
    BY <2>4, <2>5, <2>6, <2>7, <2>8
<1> QED
  BY <1>5, <1>6, <1>7, <1>8

--------------------------------------------------------------------------------
\* A search through a directory, which may grow.
Walks(L, F, v, stretch, r) ==
  IF stretch THEN Keeps(L, F, v, r) ELSE Quiet(L, F, v, r)

Walked(L, F, v, stretch, r) ==
  /\ Walks(L, F, v, stretch, r)
  /\ r.res = "again" => DpFits(L, r.val)
  /\ r.res = "FR_OK" => DpFits(L, r.val) /\ r.v.fs.winsect = r.val.sect

\* A walk goes on after a walk.
LEMMA WalksTrans ==
  ASSUME NEW L, NEW F, NEW v, NEW stretch \in BOOLEAN, NEW q, NEW r, Ready(L, F, v),
         stretch => Counted(L, v), Walks(L, F, v, stretch, q), q.res # "cut"
  PROVE  /\ Ready(L, F, q.v) /\ (stretch => Counted(L, q.v))
         /\ Quiet(L, F, q.v, r) => Walks(L, F, v, stretch, r)
         /\ Walks(L, F, q.v, stretch, r) => Walks(L, F, v, stretch, r)
         /\ r.v = q.v /\ r.res # "cut" => Walks(L, F, v, stretch, r)
<1>1. CASE stretch
  <2>1. Keeps(L, F, v, q) /\ Ready(L, F, q.v) /\ Counted(L, q.v)
    BY <1>1, KeepsReady DEF Walks, Keeps, Settles
  <2> QED
    BY <1>1, <2>1, KeepsTrans, QuietKeeps, PassedOn DEF Walks
<1>2. CASE ~stretch
  <2>1. Quiet(L, F, v, q) /\ Ready(L, F, q.v)
    BY <1>2, QuietReady DEF Walks
  <2> QED
    BY <1>2, <2>1, QuietTrans, PassedOn DEF Walks
<1> QED
  BY <1>1, <1>2

\* A round of a walk: the window, and the next entry unless this one will do.
LEMMA WalkOn ==
  ASSUME NEW L \in Geometries, NEW F, NEW v, NEW stretch \in BOOLEAN, Ready(L, F, v),
         stretch => Counted(L, v), NEW x, Walked(L, F, v, stretch, x), x.res = "again",
         NEW q \in move_window(x.v, x.val.sect)
  PROVE  /\ q.res # "FR_OK" => Walked(L, F, v, stretch, q)
         /\ q.res = "FR_OK" =>
              /\ x.val.sect \in PlainSectors(L) /\ q.v.fs.winsect = x.val.sect
              /\ \A r : /\ r.v = q.v
                        /\ \/ r.res = "FR_OK" /\ r.val = x.val
                           \/ r.res \notin {"FR_OK", "cut", "again"}
                        => Walked(L, F, v, stretch, r)
              /\ \A y \in dir_next(q.v, x.val, stretch) :
                   \A r \in IF y.res = "FR_OK" THEN Again(y.v, y.val) ELSE {y} :
                     Walked(L, F, v, stretch, r)
<1>1. /\ Walks(L, F, v, stretch, x) /\ x.res # "cut" /\ DpFits(L, x.val)
      /\ x.val.sect \in PlainSectors(L) /\ x.val.sect \in Sectors(L)
  BY Regions DEF Walked, DpFits
<1>2. Ready(L, F, x.v)
  BY <1>1, WalksTrans
<1>3. Moved(L, F, x.v, x.val.sect, q)
  BY <1>1, <1>2, MoveWindowQuiet DEF Ready
<1>4. Walks(L, F, v, stretch, q) /\ q.res # "again"
  BY <1>1, <1>3, WalksTrans DEF Moved
<1>5. CASE q.res # "FR_OK"
  BY <1>4, <1>5 DEF Walked
<1>6. CASE q.res = "FR_OK"
  <2>1. q.v.fs.winsect = x.val.sect
    BY <1>3, <1>6 DEF Moved
  <2>2. ASSUME NEW r, r.v = q.v, \/ r.res = "FR_OK" /\ r.val = x.val
                                 \/ r.res \notin {"FR_OK", "cut", "again"}
        PROVE  Walked(L, F, v, stretch, r)
    <3>1. Walks(L, F, v, stretch, r)
      BY <1>4, <1>6, <2>2, WalksTrans
    <3> QED
      BY <1>1, <2>1, <2>2, <3>1 DEF Walked
  <2>3. ASSUME NEW y \in dir_next(q.v, x.val, stretch),
               NEW r \in IF y.res = "FR_OK" THEN Again(y.v, y.val) ELSE {y}
        PROVE  Walked(L, F, v, stretch, r)
    <3>1. Ready(L, F, q.v) /\ (stretch => Counted(L, q.v))
      BY <1>4, <1>6, WalksTrans
    <3>2. Stepped(L, F, q.v, stretch, y)
      BY <1>1, <3>1, DirNext
    <3>3. Walks(L, F, q.v, stretch, y)
      BY <3>2 DEF Stepped, Walks
    <3>4. Walks(L, F, v, stretch, y)
      BY <1>4, <1>6, <3>3, WalksTrans
    <3>5. CASE y.res # "FR_OK"
      BY <2>3, <3>2, <3>4, <3>5 DEF Walked, Stepped
    <3>6. CASE y.res = "FR_OK"
      <4>1. r.v = y.v /\ r.res = "again" /\ r.val = y.val
        BY <2>3, <3>6, Returned
      <4>2. Walks(L, F, v, stretch, r)
        BY <3>4, <3>6, <4>1, WalksTrans
      <4> QED
        BY <3>2, <3>6, <4>1, <4>2 DEF Walked, Stepped
    <3> QED
      BY <3>5, <3>6
  <2> QED
    BY <1>1, <1>6, <2>1, <2>2, <2>3
<1> QED
  BY <1>5, <1>6

\* dir_alloc.
AllocStep(p, n, S) == UNION {IF r.res = "again" THEN AllocAt(r.v, r.val) ELSE {r} : r \in S}
AllocGood(p, q, n, S) == \A r \in S : Walked(q.L, q.F, q.v, TRUE, r)
Alloc == INSTANCE Induction WITH Step <- AllocStep, Good <- AllocGood

\* A round of dir_alloc.
LEMMA AllocAtWalks ==
  ASSUME NEW L \in Geometries, NEW F, NEW v, NEW x, Ready(L, F, v), Counted(L, v),
         Walked(L, F, v, TRUE, x), x.res = "again"
  PROVE  \A r \in AllocAt(x.v, x.val) : Walked(L, F, v, TRUE, r)
<1> TAKE r \in AllocAt(x.v, x.val)
<1>1. PICK q \in move_window(x.v, x.val.sect) :
        r \in IF q.res = "FR_OK"
              THEN IF EntryAt(q.v, x.val).name \in {"deleted", "end"} THEN Return(q.v, x.val)
                   ELSE UNION {IF y.res = "FR_OK" THEN Again(y.v, y.val) ELSE {y}
                               : y \in dir_next(q.v, x.val, TRUE)}
              ELSE {q}
  BY DEF AllocAt, Then
<1>2. CASE q.res # "FR_OK"
  BY <1>1, <1>2, WalkOn
<1>3. CASE q.res = "FR_OK" /\ EntryAt(q.v, x.val).name \in {"deleted", "end"}
  <2>1. r.v = q.v /\ r.res = "FR_OK" /\ r.val = x.val
    BY <1>1, <1>3, Returned
  <2> QED
    BY <1>3, <2>1, WalkOn
<1>4. CASE q.res = "FR_OK" /\ ~(EntryAt(q.v, x.val).name \in {"deleted", "end"})
  <2>1. PICK y \in dir_next(q.v, x.val, TRUE) :
          r \in IF y.res = "FR_OK" THEN Again(y.v, y.val) ELSE {y}
    BY <1>1, <1>4
  <2> QED
    BY <1>4, <2>1, WalkOn
<1> QED
  BY <1>2, <1>3, <1>4

\* The longest table is a number of entries.
LEMMA TableLengthNat == TableLength \in Nat
<1>1. DirEntries * csize \in Nat
  BY Constants
<1> QED
  BY <1>1, Constants DEF TableLength

\* An entry that is free, in a directory that may have grown for it.
Placed(L, F, v, r) ==
  /\ Keeps(L, F, v, r) /\ r.res # "again"
  /\ r.res = "FR_OK" => DpFits(L, r.val) /\ r.v.fs.winsect = r.val.sect

\* dir_alloc keeps chains and counts; the window has the sector of its entry.
LEMMA DirAlloc ==
  ASSUME NEW L \in Geometries, NEW F, NEW v, NEW sclust, Ready(L, F, v), Counted(L, v),
         sclust \in Nat
  PROVE  \A r \in dir_alloc(v, sclust) : Placed(L, F, v, r)
<1> TAKE r \in dir_alloc(v, sclust)
<1>0. PICK u \in dir_sdi(v, sclust) : \E z :
        /\ z \in IF u.res = "FR_OK"
                 THEN {y \in Alloc!Recursive(0, Again(u.v, u.val), TableLength)[TableLength]
                       : y.res # "again"}
                 ELSE {u}
        /\ r = IF z.res = "FR_NO_FILE" THEN [z EXCEPT !.res = "FR_DENIED"] ELSE z
  BY DEF dir_alloc, Then, Loop, Alloc!Recursive, AllocStep
<1>1. PICK z :
        /\ z \in IF u.res = "FR_OK"
                 THEN {y \in Alloc!Recursive(0, Again(u.v, u.val), TableLength)[TableLength]
                       : y.res # "again"}
                 ELSE {u}
        /\ r = IF z.res = "FR_NO_FILE" THEN [z EXCEPT !.res = "FR_DENIED"] ELSE z
  BY <1>0
<1>2. Placed(L, F, v, z) => Placed(L, F, v, r)
  <2>1. CASE z.res = "FR_NO_FILE"
    <3>1. r.v = z.v /\ r.res \notin {"cut", "again", "FR_OK"}
      BY <1>1, <2>1
    <3> QED
      BY <2>1, <3>1, PassedOn DEF Placed
  <2>2. CASE z.res # "FR_NO_FILE"
    BY <1>1, <2>2
  <2> QED
    BY <2>1, <2>2
<1>3. DirFound(L, F, v, u)
  BY DirSdi
<1>4. CASE u.res # "FR_OK"
  BY <1>1, <1>2, <1>3, <1>4, QuietKeeps DEF DirFound, Placed
<1>5. CASE u.res = "FR_OK"
  <2> DEFINE q == [L |-> L, F |-> F, v |-> v]
             base == Again(u.v, u.val)
  <2>1. AllocGood(0, q, 0, base)
    <3>1. \A x \in base : x.v = u.v /\ x.res = "again" /\ x.val = u.val
      BY Returned
    <3> HIDE DEF base
    <3>2. \A x \in base : Walked(L, F, v, TRUE, x)
      BY <1>3, <1>5, <3>1, QuietKeeps, PassedOn DEF Walked, Walks, DirFound
    <3> QED
      BY <3>2 DEF AllocGood
  <2>2. ASSUME NEW n \in 1 .. TableLength, NEW S, AllocGood(0, q, n - 1, S)
        PROVE  AllocGood(0, q, n, AllocStep(0, n, S))
    <3>1. ASSUME NEW y \in AllocStep(0, n, S)
          PROVE  Walked(L, F, v, TRUE, y)
      <4>1. PICK x \in S : y \in IF x.res = "again" THEN AllocAt(x.v, x.val) ELSE {x}
        BY <3>1 DEF AllocStep
      <4>2. Walked(L, F, v, TRUE, x)
        BY <2>2 DEF AllocGood
      <4>3. CASE x.res = "again"
        BY <4>1, <4>2, <4>3, AllocAtWalks
      <4> QED
        BY <4>1, <4>2, <4>3
    <3> QED
      BY <3>1 DEF AllocGood
  <2>3. TableLength \in Nat /\ TableLength \in 0 .. TableLength
    BY TableLengthNat
  <2> HIDE DEF q, base
  <2>4. \A n \in 0 .. TableLength : AllocGood(0, q, n, Alloc!Recursive(0, base, TableLength)[n])
    BY <2>1, <2>2, <2>3, Alloc!RecursionInduction
  <2>5. z \in Alloc!Recursive(0, base, TableLength)[TableLength] /\ z.res # "again"
    BY <1>1, <1>5 DEF base
  <2>6. Walked(L, F, v, TRUE, z)
    BY <2>3, <2>4, <2>5 DEF AllocGood, q
  <2> QED
    BY <1>2, <2>5, <2>6 DEF Walked, Walks, Placed
<1> QED
  BY <1>4, <1>5

\* dir_find.
FindStep(p, n, S) ==
  UNION {IF r.res = "again" THEN FindAt(r.v, r.val, p) ELSE {r} : r \in S}
NameFound(L, F, v, name, r) ==
  /\ Walked(L, F, v, FALSE, r)
  /\ r.res = "FR_OK" => EntryAt(r.v, r.val).name = name
FindGood(p, q, n, S) == \A r \in S : NameFound(q.L, q.F, q.v, p, r)
Find == INSTANCE Induction WITH Step <- FindStep, Good <- FindGood

\* A round of dir_find.
LEMMA FindAtWalks ==
  ASSUME NEW L \in Geometries, NEW F, NEW v, NEW x, NEW name, Ready(L, F, v),
         Walked(L, F, v, FALSE, x), x.res = "again"
  PROVE  \A r \in FindAt(x.v, x.val, name) : NameFound(L, F, v, name, r)
<1> TAKE r \in FindAt(x.v, x.val, name)
<1>1. PICK q \in move_window(x.v, x.val.sect) :
        r \in IF q.res = "FR_OK"
              THEN IF EntryAt(q.v, x.val).name = "end" THEN Fails(q.v, "FR_NO_FILE")
                   ELSE IF EntryAt(q.v, x.val).name = name THEN Return(q.v, x.val)
                   ELSE UNION {IF y.res = "FR_OK" THEN Again(y.v, y.val) ELSE {y}
                               : y \in dir_next(q.v, x.val, FALSE)}
              ELSE {q}
  BY DEF FindAt, Then
<1>2. CASE q.res # "FR_OK"
  BY <1>1, <1>2, WalkOn DEF NameFound
<1>3. CASE q.res = "FR_OK" /\ EntryAt(q.v, x.val).name = "end"
  <2>1. r.v = q.v /\ r.res = "FR_NO_FILE"
    BY <1>1, <1>3, Returned
  <2> QED
    BY <1>3, <2>1, WalkOn DEF NameFound
<1>4. CASE /\ q.res = "FR_OK" /\ EntryAt(q.v, x.val).name # "end"
           /\ EntryAt(q.v, x.val).name = name
  <2>1. r.v = q.v /\ r.res = "FR_OK" /\ r.val = x.val
    BY <1>1, <1>4, Returned
  <2> QED
    BY <1>4, <2>1, WalkOn DEF NameFound
<1>5. CASE /\ q.res = "FR_OK" /\ EntryAt(q.v, x.val).name # "end"
           /\ EntryAt(q.v, x.val).name # name
  <2>1. PICK y \in dir_next(q.v, x.val, FALSE) :
          r \in IF y.res = "FR_OK" THEN Again(y.v, y.val) ELSE {y}
    BY <1>1, <1>5
  <2>2. r.res # "FR_OK"
    BY <2>1, Returned
  <2> QED
    BY <1>5, <2>1, <2>2, WalkOn DEF NameFound
<1> QED
  BY <1>2, <1>3, <1>4, <1>5

\* The window holds the sector of the entry that was found.
Found(L, F, v, name, r) ==
  /\ Quiet(L, F, v, r) /\ r.res # "again"
  /\ r.res = "FR_OK" => /\ r.v.fs.winsect \in PlainSectors(L) /\ r.val.dptr \in Nat
                        /\ IsEntry(EntryAt(r.v, r.val)) /\ EntryAt(r.v, r.val).name = name

\* dir_find finds the entry with the name, with its sector in the window.
LEMMA DirFind ==
  ASSUME NEW L \in Geometries, NEW F, NEW v, NEW sclust, NEW name, Ready(L, F, v),
         sclust \in Nat
  PROVE  \A r \in dir_find(v, sclust, name) : Found(L, F, v, name, r)
<1> TAKE r \in dir_find(v, sclust, name)
<1>1. PICK u \in dir_sdi(v, sclust) :
        r \in IF u.res = "FR_OK"
              THEN {y \in Find!Recursive(name, Again(u.v, u.val), TableLength)[TableLength]
                    : y.res # "again"}
              ELSE {u}
  BY DEF dir_find, Then, Loop, Find!Recursive, FindStep
<1>2. DirFound(L, F, v, u)
  BY <1>1, DirSdi
<1>3. CASE u.res # "FR_OK"
  BY <1>1, <1>2, <1>3 DEF DirFound, Found
<1>4. CASE u.res = "FR_OK"
  <2> DEFINE q == [L |-> L, F |-> F, v |-> v]
             base == Again(u.v, u.val)
  <2>1. FindGood(name, q, 0, base)
    <3>1. \A x \in base : x.v = u.v /\ x.res = "again" /\ x.val = u.val
      BY Returned
    <3> HIDE DEF base
    <3>2. \A x \in base : NameFound(L, F, v, name, x)
      BY <1>2, <1>4, <3>1, PassedOn DEF NameFound, Walked, Walks, DirFound
    <3> QED
      BY <3>2 DEF FindGood
  <2>2. ASSUME NEW n \in 1 .. TableLength, NEW S, FindGood(name, q, n - 1, S)
        PROVE  FindGood(name, q, n, FindStep(name, n, S))
    <3>1. ASSUME NEW y \in FindStep(name, n, S)
          PROVE  NameFound(L, F, v, name, y)
      <4>1. PICK x \in S : y \in IF x.res = "again" THEN FindAt(x.v, x.val, name) ELSE {x}
        BY <3>1 DEF FindStep
      <4>2. NameFound(L, F, v, name, x)
        BY <2>2 DEF FindGood
      <4>3. CASE x.res = "again"
        <5>1. Walked(L, F, v, FALSE, x)
          BY <4>2 DEF NameFound
        <5> QED
          BY <4>1, <4>3, <5>1, FindAtWalks
      <4> QED
        BY <4>1, <4>2, <4>3
    <3> QED
      BY <3>1 DEF FindGood
  <2>3. TableLength \in Nat /\ TableLength \in 0 .. TableLength
    BY TableLengthNat
  <2> HIDE DEF q, base
  <2>4. \A n \in 0 .. TableLength :
          FindGood(name, q, n, Find!Recursive(name, base, TableLength)[n])
    BY <2>1, <2>2, <2>3, Find!RecursionInduction
  <2>5. r \in Find!Recursive(name, base, TableLength)[TableLength] /\ r.res # "again"
    BY <1>1, <1>4 DEF base
  <2>6. NameFound(L, F, v, name, r)
    BY <2>3, <2>4, <2>5 DEF FindGood, q
  <2>7. Quiet(L, F, v, r)
    BY <2>6 DEF NameFound, Walked, Walks
  <2>8. CASE r.res = "FR_OK"
    <3>1. r.v.fs.winsect \in PlainSectors(L) /\ r.val.dptr \in Nat
      BY <2>6, <2>8 DEF NameFound, Walked, DpFits
    <3>2. Ready(L, F, r.v)
      BY <2>7, <2>8, QuietReady
    <3>3. IsEntry(FreeEntry)
      BY Tables
    <3>4. IsEntry(EntryAt(r.v, r.val))
      BY <3>1, <3>2, <3>3, EntrySectors
    <3> QED
      BY <2>5, <2>6, <2>7, <2>8, <3>1, <3>4 DEF NameFound, Found
  <2> QED
    BY <2>5, <2>7, <2>8 DEF Found
<1> QED
  BY <1>3, <1>4

\* dir_register, before a file is open: the new entry is in the window, without a chain.
Registered(L, F, v, name, r) ==
  /\ Keeps(L, F, v, r) /\ r.res # "again"
  /\ r.res = "FR_OK" => /\ r.v.fs.winsect \in PlainSectors(L) /\ r.val.dptr \in Nat
                        /\ EntryAt(r.v, r.val).name = name

\* dir_register puts a new entry without a chain into the window.
LEMMA DirRegister ==
  ASSUME NEW L \in Geometries, NEW F, NEW v, NEW sclust, NEW name, Ready(L, F, v),
         Counted(L, v), sclust \in Nat, ~v.fp.open
  PROVE  \A r \in dir_register(v, sclust, name) : Registered(L, F, v, name, r)
<1> TAKE r \in dir_register(v, sclust, name)
<1> DEFINE e == [FreeEntry EXCEPT !.name = name]
           After(u, dp) == UNION {IF w.res = "FR_OK" THEN Return(PutEntry(w.v, dp, e), dp)
                                  ELSE {w} : w \in move_window(u, dp.sect)}
<1>1. PICK q \in dir_alloc(v, sclust) :
        r \in IF q.res = "FR_OK" THEN After(q.v, q.val) ELSE {q}
  BY DEF dir_register, Then
<1>2. \A u, dp, x : x \in After(u, dp) =>
        \E w \in move_window(u, dp.sect) :
          x \in IF w.res = "FR_OK" THEN Return(PutEntry(w.v, dp, e), dp) ELSE {w}
  OBVIOUS
<1> HIDE DEF After
<1>3. Placed(L, F, v, q)
  BY <1>1, DirAlloc
<1>4. CASE q.res # "FR_OK"
  BY <1>1, <1>3, <1>4 DEF Placed, Registered
<1>5. CASE q.res = "FR_OK"
  <2>1. PICK w \in move_window(q.v, q.val.sect) :
          r \in IF w.res = "FR_OK" THEN Return(PutEntry(w.v, q.val, e), q.val) ELSE {w}
    BY <1>1, <1>2, <1>5
  <2>2. /\ Keeps(L, F, v, q) /\ Ready(L, F, q.v) /\ q.val.dptr \in Nat
        /\ q.val.sect \in PlainSectors(L) /\ q.val.sect \in Sectors(L)
    BY <1>3, <1>5, KeepsReady, Regions DEF Placed, DpFits
  <2>3. Moved(L, F, q.v, q.val.sect, w)
    BY <2>1, <2>2, MoveWindowQuiet DEF Ready
  <2>4. Keeps(L, F, v, w) /\ w.res # "again"
    BY <1>5, <2>2, <2>3, QuietKeeps, KeepsTrans DEF Moved
  <2>5. CASE w.res # "FR_OK"
    BY <2>1, <2>4, <2>5 DEF Registered
  <2>6. CASE w.res = "FR_OK"
    <3>1. r.v = PutEntry(w.v, q.val, e) /\ r.res = "FR_OK" /\ r.val = q.val
      BY <2>1, <2>6, Returned
    <3>2. Ready(L, F, w.v) /\ w.v.fs.winsect \in PlainSectors(L)
      BY <2>2, <2>3, <2>4, <2>6, KeepsReady DEF Moved
    <3>3. IsEntry(e) /\ ~Live(e) /\ e.name = name
      BY Tables, Entries DEF Live, FreeEntry
    <3>7. ~w.v.fp.open
      BY <2>4, <2>6 DEF Keeps, Settles
    <3> HIDE DEF e
    <3>4. /\ Ready(L, F, r.v) /\ Same(L, w.v, r.v)
          /\ r.v.fs.winsect = w.v.fs.winsect /\ EntryAt(r.v, q.val) = e
      BY <2>2, <3>1, <3>2, <3>3, <3>7, EntrySectors
    <3>5. Quiet(L, F, w.v, r)
      BY <3>1, <3>4 DEF Quiet, Ready
    <3>6. Keeps(L, F, v, r)
      BY <2>4, <2>6, <3>2, <3>5, QuietKeeps, KeepsTrans
    <3> QED
      BY <2>2, <3>1, <3>2, <3>3, <3>4, <3>6 DEF Registered
  <2> QED
    BY <2>5, <2>6
<1> QED
  BY <1>4, <1>5

\* follow_path.
LEMMA FollowPath ==
  ASSUME NEW L \in Geometries, NEW F, NEW v, NEW name, Ready(L, F, v)
  PROVE  \A r \in follow_path(v, name) :
           /\ Quiet(L, F, v, r) /\ r.res # "again"
           /\ r.res = "FR_OK" => r.val \in Nat
<1> TAKE r \in follow_path(v, name)
<1>1. CASE name = "HELLO.TXT"
  <2>1. r.v = v /\ r.res = "FR_OK" /\ r.val = 0
    BY <1>1, Returned DEF follow_path
  <2> QED
    BY <2>1, AtOnce
<1>2. CASE name # "HELLO.TXT"
  <2>1. PICK q \in dir_find(v, 0, "LOGS") :
          r \in CASE q.res = "FR_NO_FILE" -> Fails(q.v, "FR_NO_PATH")
                  [] q.res = "FR_OK" /\ ~EntryAt(q.v, q.val).dir -> Fails(q.v, "FR_NO_PATH")
                  [] q.res = "FR_OK" /\ EntryAt(q.v, q.val).dir ->
                       Return(q.v, EntryAt(q.v, q.val).clst)
                  [] OTHER -> {q}
    BY <1>2 DEF follow_path
  <2>2. Found(L, F, v, "LOGS", q)
    BY <2>1, DirFind
  <2>3. CASE q.res \notin {"FR_NO_FILE", "FR_OK"}
    BY <2>1, <2>2, <2>3 DEF Found
  <2>4. CASE \/ q.res = "FR_NO_FILE"
             \/ q.res = "FR_OK" /\ ~EntryAt(q.v, q.val).dir
    <3>1. r.v = q.v /\ r.res = "FR_NO_PATH"
      BY <2>1, <2>4, Returned
    <3> QED
      BY <2>2, <2>4, <3>1, PassedOn DEF Found
  <2>5. CASE q.res = "FR_OK" /\ EntryAt(q.v, q.val).dir
    <3>1. r.v = q.v /\ r.res = "FR_OK" /\ r.val = EntryAt(q.v, q.val).clst
      BY <2>1, <2>5, Returned
    <3>2. EntryAt(q.v, q.val).clst \in Nat
      BY <2>2, <2>5 DEF Found, IsEntry
    <3> QED
      BY <2>2, <2>5, <3>1, <3>2, PassedOn DEF Found
  <2>6. \/ q.res \notin {"FR_NO_FILE", "FR_OK"}
        \/ q.res = "FR_NO_FILE"
        \/ q.res = "FR_OK" /\ ~EntryAt(q.v, q.val).dir
        \/ q.res = "FR_OK" /\ EntryAt(q.v, q.val).dir
    BY Zenon
  <2> QED
    BY <2>3, <2>4, <2>5, <2>6, Zenon
<1> QED
  BY <1>1, <1>2

--------------------------------------------------------------------------------
\* Mounting.

\* Another clean window, on neither the FAT nor a directory; what was to be written back
\* is not missed before a file is open.
LEMMA CleanWindow ==
  ASSUME NEW L \in Geometries, NEW F, NEW v, Sound(L, F, v), v.fp = Closed \/ ~v.fs.wflag,
         NEW w, IsVolume(w), w.disk = v.disk, w.fp = v.fp, IsFatFs(L, w.fs),
         ~w.fs.wflag, w.fs.winsect \in {NoSector, L.volbase, L.volbase + 1},
         w.fs.winsect # NoSector => Fits(L, w.fs.winsect, w.fs.win)
  PROVE  Sound(L, F, w)
<1>2. w.fs.winsect \notin FirstFat(L) /\ w.fs.winsect \notin PlainSectors(L)
  BY Places, Regions DEF NoSector
<1>1. \A c \in ClusterSet : Lib(L, w, c) = Card(L, v, c)
  BY <1>2, FatSects DEF Lib, Card
<1>3. LibFat(L, w) = CardFat(L, v) /\ CardFat(L, w) = CardFat(L, v)
  BY <1>1 DEF LibFat, CardFat, Card
<1>4. Held(L, w) \subseteq Held(L, v)
  <2>1. \A s \in PlainSectors(L) : \A x \in Versions(w, s) : x \in Versions(v, s)
    BY <1>2 DEF Versions
  <2> QED
    BY <2>1, HeldShrinks
<1>5. Owned(L, LibFat(L, w), CardFat(L, w), Held(L, w))
  BY <1>3, <1>4, OwnedFrom DEF Sound, Linked
<1>6. OwnFile(L, LibFat(L, w), Held(L, w), w.fp) /\ NameKept(L, w)
  <2>1. CASE v.fp = Closed
    BY <2>1 DEF OwnFile, NameKept, Closed
  <2>2. CASE ~v.fs.wflag
    <3>1. LibFat(L, v) = CardFat(L, v)
      BY <2>2, CleanLib DEF LibFat, CardFat
    <3>2. OwnFile(L, LibFat(L, w), Held(L, w), w.fp)
      BY <1>3, <1>4, <3>1 DEF Sound, Linked, OwnFile
    <3>3. NameKept(L, w)
      BY <1>2, <2>2 DEF Sound, Linked, NameKept, LibName, CardName
    <3> QED
      BY <3>2, <3>3
  <2> QED
    BY <2>1, <2>2
<1>7. Linked(L, w)
  BY <1>2, <1>5, <1>6 DEF Linked, Faithful
<1> QED
  BY <1>1, <1>2, <1>7, FsSound

\* The cleared FATFS object is a FATFS object.
LEMMA NoFatFs ==
  ASSUME NEW L \in Geometries
  PROVE  /\ IsFatFs(L, Unmounted) /\ Unmounted.fs_type = "none"
         /\ Unmounted.winsect = NoSector /\ Unmounted.wflag = FALSE
         /\ Unmounted.free_clst = MaxDword
BY Constants DEF Unmounted, IsFatFs

\* The FATFS object may be cleared before a file is open.
LEMMA NotMounted ==
  ASSUME NEW L \in Geometries, NEW F, NEW v, Sound(L, F, v), v.fp = Closed
  PROVE  LET w == [v EXCEPT !.fs = Unmounted]
         IN  /\ Sound(L, F, w) /\ w.fs = Unmounted /\ w.fp = v.fp /\ w.disk = v.disk
             /\ w.faults = v.faults /\ w.resets = v.resets
<1> DEFINE w == [v EXCEPT !.fs = Unmounted]
<1> HIDE DEF Unmounted
<1>1. /\ IsVolume(w) /\ w.disk = v.disk /\ w.fp = v.fp /\ w.fs = Unmounted
      /\ w.faults = v.faults /\ w.resets = v.resets
  BY DEF Sound, Shape, IsVolume
<1> HIDE DEF w
<1>2. Sound(L, F, w)
  BY <1>1, NoFatFs, CleanWindow, Regions
<1> QED
  BY <1>1, <1>2 DEF w

\* With nothing to write back the power does not go in move_window.
LEMMA CleanMove ==
  ASSUME NEW L \in Geometries, NEW F, NEW v, NEW s, Sound(L, F, v), ~v.fs.wflag,
         s \in Sectors(L)
  PROVE  \A r \in move_window(v, s) : r.res # "cut" /\ ~r.v.fs.wflag
<1> TAKE r \in move_window(v, s)
<1>1. CASE s = v.fs.winsect
  <2>1. r.v = v /\ r.res = "FR_OK"
    BY <1>1 DEF move_window, Return, Then
  <2> QED
    BY <2>1
<1>2. CASE s # v.fs.winsect
  <2>1. PICK q \in sync_window(v) :
          IF q.res = "FR_OK"
          THEN \E y \in disk_read(q.v, s) :
                 r \in IF y.res = "FR_OK" THEN Return(Window(y.v, s, y.val), 0)
                       ELSE Fails(Window(y.v, NoSector, NoData), y.res)
          ELSE r = q
    BY <1>2 DEF move_window, Then
  <2>2. q.v = v /\ q.res = "FR_OK"
    BY <2>1, Returned DEF sync_window
  <2>3. PICK y \in disk_read(v, s) :
          r \in IF y.res = "FR_OK" THEN Return(Window(y.v, s, y.val), 0)
                ELSE Fails(Window(y.v, NoSector, NoData), y.res)
    BY <2>1, <2>2
  <2>4. /\ Quiet(L, F, v, y) /\ y.res \notin {"cut", "again"} /\ y.v.fs = v.fs
        /\ y.res = "FR_OK" => Fits(L, s, y.val) /\ y.val = v.disk[s]
        /\ y.v.disk = v.disk
    BY <2>3, ReadQuiet
  <2>5. Sound(L, F, y.v) /\ ~y.v.fs.wflag
    BY <2>4 DEF Quiet
  <2>6. CASE y.res = "FR_OK"
    <3>1. r.v = Window(y.v, s, y.val) /\ r.res = "FR_OK"
      BY <2>3, <2>6, Returned
    <3>2. ~r.v.fs.wflag
      BY <2>4, <2>5, <2>6, <3>1, WindowSound
    <3> QED
      BY <3>1, <3>2
  <2>7. CASE y.res # "FR_OK"
    <3>1. r.v = Window(y.v, NoSector, NoData) /\ r.res = y.res
      BY <2>3, <2>7, Returned
    <3>2. ~r.v.fs.wflag
      BY <2>5, <3>1, WindowSound, Regions
    <3> QED
      BY <2>4, <3>1, <3>2
  <2> QED
    BY <2>6, <2>7
<1> QED
  BY <1>1, <1>2

\* What a boot sector says is read from where the volume begins.
Boot(L) == [kind |-> "vbr", fs_type |-> L.fs_type, n_fats |-> L.n_fats]

Idle(L, F, v, w) ==
  /\ Sound(L, F, w) /\ SameRest(v, w) /\ ~w.fs.wflag

Looked(L, F, v, r) ==
  /\ Idle(L, F, v, r.v)
  /\ r.res = "FR_OK" => /\ r.val \in {0, 2, 3, 4}
                        /\ r.val = 0 => r.v.fs.winsect = L.volbase /\ r.v.fs.win = Boot(L)
                        /\ r.val = 2 => r.v.fs.win.starts = <<0, L.volbase>>

\* check_fs moves the window and finds what the boot sector says.
LEMMA CheckFs ==
  ASSUME NEW L \in Geometries, NEW F, NEW v, Sound(L, F, v), v.fp = Closed,
         NEW s \in {0, L.volbase}
  PROVE  \A r \in check_fs(v, s) : Looked(L, F, v, r) /\ r.res = "FR_OK"
<1> TAKE r \in check_fs(v, s)
<1> DEFINE w == [v EXCEPT !.fs.wflag = FALSE, !.fs.winsect = NoSector]
           Kind(x) == CASE x.kind = "vbr" -> 0 [] x.kind = "mbr" -> 2 [] OTHER -> 3
<1>1. PICK q \in move_window(w, s) :
        IF q.res # "FR_OK" THEN r \in Return(q.v, 4)
        ELSE r \in Return(q.v, Kind(q.v.fs.win))
  BY DEF check_fs
<1>2. /\ IsVolume(w) /\ w.disk = v.disk /\ w.fp = v.fp
      /\ w.fs = [v.fs EXCEPT !.wflag = FALSE, !.winsect = NoSector]
  BY DEF Sound, Shape, IsVolume
<1> HIDE DEF w, Kind
<1>3. /\ IsFatFs(L, w.fs) /\ ~w.fs.wflag /\ w.fs.winsect = NoSector /\ SameRest(v, w)
  BY <1>2 DEF Sound, Shape, IsFatFs, SameRest
<1>4. Sound(L, F, w)
  BY <1>2, <1>3, CleanWindow, Regions
<1>5. s \in Sectors(L) /\ s # NoSector
  BY Regions
<1>6. Moved(L, F, w, s, q)
  BY <1>1, <1>4, <1>5, MoveWindowQuiet
<1>7. q.res # "cut" /\ ~q.v.fs.wflag
  BY <1>1, <1>3, <1>4, <1>5, CleanMove
<1>8. Idle(L, F, v, q.v)
  BY <1>3, <1>6, <1>7 DEF Moved, Quiet, Same, SameRest, Idle
<1>9. CASE q.res # "FR_OK"
  <2>1. r.v = q.v /\ r.res = "FR_OK" /\ r.val = 4
    BY <1>1, <1>9, Returned
  <2> QED
    BY <1>8, <2>1 DEF Looked
<1>10. CASE q.res = "FR_OK"
  <2>1. r.v = q.v /\ r.res = "FR_OK" /\ r.val = Kind(q.v.fs.win)
    BY <1>1, <1>10, Returned
  <2>2. q.v.fs.winsect = s /\ Fits(L, s, q.v.fs.win)
    BY <1>6, <1>10 DEF Moved
  <2>3. CASE s = L.volbase
    <3>1. q.v.fs.win = Boot(L)
      BY <2>2, <2>3 DEF Fits, Boot
    <3>2. q.v.fs.win.kind = "vbr"
      BY <3>1 DEF Boot
    <3>3. r.val = 0
      BY <2>1, <3>2 DEF Kind
    <3> QED
      BY <1>8, <2>1, <2>2, <2>3, <3>1, <3>3 DEF Looked
  <2>4. CASE s # L.volbase
    <3>1. s < L.volbase
      BY <2>4, Places
    <3>2. q.v.fs.win = [kind |-> "mbr", starts |-> <<0, L.volbase>>]
      BY <2>2, <3>1 DEF Fits
    <3>3. q.v.fs.win.kind = "mbr" /\ q.v.fs.win.starts = <<0, L.volbase>>
      BY <3>2
    <3>4. r.val = 2
      BY <2>1, <3>3 DEF Kind
    <3> QED
      BY <1>8, <2>1, <3>3, <3>4 DEF Looked
  <2> QED
    BY <2>3, <2>4
<1> QED
  BY <1>9, <1>10

\* The volume is the card, or its partition.
TryStep(p, n, S) ==
  UNION {IF r.res = "again" THEN TryPartition(r.v, r.val) ELSE {r} : r \in S}
Tried(L, F, v, r) ==
  /\ Looked(L, F, v, r) /\ r.res \in {"FR_OK", "again"}
  /\ r.res = "again" => r.val \in {<<0, L.volbase>>, <<L.volbase>>}
TryGood(p, q, n, S) == \A r \in S : Tried(q.L, q.F, q.v, r)
Try == INSTANCE Induction WITH Step <- TryStep, Good <- TryGood

\* Two calls before the volume is mounted are one.
LEMMA IdleTrans ==
  ASSUME NEW L, NEW F, NEW v, NEW u, NEW w, Idle(L, F, v, u), Idle(L, F, u, w)
  PROVE  Idle(L, F, v, w)
BY DEF Idle, SameRest

\* A round of the search for a partition.
LEMMA TryPartitionLooks ==
  ASSUME NEW L \in Geometries, NEW F, NEW v, v.fp = Closed, NEW x, Tried(L, F, v, x),
         x.res = "again"
  PROVE  \A r \in TryPartition(x.v, x.val) : Tried(L, F, v, r)
<1> TAKE r \in TryPartition(x.v, x.val)
<1>1. PICK q \in IF Head(x.val) = 0 THEN Return(x.v, 3) ELSE check_fs(x.v, Head(x.val)) :
        r \in IF q.res = "FR_OK"
              THEN IF q.val >= 2 /\ Tail(x.val) # <<>> THEN Again(q.v, Tail(x.val))
                   ELSE Return(q.v, q.val)
              ELSE {q}
  BY DEF TryPartition, Then
<1>2. /\ x.val \in {<<0, L.volbase>>, <<L.volbase>>}
      /\ Idle(L, F, v, x.v)
  BY DEF Tried, Looked
<1>3. /\ Head(x.val) \in {0, L.volbase} /\ Tail(x.val) \in {<<>>, <<L.volbase>>}
      /\ L.volbase \in Nat
  <2>1. \A a \in Nat : Head(<<a>>) = a /\ Head(<<0, a>>) = 0
    OBVIOUS
  <2>2. \A a \in Nat : Tail(<<a>>) = <<>>
    OBVIOUS
  <2>3. \A a \in Nat : Tail(<<0, a>>) = <<a>>
    OBVIOUS
  <2>4. L.volbase \in Nat
    BY Places
  <2> QED
    BY <1>2, <2>1, <2>2, <2>3, <2>4, Zenon
<1>4. Looked(L, F, v, q) /\ q.res = "FR_OK"
  <2>1. CASE Head(x.val) = 0
    <3>1. q.v = x.v /\ q.res = "FR_OK" /\ q.val = 3
      BY <1>1, <2>1, Returned
    <3> QED
      BY <1>2, <3>1 DEF Looked
  <2>2. CASE Head(x.val) # 0
    <3>1. Looked(L, F, x.v, q) /\ q.res = "FR_OK"
      BY <1>1, <1>2, <1>3, <2>2, CheckFs DEF Idle, SameRest
    <3> QED
      BY <1>2, <3>1, IdleTrans DEF Looked
  <2> QED
    BY <2>1, <2>2
<1>5. CASE q.val >= 2 /\ Tail(x.val) # <<>>
  <2>1. r.v = q.v /\ r.res = "again" /\ r.val = Tail(x.val)
    BY <1>1, <1>4, <1>5, Returned
  <2> QED
    BY <1>3, <1>4, <1>5, <2>1 DEF Looked, Tried
<1>6. CASE ~(q.val >= 2 /\ Tail(x.val) # <<>>)
  <2>1. r.v = q.v /\ r.res = "FR_OK" /\ r.val = q.val
    BY <1>1, <1>4, <1>6, Returned
  <2> QED
    BY <1>4, <2>1 DEF Looked, Tried
<1> QED
  BY <1>5, <1>6

\* find_volume says what check_fs has found.
LEMMA FindVolume ==
  ASSUME NEW L \in Geometries, NEW F, NEW v, Sound(L, F, v), v.fp = Closed
  PROVE  \A r \in find_volume(v) : Looked(L, F, v, r) /\ r.res = "FR_OK"
<1> TAKE r \in find_volume(v)
<1>1. PICK u \in check_fs(v, 0) :
        r \in IF u.res = "FR_OK"
              THEN IF u.val = 2
                   THEN {y \in Try!Recursive(0, Again(u.v, u.v.fs.win.starts),
                                             Len(u.v.fs.win.starts))
                                               [Len(u.v.fs.win.starts)] : y.res # "again"}
                   ELSE Return(u.v, u.val)
              ELSE {u}
  BY DEF find_volume, Then, Loop, Try!Recursive, TryStep
<1>2. Looked(L, F, v, u) /\ u.res = "FR_OK"
  BY CheckFs
<1>3. CASE u.val # 2
  <2>1. r.v = u.v /\ r.res = "FR_OK" /\ r.val = u.val
    BY <1>1, <1>2, <1>3, Returned
  <2> QED
    BY <1>2, <2>1 DEF Looked
<1>4. CASE u.val = 2
  <2>1. u.v.fs.win.starts = <<0, L.volbase>>
    BY <1>2, <1>4 DEF Looked
  <2> DEFINE q == [L |-> L, F |-> F, v |-> v]
             base == Again(u.v, <<0, L.volbase>>)
  <2>2. r \in Try!Recursive(0, base, 2)[2] /\ r.res # "again"
    <3>1. Len(<<0, L.volbase>>) = 2
      OBVIOUS
    <3> QED
      BY <1>1, <1>2, <1>4, <2>1, <3>1
  <2>3. TryGood(0, q, 0, base)
    <3>1. \A x \in base : x.v = u.v /\ x.res = "again" /\ x.val = <<0, L.volbase>>
      BY Returned
    <3> HIDE DEF base
    <3>2. \A x \in base : Tried(L, F, v, x)
      BY <1>2, <3>1 DEF Tried, Looked
    <3> QED
      BY <3>2 DEF TryGood
  <2>4. ASSUME NEW n \in 1 .. 2, NEW S, TryGood(0, q, n - 1, S)
        PROVE  TryGood(0, q, n, TryStep(0, n, S))
    <3>1. ASSUME NEW y \in TryStep(0, n, S)
          PROVE  Tried(L, F, v, y)
      <4>1. PICK x \in S : y \in IF x.res = "again" THEN TryPartition(x.v, x.val) ELSE {x}
        BY <3>1 DEF TryStep
      <4>2. Tried(L, F, v, x)
        BY <2>4 DEF TryGood
      <4>3. CASE x.res = "again"
        BY <4>1, <4>2, <4>3, TryPartitionLooks
      <4> QED
        BY <4>1, <4>2, <4>3
    <3> QED
      BY <3>1 DEF TryGood
  <2>5. 2 \in Nat /\ 2 \in 0 .. 2
    OBVIOUS
  <2> HIDE DEF q, base
  <2>6. \A n \in 0 .. 2 : TryGood(0, q, n, Try!Recursive(0, base, 2)[n])
    BY <2>3, <2>4, <2>5, Try!RecursionInduction
  <2>7. Tried(L, F, v, r)
    BY <2>2, <2>5, <2>6 DEF TryGood, q
  <2> QED
    BY <2>2, <2>7 DEF Tried
<1> QED
  BY <1>3, <1>4

\* FSInfo has a count that covers what is free.
LEMMA InfoCounted ==
  ASSUME NEW L \in Geometries, NEW F, NEW v, Sound(L, F, v)
  PROVE  InfoFree(L, v) <= Clusters => InfoFree(L, v) >= Free(L, v)
<1>1. F \subseteq ClusterSet /\ LibFree(L, v) \subseteq F
  BY DEF Sound, Covered, LibFree
<1>2. IsFiniteSet(ClusterSet)
  BY Sizes, FS_Interval DEF ClusterSet
<1>3. IsFiniteSet(F) /\ Cardinality(F) \in Nat /\ Free(L, v) \in Nat
      /\ Free(L, v) <= Cardinality(F)
  BY <1>1, <1>2, FS_Subset, FS_CardinalityType DEF Free
<1>4. InfoFree(L, v) \in Nat
  <2>1. L.volbase + 1 \in Sectors(L)
    BY Regions
  <2>2. Fits(L, L.volbase + 1, v.disk[L.volbase + 1])
    BY <2>1 DEF Sound, Contents
  <2> QED
    BY <2>2 DEF Fits, InfoFree
<1> QED
  BY <1>3, <1>4, Constants DEF Sound, Covered

Mounts(L, F, v, r) ==
  /\ Sound(L, F, r.v) /\ r.v.fp = v.fp /\ r.res \notin {"cut", "again"}
  /\ r.res = "FR_OK" => Mounted(L, r.v.fs) /\ Counted(L, r.v)

\* A count read from FSInfo covers what is free.
LEMMA ReadFsInfoMounts ==
  ASSUME NEW L \in Geometries, NEW F, NEW v, Ready(L, F, v), ~v.fs.wflag,
         v.fs.free_clst = MaxDword, v.fs.winsect # L.volbase + 1
  PROVE  \A r \in ReadFsInfo(v) : Mounts(L, F, v, r)
<1> TAKE r \in ReadFsInfo(v)
<1>1. PICK q \in move_window(v, v.fs.volbase + 1) :
        IF q.res # "FR_OK" THEN r \in Return(q.v, 0)
        ELSE r \in Return([q.v EXCEPT !.fs.fsi_flag = "clean",
                                      !.fs.free_clst = q.v.fs.win.free,
                                      !.fs.last_clst = q.v.fs.win.last], 0)
  BY DEF ReadFsInfo
<1>2. v.fs.volbase + 1 = L.volbase + 1 /\ L.volbase + 1 \in Sectors(L)
  BY Regions DEF Ready, Mounted
<1> DEFINE s == L.volbase + 1
<1>3. s \in Sectors(L) /\ s # v.fs.winsect /\ q \in move_window(v, s) /\ Sound(L, F, v)
  BY <1>1, <1>2 DEF Ready
<1> HIDE DEF s
<1>4. Moved(L, F, v, s, q) /\ q.res # "cut"
  BY <1>3, MoveWindowQuiet, CleanMove
<1>5. Ready(L, F, q.v) /\ Same(L, v, q.v)
  BY <1>4, QuietReady DEF Moved
<1>6. CASE q.res # "FR_OK"
  <2>1. r.v = q.v /\ r.res = "FR_OK"
    BY <1>1, <1>6, Returned
  <2>2. Counted(L, r.v)
    BY <1>5, <2>1, Constants DEF Same, SameRest, Counted
  <2> QED
    BY <1>5, <2>1, <2>2 DEF Mounts, Ready, Same, SameRest
<1>7. CASE q.res = "FR_OK"
  <2>1. /\ q.v.fs.win \in [kind : {"fsinfo"}, free : Nat, last : Nat]
        /\ q.v.fs.win.free = InfoFree(L, q.v)
    <3>1. Fits(L, s, q.v.fs.win) /\ q.v.fs.win = q.v.disk[s]
      BY <1>3, <1>4, <1>7 DEF Moved
    <3> QED
      BY <3>1 DEF Fits, InfoFree, s
  <2> DEFINE free == q.v.fs.win.free
             last == q.v.fs.win.last
  <2>2. free \in Nat /\ last \in Nat /\ free = InfoFree(L, q.v)
    BY <2>1
  <2>3. /\ r.res = "FR_OK"
        /\ r.v = [q.v EXCEPT !.fs.fsi_flag = "clean", !.fs.free_clst = free,
                             !.fs.last_clst = last]
    BY <1>1, <1>7, Returned
  <2> HIDE DEF free, last
  <2>4. /\ IsVolume(r.v) /\ r.v.disk = q.v.disk /\ r.v.fp = q.v.fp
        /\ r.v.fs = [q.v.fs EXCEPT !.fsi_flag = "clean", !.free_clst = free,
                                   !.last_clst = last]
    BY <1>5, <2>3 DEF Ready, Sound, Shape, IsVolume
  <2>5. Recounted(L, q.v, r.v) /\ r.v.fs.free_clst = free
    BY <1>5, <2>2, <2>4 DEF Ready, Sound, Shape, IsFatFs, Recounted
  <2>6. Ready(L, F, r.v) /\ Free(L, r.v) = Free(L, q.v)
    BY <1>5, <2>5, RecountedReady
  <2>7. Counted(L, r.v)
    BY <1>5, <2>2, <2>5, <2>6, InfoCounted DEF Ready, Counted
  <2> QED
    BY <1>5, <2>3, <2>4, <2>6, <2>7 DEF Mounts, Ready, Same, SameRest
<1> QED
  BY <1>6, <1>7

\* mount_volume mounts the volume with its count, or changes nothing if it is mounted.
LEMMA MountVolume ==
  ASSUME NEW L \in Geometries, NEW F, NEW v, Sound(L, F, v),
         \/ v.fs.fs_type = "none" /\ v.fs.free_clst = MaxDword /\ v.fp = Closed
         \/ Mounted(L, v.fs) /\ Counted(L, v)
  PROVE  \A r \in mount_volume(v) :
           /\ Mounts(L, F, v, r)
           /\ Mounted(L, v.fs) => r.v = v
<1> TAKE r \in mount_volume(v)
<1>0. Mounted(L, v.fs) => v.fs.fs_type # "none"
  BY Places DEF Mounted
<1>1. CASE v.fs.fs_type # "none"
  <2>1. r.v = v /\ r.res = "FR_OK"
    BY <1>1, Returned DEF mount_volume
  <2> QED
    BY <1>1, <2>1 DEF Mounts
<1>2. CASE v.fs.fs_type = "none"
  <2> DEFINE found(w) == [w EXCEPT !.fs.fs_type = w.fs.win.fs_type,
                                   !.fs.n_fats = w.fs.win.n_fats,
                                   !.fs.volbase = w.fs.winsect]
             Last(w, fmt) ==
               CASE fmt = 4 -> Fails(w, "FR_DISK_ERR")
                 [] fmt \in {2, 3} -> Fails(w, "FR_NO_FILESYSTEM")
                 [] OTHER -> IF IsFat32(found(w).fs) THEN ReadFsInfo(found(w))
                             ELSE Return(found(w), 0)
             After(u) == UNION {IF y.res = "FR_OK" THEN Last(y.v, y.val) ELSE {y}
                                : y \in find_volume(u)}
  <2>1. PICK q \in disk_initialize(v) :
          r \in IF q.res = "FR_OK" THEN After(q.v) ELSE {q}
    BY Zenon, <1>2 DEF mount_volume, Then
  <2>2. \A u, x : x \in After(u) =>
          \E y \in find_volume(u) : x \in IF y.res = "FR_OK" THEN Last(y.v, y.val) ELSE {y}
    BY Zenon
  <2> HIDE DEF After, Last, found
  <2>3. \/ q.v = v /\ q.res = "FR_OK"
        \/ q.v \in Faulty(v) /\ q.res = "FR_NOT_READY"
    BY <2>1 DEF disk_initialize, Return, Fails
  <2>4. CASE q.res # "FR_OK"
    <3>1. r = q /\ q.v \in Faulty(v) /\ q.res = "FR_NOT_READY"
      BY <2>1, <2>3, <2>4
    <3>2. Sound(L, F, r.v) /\ r.v.fp = v.fp
      BY <3>1, FaultySound
    <3> QED
      BY <1>0, <1>2, <3>1, <3>2 DEF Mounts
  <2>5. CASE q.res = "FR_OK"
    <3>1. PICK y \in find_volume(v) :
            r \in IF y.res = "FR_OK" THEN Last(y.v, y.val) ELSE {y}
      BY <2>1, <2>2, <2>3, <2>5
    <3>2. Looked(L, F, v, y) /\ y.res = "FR_OK"
      BY <1>0, <1>2, <3>1, FindVolume
    <3>3. Idle(L, F, v, y.v) /\ y.val \in {0, 2, 3, 4} /\ r \in Last(y.v, y.val)
      BY <3>1, <3>2 DEF Looked
    <3>4. CASE y.val # 0
      <4>1. r.v = y.v /\ r.res \in {"FR_DISK_ERR", "FR_NO_FILESYSTEM"}
        BY <3>3, <3>4, Returned DEF Last
      <4> QED
        BY <1>0, <1>2, <3>3, <4>1 DEF Mounts, Idle, SameRest
    <3>5. CASE y.val = 0
      <4> DEFINE f == found(y.v)
      <4>1. r \in IF IsFat32(f.fs) THEN ReadFsInfo(f) ELSE Return(f, 0)
        BY <3>3, <3>5 DEF Last
      <4>2. y.v.fs.winsect = L.volbase /\ y.v.fs.win = Boot(L)
        BY <3>2, <3>5 DEF Looked
      <4>3. /\ y.v.fs.win.fs_type = L.fs_type /\ y.v.fs.win.n_fats = L.n_fats
        BY <4>2 DEF Boot
      <4>4. /\ IsVolume(f) /\ f.disk = y.v.disk /\ f.fp = y.v.fp
            /\ f.fs = [y.v.fs EXCEPT !.fs_type = L.fs_type, !.n_fats = L.n_fats,
                                     !.volbase = L.volbase]
        BY <3>3, <4>2, <4>3 DEF Idle, Sound, Shape, IsVolume, found
      <4> HIDE DEF f
      <4>5. /\ IsFatFs(L, f.fs) /\ f.fs.wflag = y.v.fs.wflag
            /\ f.fs.winsect = y.v.fs.winsect /\ f.fs.win = y.v.fs.win
            /\ f.fs.free_clst = y.v.fs.free_clst /\ Mounted(L, f.fs)
        BY <3>3, <4>4, Places DEF Idle, Sound, Shape, IsFatFs, Mounted
      <4>6. Sound(L, F, f)
        <5>1. L.volbase # NoSector => Fits(L, y.v.fs.winsect, y.v.fs.win)
          BY <3>3, <4>2 DEF Idle, Sound, Contents
        <5> QED
          BY <3>3, <4>2, <4>4, <4>5, <5>1, CleanWindow DEF Idle
      <4>7. /\ f.fs.free_clst = MaxDword /\ ~f.fs.wflag /\ f.fp = v.fp
            /\ f.fs.winsect = L.volbase
        BY <1>0, <1>2, <3>3, <4>2, <4>4, <4>5 DEF Idle, SameRest
      <4>8. CASE IsFat32(f.fs)
        <5>1. f.fs.winsect # L.volbase + 1
          BY <4>7, Places
        <5>2. Ready(L, F, f)
          BY <4>5, <4>6 DEF Ready
        <5>3. Mounts(L, F, f, r)
          BY <4>1, <4>7, <4>8, <5>1, <5>2, ReadFsInfoMounts
        <5> QED
          BY <1>0, <1>2, <4>7, <5>3 DEF Mounts
      <4>9. CASE ~IsFat32(f.fs)
        <5>1. r.v = f /\ r.res = "FR_OK"
          BY <4>1, <4>9, Returned
        <5>2. Counted(L, f)
          BY <4>7, Constants DEF Counted
        <5> QED
          BY <1>0, <1>2, <4>5, <4>6, <4>7, <5>1, <5>2 DEF Mounts
      <4> QED
        BY <4>8, <4>9
    <3> QED
      BY <3>4, <3>5
  <2> QED
    BY <2>4, <2>5
<1> QED
  BY <1>1, <1>2

\* f_mount keeps the volume sound; without an error it is mounted and counted.
LEMMA FMount ==
  ASSUME NEW L \in Geometries, NEW F, NEW v, Sound(L, F, v), v.fp = Closed
  PROVE  \A r \in f_mount(v) : Mounts(L, F, v, r)
<1> TAKE r \in f_mount(v)
<1> DEFINE w == [v EXCEPT !.fs = Unmounted]
<1>1. r \in mount_volume(w)
  BY DEF f_mount
<1>2. Sound(L, F, w) /\ w.fs = Unmounted /\ w.fp = v.fp
  BY NotMounted
<1> HIDE DEF w
<1>3. w.fs.fs_type = "none" /\ w.fs.free_clst = MaxDword
  BY <1>2, NoFatFs
<1>4. Mounts(L, F, w, r)
  BY <1>1, <1>2, <1>3, MountVolume
<1> QED
  BY <1>2, <1>4 DEF Mounts

\* f_mount(NULL) leaves nothing in RAM.
LEMMA FUnmount ==
  ASSUME NEW L \in Geometries, NEW F, NEW v, Sound(L, F, v)
  PROVE  /\ Sound(L, F, f_unmount(v)) /\ Off(f_unmount(v))
         /\ f_unmount(v).disk = v.disk
<1>1. /\ f_unmount(v).disk = v.disk /\ Off(f_unmount(v)) /\ IsVolume(f_unmount(v))
  BY DEF Sound, Shape, IsVolume, f_unmount, Off
<1> QED
  BY <1>1, OffSound

--------------------------------------------------------------------------------
\* The allocation information on the card: from then on F is what is free now.
SomeSound(L, v) == \E G : Sound(L, G, v)

\* The results of an operation that may end with sync_fs.
Settled(L, v, r) ==
  /\ SomeSound(L, r.v) /\ r.res # "again"
  /\ IF r.res = "cut" THEN Off(r.v)
     ELSE r.v.fp = v.fp /\ Mounted(L, r.v.fs) /\ Counted(L, r.v)

\* An operation that keeps chains and counts has settled.
LEMMA KeepsSettled ==
  ASSUME NEW L, NEW F, NEW v, NEW r, Counted(L, v), Settles(L, F, v, r), r.res # "again"
  PROVE  Settled(L, v, r)
BY DEF Settles, Settled, SomeSound

Info(f) == [kind |-> "fsinfo", free |-> f.free_clst, last |-> f.last_clst]

\* FSInfo with the count that the library has covers what is free from then on.
LEMMA InfoSound ==
  ASSUME NEW L \in Geometries, NEW F, NEW v, Ready(L, F, v), Counted(L, v),
         v.fs.winsect = L.volbase + 1, v.fs.win = Info(v.fs), ~v.fs.wflag
  PROVE  LET new == [v EXCEPT !.disk[L.volbase + 1] = Info(v.fs)]
         IN  /\ SomeSound(L, new) /\ Ready(L, LibFree(L, v), new) /\ Same(L, v, new)
             /\ new.fs = v.fs /\ new.fp = v.fp
<1> DEFINE s == L.volbase + 1
           x == Info(v.fs)
           new == [v EXCEPT !.disk[s] = x]
           G == LibFree(L, v)
<1>1. /\ new.fs = v.fs /\ new.fp = v.fp /\ new.disk = [v.disk EXCEPT ![s] = x]
      /\ Shape(L, new)
  BY DEF Ready, Sound, Shape, IsVolume
<1>2. s \in Sectors(L) /\ s # NoSector /\ s \notin FirstFat(L)
  BY Regions
<1>3. Fits(L, s, x) /\ x.free = v.fs.free_clst
  <2>1. Fits(L, v.fs.winsect, v.fs.win)
    BY <1>2 DEF Ready, Sound, Contents
  <2> QED
    BY <2>1 DEF Info
<1> HIDE DEF new, s, x
<1>4. /\ new.disk[s] = x
      /\ \A t \in Sectors(L) : t # s => new.disk[t] = v.disk[t]
  BY <1>1, <1>2 DEF Ready, Sound, Shape, IsVolume
<1>5. Contents(L, new)
  BY <1>1, <1>2, <1>3, <1>4, Regions DEF Ready, Sound, Contents, s
<1>6. ASSUME NEW c \in ClusterSet
      PROVE  Card(L, new, c) = Lib(L, v, c) /\ Lib(L, new, c) = Lib(L, v, c)
  <2>1. /\ FatSect(L, c) \in FirstFat(L) /\ FatSect(L, c) \in Sectors(L)
        /\ FatSect(L, c) # s /\ v.fs.winsect # FatSect(L, c)
    BY <1>2, FatSects, Regions DEF s
  <2>2. Card(L, new, c) = Card(L, v, c)
    BY <1>4, <2>1 DEF Card
  <2>3. Lib(L, v, c) = Card(L, v, c)
    BY <2>1 DEF Lib
  <2>4. Lib(L, new, c) = Card(L, new, c)
    BY <1>1, <2>1 DEF Lib
  <2> QED
    BY <2>2, <2>3, <2>4
<1>7. Covered(L, G, new)
  <2>1. G \in SUBSET ClusterSet /\ \A c \in ClusterSet : c \in G <=> Lib(L, v, c) = 0
    BY DEF LibFree
  <2>2. InfoFree(L, new) = v.fs.free_clst
    BY <1>3, <1>4 DEF InfoFree, s
  <2>3. InfoFree(L, new) <= Clusters => InfoFree(L, new) >= Cardinality(G)
    BY <2>2 DEF Counted, Free
  <2>4. \A c \in ClusterSet :
          /\ Card(L, new, c) = 0 \/ Lib(L, new, c) = 0 => c \in G
          /\ c \in G => Within(G, Card(L, new, c)) /\ Within(G, Lib(L, new, c))
    BY <1>6, <2>1 DEF Within
  <2> QED
    BY <2>1, <2>3, <2>4 DEF Covered
<1>10. Linked(L, new) /\ Held(L, new) \subseteq Held(L, v)
  <2>1. LibFat(L, new) = LibFat(L, v) /\ CardFat(L, new) = LibFat(L, v)
    BY <1>6 DEF LibFat, CardFat
  <2>2. s \notin PlainSectors(L)
    BY Places, Regions DEF s
  <2> QED
    BY <1>1, <1>2, <1>4, <2>1, <2>2, PlacedLinked DEF Ready, Sound, MayPlace
<1>8. Sound(L, G, new)
  BY <1>1, <1>5, <1>7, <1>10 DEF Sound
<1>9. Same(L, v, new)
  BY <1>1, <1>6, <1>10 DEF Same, SameRest
<1> QED
  BY <1>1, <1>8, <1>9 DEF SomeSound, Ready, new, s, x

\* sync_fs.
LEMMA SyncFs ==
  ASSUME NEW L \in Geometries, NEW F, NEW v, Ready(L, F, v), Counted(L, v)
  PROVE  \A r \in sync_fs(v) :
           Settled(L, v, r) /\ (r.res # "cut" => LibFree(L, r.v) = LibFree(L, v))
<1> TAKE r \in sync_fs(v)
<1> DEFINE After(u) ==
             IF u.fs.fsi_flag # "changed" THEN Return(u, 0)
             ELSE UNION {IF y.res = "cut" THEN {y} ELSE Return(y.v, 0)
                         : y \in disk_write(
                                   Window([u EXCEPT !.fs.fsi_flag = "clean"],
                                          u.fs.volbase + 1, Info(u.fs)),
                                   Window([u EXCEPT !.fs.fsi_flag = "clean"],
                                          u.fs.volbase + 1, Info(u.fs)).fs.winsect,
                                   Info(u.fs))}
<1>1. PICK q \in sync_window(v) : r \in IF q.res = "FR_OK" THEN After(q.v) ELSE {q}
  BY DEF sync_fs, Then, Regardless, Info
<1>2. /\ Quiet(L, F, v, q) /\ q.res # "again"
      /\ q.res = "FR_OK" => ~q.v.fs.wflag
  BY <1>1, SyncWindowQuiet DEF Ready
<1>3. CASE q.res # "FR_OK"
  <2>1. Settled(L, v, q)
    BY <1>2, QuietKeeps, KeepsSettled DEF Keeps
  <2> QED
    BY <1>1, <1>2, <1>3, <2>1, QuietCounted
<1>4. CASE q.res = "FR_OK"
  <2> DEFINE u == q.v
  <2>1. /\ Ready(L, F, u) /\ Counted(L, u) /\ LibFree(L, u) = LibFree(L, v)
        /\ ~u.fs.wflag /\ u.fp = v.fp /\ r \in After(u)
    BY <1>1, <1>2, <1>4, QuietCounted, QuietReady DEF Same, SameRest
  <2> HIDE DEF u
  <2>2. CASE u.fs.fsi_flag # "changed"
    <3>1. r.v = u /\ r.res = "FR_OK"
      BY <2>1, <2>2, Returned
    <3> QED
      BY <2>1, <3>1 DEF Settled, SomeSound, Ready
  <2>3. CASE u.fs.fsi_flag = "changed"
    <3> DEFINE s == L.volbase + 1
               w == Window([u EXCEPT !.fs.fsi_flag = "clean"], u.fs.volbase + 1, Info(u.fs))
               x == Info(u.fs)
    <3>1. PICK y \in disk_write(w, w.fs.winsect, x) :
            r \in IF y.res = "cut" THEN {y} ELSE Return(y.v, 0)
      BY <2>1, <2>3
    <3>2. u.fs.volbase + 1 = s /\ s \in Sectors(L) /\ s \notin FirstFat(L)
      BY <2>1, Regions DEF Ready, Mounted
    <3>3. /\ IsVolume(w) /\ w.disk = u.disk /\ w.fp = u.fp
          /\ w.fs = [u.fs EXCEPT !.fsi_flag = "clean", !.winsect = s, !.win = x]
      BY <2>1, <3>2 DEF Ready, Sound, Shape, IsVolume, Window
    <3> HIDE DEF w, x, s
    <3>4. /\ IsFatFs(L, w.fs) /\ w.fs.winsect = s /\ w.fs.win = x /\ ~w.fs.wflag
          /\ w.fs.free_clst = u.fs.free_clst /\ w.fs.last_clst = u.fs.last_clst
          /\ w.fs.fs_type = u.fs.fs_type /\ w.fs.volbase = u.fs.volbase
          /\ w.fs.n_fats = u.fs.n_fats
      BY <2>1, <3>2, <3>3 DEF Ready, Sound, Shape, IsFatFs
    <3>5. x = Info(w.fs) /\ Fits(L, s, x)
      <4>1. x = Info(w.fs)
        BY <3>4 DEF Info, x
      <4>2. u.fs.free_clst \in Nat /\ u.fs.last_clst \in Nat
        BY <2>1 DEF Ready, Sound, Shape, IsFatFs
      <4>3. x \in [kind : {"fsinfo"}, free : Nat, last : Nat]
        BY <4>2 DEF x, Info
      <4> QED
        <5>1. /\ L.volbase \in Nat /\ fatbase(L) = L.volbase + 2
              /\ PlainStart(L) \in Nat /\ PlainStart(L) > L.volbase + 2
          BY Places, Sizes
        <5> HIDE DEF x
        <5> QED
          BY <4>1, <4>3, <5>1 DEF Fits, s
    <3>6. Mounted(L, w.fs) /\ Sound(L, F, w)
      <4>1. Mounted(L, w.fs)
        BY <2>1, <3>4 DEF Ready, Mounted
      <4> QED
        BY <2>1, <3>2, <3>3, <3>4, <3>5, <4>1, CleanWindow DEF Ready, s
    <3>7. LibFree(L, w) = LibFree(L, u) /\ Counted(L, w)
      <4>1. \A c \in ClusterSet : Lib(L, w, c) = Lib(L, u, c)
        <5>1. \A c \in ClusterSet : Lib(L, w, c) = Card(L, w, c)
          BY <3>4, <3>6, CleanLib
        <5>2. \A c \in ClusterSet : Lib(L, u, c) = Card(L, u, c)
          BY <2>1, CleanLib DEF Ready
        <5> QED
          BY <3>3, <5>1, <5>2 DEF Card
      <4>2. LibFree(L, w) = LibFree(L, u)
        BY <4>1 DEF LibFree
      <4> QED
        BY <2>1, <3>4, <4>2 DEF Counted, Free
    <3> DEFINE new == [w EXCEPT !.disk[s] = x]
    <3>8. /\ SomeSound(L, new) /\ Ready(L, LibFree(L, w), new) /\ Same(L, w, new)
          /\ new.fs = w.fs /\ new.fp = w.fp
      BY <3>4, <3>5, <3>6, <3>7, InfoSound DEF Ready, s
    <3>9. \/ y.v = new /\ y.res = "FR_OK"
          \/ y.v \in Faulty(w) \cup Faulty(new) /\ y.res = "FR_DISK_ERR"
          \/ y.v \in Cuts(w) \cup Cuts(new) /\ y.res = "cut"
      BY <3>1, <3>4 DEF disk_write, Return, Fails
    <3> HIDE DEF new
    <3>10. ASSUME y.res = "cut"
           PROVE  r = y /\ SomeSound(L, y.v) /\ Off(y.v)
      <4>1. r = y
        BY <3>1, <3>10
      <4>2. Sound(L, LibFree(L, w), new)
        BY <3>8 DEF Ready
      <4>3. y.v \in Cuts(w) \cup Cuts(new)
        BY <3>9, <3>10
      <4>4. SomeSound(L, y.v) /\ Off(y.v)
        BY <3>6, <4>2, <4>3, CutSound DEF SomeSound
      <4> QED
        BY <4>1, <4>4
    <3>11. ASSUME y.res # "cut"
           PROVE  /\ r.v = y.v /\ r.res = "FR_OK"
                  /\ SomeSound(L, y.v) /\ y.v.fp = w.fp /\ Mounted(L, y.v.fs)
                  /\ Counted(L, y.v) /\ LibFree(L, y.v) = LibFree(L, w)
      <4>1. r.v = y.v /\ r.res = "FR_OK"
        BY <3>1, <3>11, Returned
      <4>2. Sound(L, LibFree(L, w), new) /\ Same(L, w, w)
        BY <3>8 DEF Ready, Same, SameRest
      <4>3. /\ \A z \in Faulty(w) : Sound(L, F, z) /\ Same(L, w, z)
            /\ \A z \in Faulty(new) : Sound(L, LibFree(L, w), z) /\ Same(L, new, z)
        BY <3>6, <4>2, FaultySound
      <4>4. y.v = new \/ y.v \in Faulty(w) \cup Faulty(new)
        BY <3>9, <3>11
      <4>5. SomeSound(L, y.v) /\ Same(L, w, y.v)
        BY <3>8, <4>3, <4>4, SameTrans DEF SomeSound
      <4>6. LibFree(L, y.v) = LibFree(L, w)
        BY <4>5 DEF Same, LibFree
      <4> QED
        BY <3>6, <3>7, <4>1, <4>5, <4>6, SameMounted, SameCounted DEF Same, SameRest
    <3> QED
      BY <2>1, <3>3, <3>7, <3>10, <3>11 DEF Settled
  <2> QED
    BY <2>2, <2>3
<1> QED
  BY <1>3, <1>4

--------------------------------------------------------------------------------
\* f_mkdir.
LEMMA NewDirectoryKeeps ==
  ASSUME NEW L \in Geometries, NEW F, NEW v, NEW c, Ready(L, F, v), Counted(L, v),
         c \in ClusterSet, ~v.fp.open
  PROVE  \A r \in NewDirectory(v, c) : Registered(L, F, v, "LOGS", r)
<1> TAKE r \in NewDirectory(v, c)
<1>1. PICK q \in dir_clear(v, c) :
        r \in IF q.res = "FR_OK" THEN dir_register(DotEntries(q.v, c, 0), 0, "LOGS") ELSE {q}
  BY DEF NewDirectory, Then
<1>2. Cleared(L, F, v, q)
  BY <1>1, DirClear
<1>3. CASE q.res # "FR_OK"
  BY <1>1, <1>2, <1>3, QuietKeeps DEF Cleared, Registered
<1>5. ~q.v.fp.open \/ q.res = "cut"
  BY <1>2 DEF Cleared, Quiet, Same, SameRest
<1>4. CASE q.res = "FR_OK"
  <2> DEFINE w == DotEntries(q.v, c, 0)
  <2>1. Ready(L, F, q.v) /\ Counted(L, q.v) /\ q.v.fs.winsect \in PlainSectors(L)
    BY <1>2, <1>4, QuietCounted DEF Cleared
  <2>2. Ready(L, F, w) /\ Same(L, q.v, w)
    <3>1. c \in Nat /\ 0 \in Nat
      BY FatSects
    <3> QED
      BY <1>4, <1>5, <2>1, <3>1, DotsSound
  <2>3. r \in dir_register(w, 0, "LOGS")
    BY <1>1, <1>4
  <2> HIDE DEF w
  <2>6. ~w.fp.open
    BY <1>4, <1>5, <2>2 DEF Same, SameRest
  <2>4. Registered(L, F, w, "LOGS", r)
    BY <2>1, <2>2, <2>3, <2>6, SameCounted, DirRegister
  <2>5. Keeps(L, F, v, r)
    <3>1. r.res # "cut" => r.v.fp = v.fp
      BY <1>2, <1>4, <2>2, <2>4, QuietReady
         DEF Cleared, Registered, Keeps, Settles, Same, SameRest
    <3>2. \A o : Orphan(L, v, o) => Orphan(L, w, o)
      BY <1>2, <1>4, <2>2, SameOrphans DEF Cleared, Quiet
    <3> QED
      BY <2>1, <2>2, <2>4, <3>1, <3>2, SameCounted DEF Registered, Keeps, Settles
  <2> QED
    BY <2>4, <2>5 DEF Registered
<1> QED
  BY <1>3, <1>4

\* f_mkdir from the new chain on, which is in one entry or none.
LEMMA MakeDirectorySettles ==
  ASSUME NEW L \in Geometries, NEW F, NEW v, Ready(L, F, v), Counted(L, v),
         ~v.fp.open
  PROVE  \A r \in MakeDirectory(v) : Settled(L, v, r)
<1> TAKE r \in MakeDirectory(v)
<1> DEFINE e(c) == [name |-> "LOGS", clst |-> c, size |-> 0, dir |-> TRUE]
           Undo(z, c) == UNION {IF y.res = "cut" THEN {y} ELSE Fails(y.v, z.res)
                                : y \in remove_chain(z.v, c)}
           New(u, c) == UNION {IF z.res \in {"FR_OK", "cut"} THEN {z} ELSE Undo(z, c)
                               : z \in NewDirectory(u, c)}
           After(u, c) == UNION {IF x.res = "FR_OK" THEN sync_fs(PutEntry(x.v, x.val, e(c)))
                                 ELSE {x} : x \in New(u, c)}
<1>1. PICK q \in create_chain(v, 0) :
        r \in IF q.res = "FR_OK"
              THEN IF q.val = 0 THEN Fails(q.v, "FR_DENIED") ELSE After(q.v, q.val)
              ELSE {q}
  BY DEF MakeDirectory, Then, OnFailure, Regardless
<1>2. \A u, c, y : y \in After(u, c) =>
        \E x \in New(u, c) :
          y \in IF x.res = "FR_OK" THEN sync_fs(PutEntry(x.v, x.val, e(c))) ELSE {x}
  OBVIOUS
<1> HIDE DEF After
<1>3. \A u, c, x : x \in New(u, c) =>
        \E z \in NewDirectory(u, c) :
          x \in IF z.res \in {"FR_OK", "cut"} THEN {z} ELSE Undo(z, c)
  OBVIOUS
<1> HIDE DEF New
<1>4. \A z, c, x : x \in Undo(z, c) =>
        \E y \in remove_chain(z.v, c) :
          x \in IF y.res = "cut" THEN {y} ELSE Fails(y.v, z.res)
  OBVIOUS
<1> HIDE DEF Undo
<1>5. Created(L, F, v, 0, F, q)
  BY <1>1, CreateChain
<1>6. Keeps(L, F, v, q) /\ q.res # "again"
  BY <1>5 DEF Created
<1>7. CASE q.res # "FR_OK"
  BY <1>1, <1>6, <1>7, KeepsSettled DEF Keeps
<1>8. CASE q.res = "FR_OK" /\ q.val = 0
  <2>1. r.v = q.v /\ r.res = "FR_DENIED"
    BY <1>1, <1>8, Returned
  <2> QED
    BY <1>6, <1>8, <2>1, PassedOn, KeepsSettled DEF Keeps
<1>9. CASE q.res = "FR_OK" /\ q.val # 0
  <2> DEFINE u == q.v
             c == q.val
  <2>1. /\ Ready(L, F, u) /\ Counted(L, u) /\ c \in F /\ c \in ClusterSet /\ u.fp = v.fp
        /\ c \in Nat /\ Orphan(L, u, c)
    <3>1. Ready(L, F, u) /\ Counted(L, u) /\ u.fp = v.fp
      BY <1>6, <1>9, KeepsReady DEF Keeps, Settles
    <3>2. c \in F /\ Orphan(L, u, c)
      BY <1>5, <1>9 DEF Created
    <3> QED
      BY <3>1, <3>2, FatSects DEF Ready, Sound, Covered
  <2>2. r \in After(u, c)
    BY <1>1, <1>9
  <2> HIDE DEF u, c
  <2>3. PICK x \in New(u, c) :
          r \in IF x.res = "FR_OK" THEN sync_fs(PutEntry(x.v, x.val, e(c))) ELSE {x}
    BY <1>2, <2>2
  <2>4. /\ Settles(L, F, u, x) /\ x.res # "again"
        /\ x.res = "FR_OK" => Registered(L, F, u, "LOGS", x)
    <3>1. PICK z \in NewDirectory(u, c) :
            x \in IF z.res \in {"FR_OK", "cut"} THEN {z} ELSE Undo(z, c)
      BY <1>3, <2>3
    <3>2. Registered(L, F, u, "LOGS", z)
      BY <2>1, <3>1, NewDirectoryKeeps
    <3>3. CASE z.res \in {"FR_OK", "cut"}
      BY <3>1, <3>2, <3>3 DEF Registered, Keeps
    <3>4. CASE z.res \notin {"FR_OK", "cut"}
      <4>1. PICK y \in remove_chain(z.v, c) :
              x \in IF y.res = "cut" THEN {y} ELSE Fails(y.v, z.res)
        BY <1>4, <3>1, <3>4
      <4>2. Keeps(L, F, u, z) /\ Ready(L, F, z.v)
        BY <3>2, <3>4, KeepsReady DEF Registered
      <4>7. Orphan(L, z.v, c)
        BY <2>1, <3>4, <4>2 DEF Keeps
      <4>3. Settles(L, F, z.v, y) /\ y.res # "again"
        BY <2>1, <4>1, <4>2, <4>7, RemoveChain
      <4>4. Settles(L, F, u, y)
        BY <3>4, <4>2, <4>3, SettlesTrans DEF Keeps
      <4>5. CASE y.res = "cut"
        BY <4>1, <4>3, <4>4, <4>5
      <4>6. CASE y.res # "cut"
        <5>1. x.v = y.v /\ x.res = z.res
          BY <4>1, <4>6, Returned
        <5>2. Settles(L, F, u, x)
          BY <3>4, <4>4, <4>6, <5>1, PassedOn
        <5> QED
          BY <3>2, <3>4, <5>1, <5>2 DEF Registered
      <4> QED
        BY <4>5, <4>6
    <3> QED
      BY <3>3, <3>4
  <2>5. CASE x.res # "FR_OK"
    <3>1. r = x /\ Settles(L, F, u, x) /\ x.res # "again"
      BY <2>3, <2>4, <2>5
    <3>2. Settled(L, u, r)
      BY <2>1, <3>1, KeepsSettled
    <3> QED
      BY <2>1, <3>2 DEF Settled
  <2>6. CASE x.res = "FR_OK"
    <3>1. /\ Ready(L, F, x.v) /\ Counted(L, x.v) /\ x.v.fp = v.fp
          /\ x.v.fs.winsect \in PlainSectors(L) /\ x.val.dptr \in Nat
      BY <2>1, <2>4, <2>6, SettlesReady DEF Registered, Settles
    <3>6. Orphan(L, x.v, c)
      BY <2>1, <2>4, <2>6 DEF Registered, Keeps
    <3>2. IsEntry(e(c))
      BY <2>1, Entries, Zenon
    <3> DEFINE w == PutEntry(x.v, x.val, e(c))
    <3>3. r \in sync_fs(w)
      BY <2>3, <2>6
    <3>7. e(c).clst = c
      OBVIOUS
    <3> HIDE DEF e
    <3>8. MayHold(L, x.v, x.val.dptr % DirEntries, e(c))
      BY <3>1, <3>6, <3>7 DEF MayHold
    <3>4. Ready(L, F, w) /\ SameFat(L, x.v, w)
      BY <3>1, <3>2, <3>8, EntrySectors
    <3> HIDE DEF w
    <3>5. Settled(L, w, r)
      BY <3>1, <3>3, <3>4, SameFatCounted, SyncFs
    <3> QED
      BY <3>1, <3>4, <3>5 DEF Settled, SameFat, SameRest
  <2> QED
    BY <2>5, <2>6
<1> QED
  BY <1>7, <1>8, <1>9

\* f_mkdir keeps the volume sound, mounted and counted.
LEMMA FMkdir ==
  ASSUME NEW L \in Geometries, NEW F, NEW v, Ready(L, F, v), Counted(L, v),
         ~v.fp.open
  PROVE  \A r \in f_mkdir(v) : Settled(L, v, r)
<1> TAKE r \in f_mkdir(v)
<1> DEFINE After(u) == UNION {CASE x.res = "FR_OK" -> Fails(x.v, "FR_EXIST")
                                [] x.res = "FR_NO_FILE" -> MakeDirectory(x.v)
                                [] OTHER -> {x} : x \in dir_find(u, 0, "LOGS")}
<1>1. PICK q \in mount_volume(v) : r \in IF q.res = "FR_OK" THEN After(q.v) ELSE {q}
  BY DEF f_mkdir, Then
<1>2. Sound(L, F, v) /\ Mounted(L, v.fs) /\ q.res \notin {"cut", "again"} /\ q.v = v
  BY <1>1, MountVolume DEF Ready, Mounts
<1>3. CASE q.res # "FR_OK"
  <2>1. r.v = v /\ r.res \notin {"cut", "again"}
    BY <1>1, <1>2, <1>3
  <2> QED
    BY <2>1, AtOnce, KeepsSettled DEF Keeps
<1>4. CASE q.res = "FR_OK"
  <2>1. PICK x \in dir_find(v, 0, "LOGS") :
          r \in CASE x.res = "FR_OK" -> Fails(x.v, "FR_EXIST")
                  [] x.res = "FR_NO_FILE" -> MakeDirectory(x.v)
                  [] OTHER -> {x}
    BY <1>1, <1>2, <1>4
  <2>2. Found(L, F, v, "LOGS", x)
    BY <2>1, DirFind
  <2>3. Keeps(L, F, v, x) /\ x.res # "again"
    BY <2>2, QuietKeeps DEF Found
  <2>4. CASE x.res = "FR_OK"
    <3>1. r.v = x.v /\ r.res = "FR_EXIST"
      BY <2>1, <2>4, Returned
    <3> QED
      BY <2>3, <2>4, <3>1, PassedOn, KeepsSettled DEF Keeps
  <2>5. CASE x.res = "FR_NO_FILE"
    <3>1. Ready(L, F, x.v) /\ Counted(L, x.v) /\ x.v.fp = v.fp
      BY <2>3, <2>5, KeepsReady DEF Keeps, Settles
    <3>2. Settled(L, x.v, r)
      BY <2>1, <2>5, <3>1, MakeDirectorySettles
    <3> QED
      BY <3>1, <3>2 DEF Settled
  <2>6. CASE x.res \notin {"FR_OK", "FR_NO_FILE"}
    BY <2>1, <2>3, <2>6, KeepsSettled DEF Keeps
  <2> QED
    BY <2>4, <2>5, <2>6
<1> QED
  BY <1>3, <1>4

--------------------------------------------------------------------------------
\* The FIL object: the next cell goes behind the last; a file that is not empty has
\* clusters; a sector that is in use, and the one of the entry, is behind the FATs.
IsFile(p) ==
  p \in [open : BOOLEAN, sclust : Nat, clust : Nat, fptr : Nat, objsize : Nat,
         sect : {p.sect}, buf : {p.buf}, dirty : BOOLEAN, modified : BOOLEAN,
         err : {p.err}, dir_sect : {p.dir_sect}, dir_ptr : Nat]

FpFits(L, p) ==
  /\ IsFile(p) /\ p.objsize = p.fptr /\ p.err \notin {"cut", "again"}
  /\ p.fptr > 0 => p.sclust # 0 /\ p.clust # 0
  /\ p.dirty => p.sect \in PlainSectors(L)
  /\ p.fptr % SS # 0 => p.sect \in PlainSectors(L)
  /\ p.open => p.dir_sect \in PlainSectors(L)

\* A file that has been found.
Fresh(L, p) ==
  /\ IsFile(p) /\ p.open /\ p.fptr = 0 /\ p.clust = 0 /\ ~p.dirty /\ p.err = "FR_OK"
  /\ p.objsize > 0 => p.sclust # 0
  /\ p.dir_sect \in PlainSectors(L)

WithFp(v, p) == [v EXCEPT !.fp = p]

\* The file stays the one it is; or it is no file, or the first cluster is added to it.
SameOwner(p, q) ==
  /\ q.sclust = p.sclust /\ q.dir_sect = p.dir_sect /\ q.dir_ptr = p.dir_ptr
  /\ q.open => p.open
MayOpen(L, v, p) ==
  \/ p.sclust = 0 /\ ~p.open
  \/ SameOwner(v.fp, p)
  \/ SameOwner(v.fp, [p EXCEPT !.sclust = v.fp.sclust]) /\ Orphan(L, v, p.sclust)

\* A FIL object whose chain is its own keeps the links.
LEMMA OpenLinked ==
  ASSUME NEW L, NEW v, NEW w, Linked(L, v), w.disk = v.disk, w.fs = v.fs,
         OwnFile(L, LibFat(L, v), Held(L, v), w.fp), NameKept(L, w)
  PROVE  Linked(L, w)
<1>1. /\ LibFat(L, w) = LibFat(L, v) /\ CardFat(L, w) = CardFat(L, v)
      /\ Held(L, w) = Held(L, v)
  BY DEF LibFat, CardFat, Lib, Card, Held, HeldIn, Versions
<1> QED
  BY <1>1 DEF Linked, Faithful

\* A FIL object of the file that was open keeps the links.
LEMMA MayOpenLinked ==
  ASSUME NEW L, NEW v, NEW w, Linked(L, v), w.disk = v.disk, w.fs = v.fs, IsFile(w.fp),
         MayOpen(L, v, w.fp)
  PROVE  Linked(L, w)
<1> DEFINE p == w.fp
           q == [p EXCEPT !.sclust = v.fp.sclust]
<1>1. CASE p.sclust = 0 /\ ~p.open
  BY <1>1, OpenLinked DEF OwnFile, NameKept
<1>2. q.dir_sect = p.dir_sect /\ q.dir_ptr = p.dir_ptr /\ q.open = p.open
  BY DEF IsFile
<1>3. ASSUME p.dir_sect = v.fp.dir_sect, p.dir_ptr = v.fp.dir_ptr, p.open => v.fp.open
      PROVE  NameKept(L, w)
  BY <1>3 DEF Linked, NameKept, LibName, CardName
<1>4. CASE SameOwner(v.fp, p)
  <2>1. OwnFile(L, LibFat(L, v), Held(L, v), p)
    BY <1>4 DEF Linked, OwnFile, SameOwner
  <2> QED
    BY <1>3, <1>4, <2>1, OpenLinked DEF SameOwner
<1> HIDE DEF q
<1>5. CASE SameOwner(v.fp, q) /\ Orphan(L, v, p.sclust)
  <2>1. OwnFile(L, LibFat(L, v), Held(L, v), p)
    BY <1>5 DEF OwnFile, Orphan
  <2> QED
    BY <1>2, <1>3, <1>5, <2>1, OpenLinked DEF SameOwner
<1> QED
  BY <1>1, <1>4, <1>5 DEF MayOpen, q

\* A FIL object changed keeps the volume sound if it keeps the links.
LEMMA FileSound ==
  ASSUME NEW L \in Geometries, NEW F, NEW v, NEW w, Ready(L, F, v), IsVolume(w),
         w.disk = v.disk, w.fs = v.fs, Linked(L, w)
  PROVE  /\ Ready(L, F, w) /\ LibFree(L, w) = LibFree(L, v)
         /\ Counted(L, v) => Counted(L, w)
<1>1. \A c \in ClusterSet : Lib(L, w, c) = Lib(L, v, c) /\ Card(L, w, c) = Card(L, v, c)
  BY DEF Lib, Card
<1>2. LibFree(L, w) = LibFree(L, v)
  BY <1>1 DEF LibFree
<1>3. Sound(L, F, w)
  BY <1>1, CoveredFrom DEF Ready, Sound, Shape, Contents, InfoFree
<1> QED
  BY <1>2, <1>3 DEF Ready, Counted, Free

\* A FIL object of the file that was open keeps the volume sound.
LEMMA FpSound ==
  ASSUME NEW L \in Geometries, NEW F, NEW v, NEW p, Ready(L, F, v), IsFile(p),
         MayOpen(L, v, p)
  PROVE  /\ Ready(L, F, WithFp(v, p)) /\ LibFree(L, WithFp(v, p)) = LibFree(L, v)
         /\ Counted(L, v) => Counted(L, WithFp(v, p))
         /\ WithFp(v, p).fp = p /\ WithFp(v, p).fs = v.fs /\ WithFp(v, p).disk = v.disk
<1>1. /\ IsVolume(WithFp(v, p)) /\ WithFp(v, p).fp = p /\ WithFp(v, p).fs = v.fs
      /\ WithFp(v, p).disk = v.disk
  BY DEF Ready, Sound, Shape, IsVolume, WithFp
<1>2. Linked(L, WithFp(v, p))
  BY <1>1, MayOpenLinked DEF Ready, Sound
<1> QED
  BY <1>1, <1>2, FileSound

\* The results of a call that changes the FIL object.
Handles(L, F, v, r) ==
  /\ Sound(L, F, r.v) /\ r.res # "again"
  /\ IF r.res = "cut" THEN Off(r.v) ELSE Mounted(L, r.v.fs) /\ Counted(L, r.v)

\* An operation that keeps chains and counts handles its file.
LEMMA KeepsHandles ==
  ASSUME NEW L, NEW F, NEW v, NEW r, Counted(L, v), Keeps(L, F, v, r), r.res # "again"
  PROVE  Handles(L, F, v, r)
BY DEF Keeps, Settles, Handles

\* f_open takes the FIL object from the entry that the window has.
LEMMA FromEntryFresh ==
  ASSUME NEW L \in Geometries, NEW F, NEW v, NEW dp, NEW modified \in BOOLEAN,
         Ready(L, F, v), v.fs.winsect \in PlainSectors(L), dp.dptr \in Nat,
         EntryAt(v, dp).name = L.name
  PROVE  LET w == FromEntry(v, dp, modified)
         IN  /\ Ready(L, F, w) /\ (Counted(L, v) => Counted(L, w))
             /\ Fresh(L, w.fp)
<1> DEFINE e == EntryAt(v, dp)
           p == [Closed EXCEPT !.open = TRUE, !.sclust = e.clst, !.objsize = e.size,
                               !.modified = modified, !.dir_sect = v.fs.winsect,
                               !.dir_ptr = dp.dptr % DirEntries]
<1>1. FromEntry(v, dp, modified) = WithFp(v, p)
  BY DEF FromEntry, WithFp
<1>2. IsEntry(e)
  <2>1. IsEntry(FreeEntry)
    BY Tables
  <2> QED
    BY <2>1, EntrySectors
<1> DEFINE ptr == dp.dptr % DirEntries
           clst == e.clst
           size == e.size
           dir_sect == v.fs.winsect
<1>3. /\ ptr \in Nat /\ clst \in Nat /\ size \in Nat /\ (size > 0 => clst # 0)
      /\ dir_sect \in PlainSectors(L)
  <2>1. ptr \in Nat
    BY Constants, Division
  <2> QED
    BY <1>2, <2>1 DEF IsEntry
<1>7. /\ ptr \in Slots /\ e = AsDir(v.fs.win)[ptr] /\ e.name = L.name
      /\ clst = e.clst /\ dir_sect = v.fs.winsect
  BY Constants, Division DEF Slots, EntryAt
<1>4. p = [Closed EXCEPT !.open = TRUE, !.sclust = clst, !.objsize = size,
                         !.modified = modified, !.dir_sect = dir_sect, !.dir_ptr = ptr]
  OBVIOUS
<1> HIDE DEF p, ptr, clst, size, dir_sect, e
<1>6. p.sclust = clst /\ p.open = TRUE /\ p.dir_sect = dir_sect /\ p.dir_ptr = ptr
  BY <1>4 DEF Closed
<1>8. OwnFile(L, LibFat(L, v), Held(L, v), p)
  <2>1. SUFFICES ASSUME clst # 0
                 PROVE  OwnFile(L, LibFat(L, v), Held(L, v), p)
    BY <1>6 DEF OwnFile
  <2> DEFINE h == [sect |-> dir_sect, slot |-> ptr, e |-> e]
  <2>2. Live(e)
    BY <1>7, <2>1 DEF Live, Geometries
  <2>3. v.fs.win \in Versions(v, dir_sect)
    BY <1>7 DEF Versions
  <2>4. h \in Held(L, v)
    BY <1>3, <1>7, <2>2, <2>3, HeldIs
  <2>5. h.sect = dir_sect /\ h.slot = ptr /\ h.e = e
    OBVIOUS
  <2> HIDE DEF h
  <2>6. HeadsIn(L, LibFat(L, v), Held(L, v)) /\ Apart(L, Held(L, v))
    BY DEF Ready, Sound, Linked, Owned
  <2> QED
    BY <1>6, <1>7, <2>4, <2>5, <2>6 DEF HeadsIn, Apart, OwnFile
<1> DEFINE w == WithFp(v, p)
<1>9. /\ IsVolume(w) /\ w.fp = p /\ w.fs = v.fs /\ w.disk = v.disk
  BY DEF Ready, Sound, Shape, IsVolume, WithFp
<1> HIDE DEF w
<1>10. NameKept(L, w)
  <2>1. LibName(w) = L.name
    BY <1>6, <1>7, <1>9 DEF LibName
  <2>2. ASSUME ~v.fs.wflag
        PROVE  CardName(w) \in {L.name, "junk"}
    <3>1. CardName(w) = AsDir(v.disk[v.fs.winsect])[ptr].name
      BY <1>6, <1>7, <1>9 DEF CardName
    <3>2. CASE v.fs.win = v.disk[v.fs.winsect]
      BY <1>7, <3>1, <3>2
    <3>3. CASE v.disk[v.fs.winsect].kind # "dir"
      <4>1. CardName(w) = "junk"
        BY <1>7, <3>1, <3>3 DEF AsDir, Slots, FreeEntry
      <4> QED
        BY <4>1
    <3>4. CASE v.fs.win = ZeroDir
      <4>1. e.name = "end"
        BY <1>7, <3>4 DEF AsDir, ZeroDir, Slots, FreeEntry
      <4> QED
        BY <1>7, <4>1 DEF Geometries
    <3> QED
      BY <2>2, <3>2, <3>3, <3>4 DEF Ready, Sound, Linked, Faithful
  <2> QED
    BY <1>3, <1>6, <1>7, <1>9, <2>1, <2>2 DEF NameKept, Names
<1>11. Linked(L, w)
  BY <1>8, <1>9, <1>10, OpenLinked DEF Ready, Sound
<1>12. Ready(L, F, w) /\ (Counted(L, v) => Counted(L, w))
  BY <1>9, <1>11, FileSound
<1>5. Fresh(L, p)
  <2>1. /\ p.open = TRUE /\ p.sclust = clst /\ p.objsize = size /\ p.modified = modified
        /\ p.dir_sect = dir_sect /\ p.dir_ptr = ptr /\ p.fptr = 0 /\ p.clust = 0
        /\ p.dirty = FALSE /\ p.err = "FR_OK"
    BY <1>4 DEF Closed
  <2>2. IsFile(p)
    BY <1>3, <1>4 DEF Closed, IsFile
  <2> QED
    BY <1>3, <2>1, <2>2 DEF Fresh
<1> QED
  BY <1>1, <1>5, <1>9, <1>12 DEF w

Begun(L, F, v, r) ==
  /\ Handles(L, F, v, r)
  /\ r.res = "FR_OK" => Fresh(L, r.v.fp)

\* f_open has the file of the entry it has found or made, or fails.
LEMMA FindOrCreateBegins ==
  ASSUME NEW L \in Geometries, NEW F, NEW v, NEW sclust, NEW name, Ready(L, F, v),
         Counted(L, v), sclust \in Nat, name = L.name, ~v.fp.open
  PROVE  \A r \in FindOrCreate(v, sclust, name) : Begun(L, F, v, r)
<1> TAKE r \in FindOrCreate(v, sclust, name)
<1> DEFINE Old(u, dp) == FromEntry(u, dp, FALSE)
           Made(u, dp) == FromEntry(u, dp, TRUE)
           New(u) == UNION {IF y.res = "FR_OK" THEN Return(Made(y.v, y.val), 0)
                            ELSE {y} : y \in dir_register(u, sclust, name)}
<1>1. PICK q \in dir_find(v, sclust, name) :
        r \in CASE q.res = "FR_OK" -> IF EntryAt(q.v, q.val).dir THEN Fails(q.v, "FR_DENIED")
                                      ELSE Return(Old(q.v, q.val), 0)
                [] q.res = "FR_NO_FILE" -> New(q.v)
                [] OTHER -> {q}
  BY DEF FindOrCreate, Then
<1>2. \A u, x : x \in New(u) =>
        \E y \in dir_register(u, sclust, name) :
          x \in IF y.res = "FR_OK" THEN Return(Made(y.v, y.val), 0) ELSE {y}
  OBVIOUS
<1> HIDE DEF New
<1>0. \A u, dp : Old(u, dp) = FromEntry(u, dp, FALSE) /\ Made(u, dp) = FromEntry(u, dp, TRUE)
  OBVIOUS
<1> HIDE DEF Old, Made
<1>3. Found(L, F, v, name, q)
  BY <1>1, DirFind
<1>4. Keeps(L, F, v, q) /\ q.res # "again"
  BY <1>3, QuietKeeps DEF Found
<1>5. CASE q.res \notin {"FR_OK", "FR_NO_FILE"}
  BY <1>1, <1>4, <1>5, KeepsHandles DEF Begun
<1>6. CASE q.res = "FR_OK"
  <2>1. \/ r.v = q.v /\ r.res = "FR_DENIED"
        \/ r.v = Old(q.v, q.val) /\ r.res = "FR_OK"
    BY <1>1, <1>6, Returned
  <2>2. /\ Ready(L, F, q.v) /\ Counted(L, q.v) /\ q.v.fs.winsect \in PlainSectors(L)
        /\ q.val.dptr \in Nat /\ EntryAt(q.v, q.val).name = L.name
    BY <1>3, <1>4, <1>6, KeepsReady DEF Found, Keeps, Settles
  <2>3. CASE r.v = q.v /\ r.res = "FR_DENIED"
    BY <2>2, <2>3 DEF Begun, Handles, Ready
  <2>4. CASE r.v = Old(q.v, q.val) /\ r.res = "FR_OK"
    <3>1. Ready(L, F, r.v) /\ Counted(L, r.v) /\ Fresh(L, r.v.fp)
      BY <1>0, <2>2, <2>4, FromEntryFresh
    <3> QED
      BY <2>4, <3>1 DEF Begun, Handles, Ready
  <2> QED
    BY <2>1, <2>3, <2>4
<1>7. CASE q.res = "FR_NO_FILE"
  <2>1. PICK y \in dir_register(q.v, sclust, name) :
          r \in IF y.res = "FR_OK" THEN Return(Made(y.v, y.val), 0) ELSE {y}
    BY <1>1, <1>2, <1>7
  <2>2. Ready(L, F, q.v) /\ Counted(L, q.v) /\ ~q.v.fp.open
    BY <1>4, <1>7, KeepsReady DEF Keeps, Settles
  <2>3. Registered(L, F, q.v, name, y)
    BY <2>1, <2>2, DirRegister
  <2>4. Handles(L, F, v, y)
    BY <2>2, <2>3 DEF Registered, Keeps, Settles, Handles
  <2>5. CASE y.res # "FR_OK"
    BY <2>1, <2>4, <2>5 DEF Begun
  <2>6. CASE y.res = "FR_OK"
    <3>1. r.v = Made(y.v, y.val) /\ r.res = "FR_OK"
      BY <2>1, <2>6, Returned
    <3>2. /\ Ready(L, F, y.v) /\ Counted(L, y.v) /\ y.v.fs.winsect \in PlainSectors(L)
          /\ y.val.dptr \in Nat /\ EntryAt(y.v, y.val).name = L.name
      BY <2>3, <2>4, <2>6 DEF Registered, Handles, Ready
    <3>3. Ready(L, F, r.v) /\ Counted(L, r.v) /\ Fresh(L, r.v.fp)
      BY <1>0, <3>1, <3>2, FromEntryFresh
    <3> QED
      BY <3>1, <3>3 DEF Begun, Handles, Ready
  <2> QED
    BY <2>5, <2>6
<1> QED
  BY <1>5, <1>6, <1>7

--------------------------------------------------------------------------------
\* f_open: to the end of the file.
LEMMA OneDivision ==
  ASSUME NEW n \in Nat \ {0}, NEW p \in Int, NEW q \in Int, NEW a \in 0 .. n - 1,
         NEW b \in 0 .. n - 1, n * p + a = n * q + b
  PROVE  a = b
<1> DEFINE e == p - q
<1>1. e \in Int /\ n * e = b - a
  BY Z3
<1> HIDE DEF e
<1>2. (e >= 1 => n * e >= n) /\ (e <= -1 => n * e <= -n)
  BY <1>1
<1>3. e = 0
  BY <1>1, <1>2
<1> QED
  BY <1>1, <1>3

\* A cluster less does not change what is left in the last sector.
LEMMA ClusterLess ==
  ASSUME NEW a \in Nat, a > bcs
  PROVE  a - bcs \in Nat /\ (a - bcs) % SS = a % SS
<1>1. bcs \in Nat /\ bcs = SS * csize /\ SS \in Nat \ {0} /\ csize \in Nat
  BY Constants DEF bcs
<1> DEFINE q == a \div SS
           m == a % SS
           d == a - bcs
           p == d \div SS
           k == d % SS
<1>2. d \in Nat
  BY <1>1
<1>3. q \in Nat /\ m \in 0 .. SS - 1 /\ a = SS * q + m
  BY <1>1, Division
<1> HIDE DEF d
<1>4. p \in Nat /\ k \in 0 .. SS - 1 /\ d = SS * p + k
  BY <1>1, <1>2, Division
<1>5. d = a - SS * csize
  BY <1>1 DEF d
<1> HIDE DEF q, m, p, k
<1>6. SS * (q - csize) = SS * q - SS * csize /\ q - csize \in Int
  BY <1>1, <1>3
<1>7. SS * p + k = SS * (q - csize) + m
  BY <1>1, <1>2, <1>3, <1>4, <1>5, <1>6
<1>8. k = m
  BY <1>1, <1>3, <1>4, <1>6, <1>7, OneDivision
<1> QED
  BY <1>2, <1>8 DEF k, m, d

\* In the last cluster.
LEMMA LastCluster ==
  ASSUME NEW a \in Nat, a <= bcs, a % SS # 0
  PROVE  a \div SS \in 0 .. csize - 1
<1>1. bcs = SS * csize /\ SS \in Nat \ {0} /\ csize \in Nat
  BY Constants DEF bcs
<1> DEFINE q == a \div SS
           m == a % SS
<1>2. q \in Nat /\ m \in 0 .. SS - 1 /\ a = SS * q + m /\ m # 0
  BY <1>1, Division
<1> HIDE DEF q, m
<1>3. q >= csize => SS * csize <= SS * q
  BY <1>1, <1>2, Monotone
<1>4. q < csize
  BY <1>1, <1>2, <1>3
<1> QED
  BY <1>1, <1>2, <1>4 DEF q

FollowStep(p, n, S) ==
  UNION {IF r.res = "again" THEN FollowOne(r.v, r.val) ELSE {r} : r \in S}
Followed(L, F, v, size, r) ==
  /\ Quiet(L, F, v, r)
  /\ r.res \in {"again", "FR_OK"} =>
       r.val.clst \in Nat \ {0} /\ r.val.ofs \in Nat /\ r.val.ofs % SS = size % SS
  /\ r.res = "FR_OK" => r.val.ofs <= bcs
FollowGood(p, q, n, S) == \A r \in S : Followed(q.L, q.F, q.v, q.size, r)
FollowChain == INSTANCE Induction WITH Step <- FollowStep, Good <- FollowGood

\* A round of the way to the last cluster.
LEMMA FollowOneFollows ==
  ASSUME NEW L \in Geometries, NEW F, NEW v, NEW size, NEW x, Ready(L, F, v),
         Followed(L, F, v, size, x), x.res = "again"
  PROVE  \A r \in FollowOne(x.v, x.val) : Followed(L, F, v, size, r)
<1> TAKE r \in FollowOne(x.v, x.val)
<1> DEFINE at == x.val
           Go(u, nxt) == Again(u, [clst |-> nxt, ofs |-> at.ofs - bcs])
<1>1. /\ Quiet(L, F, v, x) /\ at.clst \in Nat \ {0} /\ at.ofs \in Nat
      /\ at.ofs % SS = size % SS
  BY DEF Followed
<1>2. CASE at.ofs <= bcs
  <2>1. r.v = x.v /\ r.res = "FR_OK" /\ r.val = at
    BY <1>2, Returned DEF FollowOne
  <2> QED
    BY <1>1, <1>2, <2>1, PassedOn DEF Followed
<1>3. CASE ~(at.ofs <= bcs)
  <2>1. PICK q \in get_fat(x.v, at.clst) :
          r \in IF q.res = "FR_OK"
                THEN IF q.val <= 1 THEN Fails(q.v, "FR_INT_ERR") ELSE Go(q.v, q.val)
                ELSE {q}
    BY <1>3 DEF FollowOne, Then
  <2>2. Ready(L, F, x.v) /\ x.res # "cut"
    BY <1>1, QuietReady
  <2>3. GotFat(L, F, x.v, at.clst, q)
    BY <1>1, <2>1, <2>2, GetFat
  <2>4. Quiet(L, F, v, q) /\ q.res # "again" /\ (q.res = "FR_OK" => q.val \in Nat)
    BY <1>1, <2>2, <2>3, QuietTrans DEF GotFat
  <2>5. CASE q.res # "FR_OK"
    BY <2>1, <2>4, <2>5 DEF Followed
  <2>6. CASE q.res = "FR_OK" /\ q.val <= 1
    <3>1. r.v = q.v /\ r.res = "FR_INT_ERR"
      BY <2>1, <2>6, Returned
    <3> QED
      BY <2>4, <2>6, <3>1, PassedOn DEF Followed
  <2>7. CASE q.res = "FR_OK" /\ ~(q.val <= 1)
    <3>1. r \in Go(q.v, q.val)
      BY <2>1, <2>7
    <3>2. r.v = q.v /\ r.res = "again" /\ r.val.clst = q.val /\ r.val.ofs = at.ofs - bcs
      BY <3>1, Returned
    <3>3. r.val.clst \in Nat \ {0}
      BY <2>4, <2>7, <3>2
    <3>4. r.val.ofs \in Nat /\ r.val.ofs % SS = size % SS
      <4> HIDE DEF at
      <4>1. at.ofs > bcs
        BY <1>1, <1>3, Constants DEF bcs
      <4> QED
        BY <1>1, <3>2, <4>1, ClusterLess
    <3>5. Quiet(L, F, v, r)
      BY <2>4, <2>7, <3>2, PassedOn
    <3> QED
      BY <3>2, <3>3, <3>4, <3>5 DEF Followed
  <2> QED
    BY <2>5, <2>6, <2>7
<1> QED
  BY <1>2, <1>3

\* f_open finds a cluster, and what is left of the size in it.
LEMMA FollowFinds ==
  ASSUME NEW L \in Geometries, NEW F, NEW v, NEW c \in Nat \ {0}, NEW size \in Nat,
         Ready(L, F, v)
  PROVE  \A r \in Follow(v, c, size) : Followed(L, F, v, size, r) /\ r.res # "again"
<1> TAKE r \in Follow(v, c, size)
<1> DEFINE base == Again(v, [clst |-> c, ofs |-> size])
           q == [L |-> L, F |-> F, v |-> v, size |-> size]
<1>1. r \in {y \in FollowChain!Recursive(0, base, size)[size] : y.res # "again"}
  BY DEF Follow, Loop, FollowChain!Recursive, FollowStep
<1>2. FollowGood(0, q, 0, base)
  <2>1. \A x \in base : x.v = v /\ x.res = "again" /\ x.val.clst = c /\ x.val.ofs = size
    BY Returned
  <2> HIDE DEF base
  <2>2. \A x \in base : Followed(L, F, v, size, x)
    BY <2>1, AtOnce DEF Followed
  <2> QED
    BY <2>2 DEF FollowGood
<1>3. ASSUME NEW n \in 1 .. size, NEW S, FollowGood(0, q, n - 1, S)
      PROVE  FollowGood(0, q, n, FollowStep(0, n, S))
  <2>1. ASSUME NEW y \in FollowStep(0, n, S)
        PROVE  Followed(L, F, v, size, y)
    <3>1. PICK x \in S : y \in IF x.res = "again" THEN FollowOne(x.v, x.val) ELSE {x}
      BY <2>1 DEF FollowStep
    <3>2. Followed(L, F, v, size, x)
      BY <1>3 DEF FollowGood
    <3>3. CASE x.res = "again"
      BY <3>1, <3>2, <3>3, FollowOneFollows
    <3> QED
      BY <3>1, <3>2, <3>3
  <2> QED
    BY <2>1 DEF FollowGood
<1>4. size \in 0 .. size
  OBVIOUS
<1> HIDE DEF base, q
<1>5. \A n \in 0 .. size : FollowGood(0, q, n, FollowChain!Recursive(0, base, size)[n])
  BY <1>2, <1>3, FollowChain!RecursionInduction
<1>6. Followed(L, F, v, size, r) /\ r.res # "again"
  BY <1>1, <1>4, <1>5 DEF FollowGood, q
<1> QED
  BY <1>6

Opened(L, F, v, r) ==
  /\ Handles(L, F, v, r)
  /\ r.res = "FR_OK" => FpFits(L, r.v.fp) /\ r.v.fp.open /\ r.v.fp.err = "FR_OK"

\* A FIL object at its end.
AtEnd(p, size, clst) == [p EXCEPT !.fptr = size, !.clust = clst]

EndFits(L, p, e) ==
  /\ e.open /\ e.err = "FR_OK" /\ (p.objsize % SS = 0 => FpFits(L, e))
  /\ IsFile(e) /\ SameOwner(p, e)
  /\ \A s \in PlainSectors(L) : \A buf :
       LET f == [e EXCEPT !.sect = s, !.buf = buf]
       IN  FpFits(L, f) /\ f.open /\ f.err = "FR_OK" /\ IsFile(f) /\ SameOwner(e, f)

\* A FIL object at the end of its file.
LEMMA AtEndFits ==
  ASSUME NEW L \in Geometries, NEW p, Fresh(L, p), p.objsize # 0, NEW clst \in Nat \ {0}
  PROVE  EndFits(L, p, AtEnd(p, p.objsize, clst))
<1> DEFINE size == p.objsize
           e == AtEnd(p, size, clst)
<1>1. /\ IsFile(p) /\ p.open /\ ~p.dirty /\ p.err = "FR_OK" /\ p.sclust # 0
      /\ p.dir_sect \in PlainSectors(L) /\ size \in Nat /\ size = p.objsize
  BY DEF Fresh, IsFile
<1> HIDE DEF size
<1>2. /\ IsFile(e) /\ e.open = p.open /\ e.dirty = p.dirty /\ e.err = p.err
      /\ e.sclust = p.sclust /\ e.clust = clst /\ e.fptr = size /\ e.objsize = size
      /\ e.dir_sect = p.dir_sect /\ e.dir_ptr = p.dir_ptr
  BY <1>1 DEF AtEnd, IsFile
<1> HIDE DEF e
<1>3. size % SS = 0 => FpFits(L, e)
  BY <1>1, <1>2 DEF FpFits
<1>4. ASSUME NEW s \in PlainSectors(L), NEW buf
      PROVE  LET f == [e EXCEPT !.sect = s, !.buf = buf]
             IN  FpFits(L, f) /\ f.open /\ f.err = "FR_OK" /\ IsFile(f) /\ SameOwner(e, f)
  <2> DEFINE f == [e EXCEPT !.sect = s, !.buf = buf]
  <2>1. /\ IsFile(f) /\ f.open = e.open /\ f.dirty = e.dirty /\ f.err = e.err
        /\ f.sclust = e.sclust /\ f.clust = e.clust /\ f.fptr = e.fptr
        /\ f.objsize = e.objsize /\ f.dir_sect = e.dir_sect /\ f.sect = s
        /\ f.dir_ptr = e.dir_ptr
    BY <1>2 DEF IsFile
  <2> HIDE DEF f
  <2>2. FpFits(L, f) /\ f.open /\ f.err = "FR_OK"
    BY <1>1, <1>2, <2>1 DEF FpFits
  <2> QED
    BY <2>1, <2>2 DEF f, SameOwner
<1>5. SameOwner(p, e)
  BY <1>2 DEF SameOwner
<1> QED
  BY <1>1, <1>2, <1>3, <1>4, <1>5 DEF EndFits, e, size

\* f_open reads the last sector if it is not full.
LEMMA ReadLastOpens ==
  ASSUME NEW L \in Geometries, NEW F, NEW v, NEW u, NEW at, NEW p, Ready(L, F, u),
         Counted(L, u), Fresh(L, p), p.objsize # 0, u.fp = p,
         at.clst \in Nat \ {0}, at.ofs \in Nat, at.ofs % SS = p.objsize % SS, at.ofs <= bcs
  PROVE  \A r \in ReadLastSector(WithFp(u, AtEnd(p, p.objsize, at.clst)), at.clst, at.ofs) :
           Opened(L, F, v, r)
<1> DEFINE e == AtEnd(p, p.objsize, at.clst)
           w == WithFp(u, e)
<1> SUFFICES ASSUME NEW r \in ReadLastSector(w, at.clst, at.ofs)
             PROVE  Opened(L, F, v, r)
  OBVIOUS
<1>2. EndFits(L, p, e)
  BY AtEndFits
<1> HIDE DEF e
<1>1. Ready(L, F, w) /\ Counted(L, w) /\ w.fp = e /\ w.fs = u.fs
  <2>1. IsFile(e) /\ MayOpen(L, u, e)
    BY <1>2 DEF EndFits, MayOpen
  <2> QED
    BY <2>1, FpSound
<1> HIDE DEF w, e
<1>3. CASE at.ofs % SS = 0
  <2>1. r.v = w /\ r.res = "FR_OK"
    BY <1>3, Returned DEF ReadLastSector
  <2> QED
    BY <1>1, <1>2, <1>3, <2>1 DEF Opened, Handles, Ready, EndFits
<1>4. CASE at.ofs % SS # 0 /\ ~IsCluster(at.clst)
  <2>1. r.v = w /\ r.res = "FR_INT_ERR"
    BY <1>4, Returned DEF ReadLastSector
  <2> QED
    BY <1>1, <2>1 DEF Opened, Handles, Ready
<1>5. CASE at.ofs % SS # 0 /\ IsCluster(at.clst)
  <2> DEFINE s == clst2sect(w.fs, at.clst) + at.ofs \div SS
  <2>1. PICK y \in disk_read(w, s) :
          r \in IF y.res = "FR_OK"
                THEN Return([y.v EXCEPT !.fp.sect = s, !.fp.buf = AsCells(y.val)], 0)
                ELSE {y}
    BY <1>5 DEF ReadLastSector, Then
  <2>2. s \in PlainSectors(L) /\ s \in Sectors(L)
    <3>1. at.ofs \div SS \in 0 .. csize - 1
      BY <1>5, LastCluster
    <3>2. at.clst \in ClusterSet
      BY <1>5, FatSects
    <3> QED
      BY <1>1, <3>1, <3>2, ClusterSectors, Regions DEF Ready
  <2> HIDE DEF s
  <2>3. /\ Quiet(L, F, w, y) /\ y.res \notin {"cut", "again"} /\ y.v.fp = w.fp
    BY <1>1, <2>1, <2>2, ReadQuiet DEF Ready
  <2>4. Ready(L, F, y.v) /\ Counted(L, y.v)
    BY <1>1, <2>3, QuietCounted
  <2>5. CASE y.res # "FR_OK"
    BY <2>1, <2>3, <2>4, <2>5 DEF Opened, Handles, Ready
  <2>6. CASE y.res = "FR_OK"
    <3> DEFINE f == [e EXCEPT !.sect = s, !.buf = AsCells(y.val)]
    <3>1. r.v = [y.v EXCEPT !.fp.sect = s, !.fp.buf = AsCells(y.val)] /\ r.res = "FR_OK"
      BY <2>1, <2>6, Returned
    <3>2. r.v = WithFp(y.v, f)
      BY <1>1, <2>3, <2>4, <3>1 DEF WithFp, Ready, Sound, Shape, IsVolume
    <3>3. FpFits(L, f) /\ f.open /\ f.err = "FR_OK" /\ IsFile(f) /\ SameOwner(e, f)
      BY <1>2, <2>2 DEF EndFits
    <3> HIDE DEF f
    <3>4. Ready(L, F, r.v) /\ Counted(L, r.v) /\ r.v.fp = f
      <4>1. MayOpen(L, y.v, f)
        BY <1>1, <2>3, <3>3 DEF MayOpen
      <4> QED
        BY <2>4, <3>2, <3>3, <4>1, FpSound
    <3> QED
      BY <3>1, <3>3, <3>4 DEF Opened, Handles, Ready
  <2> QED
    BY <2>5, <2>6
<1> QED
  BY <1>3, <1>4, <1>5

\* f_open with FA_OPEN_APPEND has an open file at its end, or fails.
LEMMA SeekToEndOpens ==
  ASSUME NEW L \in Geometries, NEW F, NEW v, Ready(L, F, v), Counted(L, v), Fresh(L, v.fp)
  PROVE  \A r \in SeekToEnd(v) : Opened(L, F, v, r)
<1> TAKE r \in SeekToEnd(v)
<1> DEFINE p == v.fp
           size == v.fp.objsize
           Read(u, at) == ReadLastSector([u EXCEPT !.fp.fptr = size, !.fp.clust = at.clst],
                                         at.clst, at.ofs)
<1>0. size \in Nat /\ p.sclust \in Nat /\ (size # 0 => p.sclust # 0)
  BY DEF Fresh, IsFile
<1>1. CASE size = 0
  <2>1. r.v = v /\ r.res = "FR_OK"
    BY <1>1, Returned DEF SeekToEnd
  <2>2. 0 % SS = 0
    BY Constants
  <2>3. FpFits(L, p) /\ p.open /\ p.err = "FR_OK"
    BY <1>1, <2>2 DEF Fresh, FpFits
  <2> QED
    BY <2>1, <2>3 DEF Opened, Handles, Ready
<1>2. CASE size # 0
  <2>1. PICK q \in Follow(v, p.sclust, size) :
          r \in IF q.res = "FR_OK" THEN Read(q.v, q.val) ELSE {q}
    BY <1>2 DEF SeekToEnd, Then
  <2>2. Followed(L, F, v, size, q) /\ q.res # "again"
    BY <1>0, <1>2, <2>1, FollowFinds
  <2>3. Quiet(L, F, v, q)
    BY <2>2 DEF Followed
  <2>4. CASE q.res # "FR_OK"
    <3>1. Handles(L, F, v, q)
      BY <2>2, <2>3, QuietKeeps, KeepsHandles
    <3> QED
      BY <2>1, <2>4, <3>1 DEF Opened
  <2>5. CASE q.res = "FR_OK"
    <3>1. Ready(L, F, q.v) /\ Counted(L, q.v) /\ q.v.fp = p
      BY <2>3, <2>5, QuietCounted, QuietReady DEF Same, SameRest
    <3>2. /\ q.val.clst \in Nat \ {0} /\ q.val.ofs \in Nat
          /\ q.val.ofs % SS = p.objsize % SS /\ q.val.ofs <= bcs
      BY <2>2, <2>5 DEF Followed
    <3>3. [q.v EXCEPT !.fp.fptr = size, !.fp.clust = q.val.clst] =
            WithFp(q.v, AtEnd(p, p.objsize, q.val.clst))
      BY <3>1 DEF WithFp, AtEnd, Ready, Sound, Shape, IsVolume
    <3>4. r \in ReadLastSector(WithFp(q.v, AtEnd(p, p.objsize, q.val.clst)), q.val.clst,
                               q.val.ofs)
      BY <2>1, <2>5, <3>3
    <3> HIDE DEF p
    <3>5. Fresh(L, p) /\ p.objsize # 0 /\ q.v.fp = p
      BY <1>2, <3>1 DEF p
    <3> QED
      BY <3>1, <3>2, <3>4, <3>5, ReadLastOpens
  <2> QED
    BY <2>4, <2>5
<1> QED
  BY <1>1, <1>2

\* f_open: a file that is not opened is closed.
LEMMA FOpen ==
  ASSUME NEW L \in Geometries, NEW F, NEW v, NEW name, Ready(L, F, v), Counted(L, v),
         name = L.name, ~v.fp.open
  PROVE  \A r \in f_open(v, name) : Opened(L, F, v, r)
<1> TAKE r \in f_open(v, name)
<1> DEFINE Close1(z) == UNION {IF y.res = "cut" THEN {y} ELSE Fails(y.v, z.res)
                               : y \in Return([z.v EXCEPT !.fp = Closed], 0)}
           Seek(w, sclust) == UNION {IF y.res = "FR_OK" THEN SeekToEnd(y.v) ELSE {y}
                                     : y \in FindOrCreate(w, sclust, name)}
           Path(u) == UNION {IF y.res = "FR_OK" THEN Seek(y.v, y.val) ELSE {y}
                             : y \in follow_path(u, name)}
           All == UNION {IF y.res = "FR_OK" THEN Path(y.v) ELSE {y} : y \in mount_volume(v)}
<1>1. PICK z \in All : r \in IF z.res \in {"FR_OK", "cut"} THEN {z} ELSE Close1(z)
  BY DEF f_open, OnFailure, Regardless, Then
<1>2. PICK m \in mount_volume(v) : z \in IF m.res = "FR_OK" THEN Path(m.v) ELSE {m}
  OBVIOUS
<1>3. \A u, x : x \in Path(u) =>
        \E y \in follow_path(u, name) : x \in IF y.res = "FR_OK" THEN Seek(y.v, y.val) ELSE {y}
  OBVIOUS
<1> HIDE DEF Path, All
<1>4. \A w, sclust, x : x \in Seek(w, sclust) =>
        \E y \in FindOrCreate(w, sclust, name) :
          x \in IF y.res = "FR_OK" THEN SeekToEnd(y.v) ELSE {y}
  OBVIOUS
<1> HIDE DEF Seek
<1>5. m.v = v /\ m.res \notin {"cut", "again"}
  BY <1>2, MountVolume DEF Ready, Mounts
<1>6. Opened(L, F, v, z)
  <2>1. CASE m.res # "FR_OK"
    BY <1>2, <1>5, <2>1 DEF Opened, Handles, Ready
  <2>2. CASE m.res = "FR_OK"
    <3>1. PICK q \in follow_path(v, name) :
            z \in IF q.res = "FR_OK" THEN Seek(q.v, q.val) ELSE {q}
      BY <1>2, <1>3, <1>5, <2>2
    <3>2. Quiet(L, F, v, q) /\ q.res # "again" /\ (q.res = "FR_OK" => q.val \in Nat)
      BY <3>1, FollowPath
    <3>3. CASE q.res # "FR_OK"
      <4>1. Handles(L, F, v, q)
        BY <3>2, QuietKeeps, KeepsHandles
      <4> QED
        BY <3>1, <3>3, <4>1 DEF Opened
    <3>4. CASE q.res = "FR_OK"
      <4>1. Ready(L, F, q.v) /\ Counted(L, q.v) /\ q.val \in Nat /\ ~q.v.fp.open
        BY <3>2, <3>4, QuietCounted, QuietReady DEF Same, SameRest
      <4>2. PICK y \in FindOrCreate(q.v, q.val, name) :
              z \in IF y.res = "FR_OK" THEN SeekToEnd(y.v) ELSE {y}
        BY <1>4, <3>1, <3>4
      <4>3. Begun(L, F, q.v, y)
        BY <4>1, <4>2, FindOrCreateBegins
      <4>4. CASE y.res # "FR_OK"
        BY <4>2, <4>3, <4>4 DEF Begun, Opened, Handles
      <4>5. CASE y.res = "FR_OK"
        <5>1. Ready(L, F, y.v) /\ Counted(L, y.v) /\ Fresh(L, y.v.fp)
          BY <4>3, <4>5 DEF Begun, Handles, Ready
        <5>2. Opened(L, F, y.v, z)
          BY <4>2, <4>5, <5>1, SeekToEndOpens
        <5> QED
          BY <5>2 DEF Opened, Handles
      <4> QED
        BY <4>4, <4>5
    <3> QED
      BY <3>3, <3>4
  <2> QED
    BY <2>1, <2>2
<1>7. CASE z.res \in {"FR_OK", "cut"}
  BY <1>1, <1>6, <1>7
<1>8. CASE z.res \notin {"FR_OK", "cut"}
  <2>1. PICK y \in Return([z.v EXCEPT !.fp = Closed], 0) :
          r \in IF y.res = "cut" THEN {y} ELSE Fails(y.v, z.res)
    BY <1>1, <1>8
  <2>2. y.v = WithFp(z.v, Closed) /\ y.res = "FR_OK"
    BY <2>1, Returned DEF WithFp
  <2>3. r.v = WithFp(z.v, Closed) /\ r.res = z.res
    BY <2>1, <2>2, Returned
  <2>4. Ready(L, F, z.v) /\ Counted(L, z.v)
    BY <1>6, <1>8 DEF Opened, Handles, Ready
  <2>5. Ready(L, F, r.v) /\ Counted(L, r.v)
    <3>1. IsFile(Closed) /\ MayOpen(L, z.v, Closed)
      BY DEF IsFile, Closed, MayOpen
    <3> QED
      BY <2>3, <2>4, <3>1, FpSound
  <2> QED
    BY <1>6, <1>8, <2>3, <2>5 DEF Opened, Handles, Ready
<1> QED
  BY <1>7, <1>8

--------------------------------------------------------------------------------
\* f_write.
CleanFp(p) == [p EXCEPT !.dirty = FALSE]

\* The sector buffer may be marked clean.
LEMMA CleanFits ==
  ASSUME NEW L, NEW p, IsFile(p)
  PROVE  /\ IsFile(CleanFp(p)) /\ CleanFp(p).dirty = FALSE
         /\ CleanFp(p).open = p.open /\ CleanFp(p).err = p.err
         /\ CleanFp(p).objsize = p.objsize /\ CleanFp(p).fptr = p.fptr
         /\ CleanFp(p).sclust = p.sclust /\ CleanFp(p).clust = p.clust
         /\ CleanFp(p).sect = p.sect /\ CleanFp(p).dir_sect = p.dir_sect
         /\ SameOwner(p, CleanFp(p))
         /\ FpFits(L, p) => FpFits(L, CleanFp(p))
<1>1. /\ IsFile(CleanFp(p)) /\ CleanFp(p).dirty = FALSE
      /\ CleanFp(p).open = p.open /\ CleanFp(p).err = p.err
      /\ CleanFp(p).objsize = p.objsize /\ CleanFp(p).fptr = p.fptr
      /\ CleanFp(p).sclust = p.sclust /\ CleanFp(p).clust = p.clust
      /\ CleanFp(p).sect = p.sect /\ CleanFp(p).dir_sect = p.dir_sect
      /\ CleanFp(p).dir_ptr = p.dir_ptr
  BY DEF CleanFp, IsFile
<1> QED
  BY <1>1 DEF FpFits, SameOwner

\* Cells on a sector behind the FATs.
LEMMA DataFits ==
  ASSUME NEW L \in Geometries, NEW v, NEW s \in PlainSectors(L), NEW buf
  PROVE  MayWrite(L, v, s, [kind |-> "data", cells |-> buf])
<1> DEFINE x == [kind |-> "data", cells |-> buf]
<1>1. /\ s \in Sectors(L) /\ s \in Nat /\ s >= fatbase(L) /\ s >= PlainStart(L)
      /\ s \notin FirstFat(L)
  BY Regions
<1>2. /\ fatbase(L) = L.volbase + 2 /\ L.volbase \in Nat /\ fatbase(L) \in Nat
      /\ PlainStart(L) \in Nat
  BY Places
<1>3. x.kind = "data"
  OBVIOUS
<1> HIDE DEF x
<1>4. Fits(L, s, x)
  BY <1>1, <1>2, <1>3 DEF Fits
<1>5. MayWrite(L, v, s, x)
  BY <1>1, <1>3, <1>4 DEF MayWrite, MayPlace
<1> QED
  BY <1>5 DEF x

\* The sector of the file that has not been written yet, if there is one.
WroteBack(L, F, v, r) ==
  /\ Handles(L, F, v, r)
  /\ r.res # "cut" => /\ LibFree(L, r.v) = LibFree(L, v)
                      /\ r.v.fp \in {v.fp, CleanFp(v.fp)}
  /\ r.res = "FR_OK" => ~r.v.fp.dirty

\* f_write writes its sector back, or fails.
LEMMA WriteBackWrites ==
  ASSUME NEW L \in Geometries, NEW F, NEW v, Ready(L, F, v), Counted(L, v), FpFits(L, v.fp)
  PROVE  \A r \in WriteBack(v) : WroteBack(L, F, v, r)
<1> TAKE r \in WriteBack(v)
<1> DEFINE x == [kind |-> "data", cells |-> v.fp.buf]
<1>1. CASE ~v.fp.dirty
  <2>1. r.v = v /\ r.res = "FR_OK"
    BY <1>1, Returned DEF WriteBack
  <2> QED
    BY <1>1, <2>1 DEF WroteBack, Handles, Ready
<1>2. CASE v.fp.dirty
  <2>1. PICK q \in disk_write(v, v.fp.sect, x) :
          r \in IF q.res = "FR_OK" THEN Return([q.v EXCEPT !.fp.dirty = FALSE], 0) ELSE {q}
    BY <1>2 DEF WriteBack, Then
  <2>2. MayWrite(L, v, v.fp.sect, x)
    BY <1>2, DataFits DEF FpFits
  <2> HIDE DEF x
  <2>3. Written(L, F, v, v.fp.sect, x, q)
    BY <2>1, <2>2, WriteQuiet DEF Ready
  <2>4. Quiet(L, F, v, q) /\ q.res # "again" /\ (q.res # "cut" => q.v.fp = v.fp)
    BY <2>3 DEF Written
  <2>5. Handles(L, F, v, q)
    BY <2>4, QuietKeeps, KeepsHandles
  <2>6. q.res # "cut" => /\ Ready(L, F, q.v) /\ Counted(L, q.v)
                         /\ LibFree(L, q.v) = LibFree(L, v)
    BY <2>4, QuietCounted
  <2>7. CASE q.res # "FR_OK"
    BY <2>1, <2>4, <2>5, <2>6, <2>7 DEF WroteBack
  <2>8. CASE q.res = "FR_OK"
    <3>1. r.v = [q.v EXCEPT !.fp.dirty = FALSE] /\ r.res = "FR_OK"
      BY <2>1, <2>8, Returned
    <3>2. r.v = WithFp(q.v, CleanFp(v.fp))
      BY <2>4, <2>8, <3>1 DEF WithFp, CleanFp
    <3>3. /\ Ready(L, F, r.v) /\ Counted(L, r.v) /\ LibFree(L, r.v) = LibFree(L, v)
          /\ r.v.fp = CleanFp(v.fp)
      <4>1. IsFile(CleanFp(v.fp)) /\ SameOwner(q.v.fp, CleanFp(v.fp))
        BY <2>4, <2>8, CleanFits DEF FpFits
      <4>2. MayOpen(L, q.v, CleanFp(v.fp))
        BY <4>1 DEF MayOpen
      <4> QED
        BY <2>6, <2>8, <3>2, <4>1, <4>2, FpSound
    <3>4. ~CleanFp(v.fp).dirty
      BY CleanFits DEF FpFits
    <3> QED
      BY <3>1, <3>3, <3>4 DEF WroteBack, Handles, Ready
  <2> QED
    BY <2>7, <2>8
<1>3. v.fp.dirty \in BOOLEAN
  BY DEF FpFits, IsFile
<1> QED
  BY <1>1, <1>2, <1>3

\* A cluster for the cells that come next, or 0 if there is none.
FoundCluster(L, F, v, r) ==
  /\ Keeps(L, F, v, r) /\ r.res # "again"
  /\ r.res = "FR_OK" =>
       /\ r.val \in Nat /\ (r.val = 0 => LibFree(L, r.v) = {})
       /\ v.fp.sclust = 0 /\ r.val # 0 => Orphan(L, r.v, r.val)

\* A cluster for what is written, in no entry yet if the file had none, or none is free.
LEMMA ClusterForWriteFinds ==
  ASSUME NEW L \in Geometries, NEW F, NEW v, Ready(L, F, v), Counted(L, v), FpFits(L, v.fp)
  PROVE  \A r \in ClusterForWrite(v) : FoundCluster(L, F, v, r)
<1> TAKE r \in ClusterForWrite(v)
<1>1. /\ v.fp.fptr \in Nat /\ v.fp.clust \in Nat /\ v.fp.sclust \in Nat
      /\ v.fp.fptr > 0 => v.fp.clust # 0 /\ v.fp.sclust # 0
  BY DEF FpFits, IsFile
<1>2. F \subseteq ClusterSet /\ 0 \in Nat /\ \A c \in ClusterSet : c \in Nat /\ c # 0
  BY Sizes DEF Ready, Sound, Covered, ClusterSet
<1>3. ASSUME NEW c \in Nat, r.v = v, r.res = "FR_OK", r.val = c, c # 0, v.fp.sclust # 0
      PROVE  FoundCluster(L, F, v, r)
  BY <1>3, AtOnce DEF FoundCluster
<1>4. ASSUME NEW c \in Nat, r \in create_chain(v, c), v.fp.sclust = 0 => c = 0
      PROVE  FoundCluster(L, F, v, r)
  <2>1. Created(L, F, v, c, IF c = 0 THEN F ELSE ClusterSet, r)
    BY <1>4, CreateChain
  <2>2. r.res = "FR_OK" => (r.val = 0 /\ LibFree(L, r.v) = {}) \/ r.val \in ClusterSet
    BY <1>2, <2>1 DEF Created
  <2>3. r.res = "FR_OK" => r.val \in Nat /\ (r.val = 0 => LibFree(L, r.v) = {})
    BY <1>2, <2>2
  <2> QED
    BY <1>4, <2>1, <2>3 DEF Created, FoundCluster
<1>5. CASE csect(v) # 0
  <2>1. v.fp.fptr # 0
    <3>1. 0 \div SS = 0 /\ 0 % csize = 0
      BY Constants
    <3> QED
      BY <1>5, <3>1 DEF csect
  <2>2. r.v = v /\ r.res = "FR_OK" /\ r.val = v.fp.clust
    BY <1>5, Returned DEF ClusterForWrite
  <2> QED
    BY <1>1, <1>3, <2>1, <2>2
<1>6. CASE csect(v) = 0 /\ v.fp.fptr # 0
  BY <1>1, <1>4, <1>6 DEF ClusterForWrite
<1>7. CASE csect(v) = 0 /\ v.fp.fptr = 0 /\ v.fp.sclust # 0
  <2>1. r.v = v /\ r.res = "FR_OK" /\ r.val = v.fp.sclust
    BY <1>7, Returned DEF ClusterForWrite
  <2> QED
    BY <1>1, <1>3, <1>7, <2>1
<1>8. CASE csect(v) = 0 /\ v.fp.fptr = 0 /\ v.fp.sclust = 0
  BY <1>4, <1>8 DEF ClusterForWrite
<1> QED
  BY <1>5, <1>6, <1>7, <1>8

\* The file gets longer, with the FATFS and FIL objects as they must be.
Grown(p, q) == q.open = p.open /\ q.err = p.err /\ q.objsize >= p.objsize
Grows(L, F, v, r) ==
  /\ Handles(L, F, v, r)
  /\ r.res # "cut" => FpFits(L, r.v.fp) /\ Grown(v.fp, r.v.fp)

HasSector(L, p) == p.sclust # 0 /\ p.clust # 0 /\ p.sect \in PlainSectors(L)

\* The next sector of a file, or none on a full volume.
InCluster(p, c) == [p EXCEPT !.clust = c, !.sclust = IF @ = 0 THEN c ELSE @]
AtSector(p, s) == [p EXCEPT !.sect = s]

\* A FIL object in its next cluster.
LEMMA InClusterFits ==
  ASSUME NEW L, NEW p, FpFits(L, p), NEW c \in Nat, c # 0
  PROVE  LET q == InCluster(p, c)
         IN  /\ FpFits(L, q) /\ Grown(p, q) /\ q.sclust # 0 /\ q.clust # 0
             /\ q.fptr = p.fptr
             /\ q.sclust = IF p.sclust = 0 THEN c ELSE p.sclust
             /\ SameOwner(p, [q EXCEPT !.sclust = p.sclust])
<1> DEFINE q == InCluster(p, c)
<1>1. IsFile(p) /\ p.objsize \in Nat
  BY DEF FpFits, IsFile
<1>2. /\ IsFile(q) /\ q.clust = c /\ q.sclust # 0 /\ q.fptr = p.fptr
      /\ q.objsize = p.objsize /\ q.err = p.err /\ q.open = p.open /\ q.dirty = p.dirty
      /\ q.sect = p.sect /\ q.dir_sect = p.dir_sect /\ q.dir_ptr = p.dir_ptr
      /\ q.sclust = IF p.sclust = 0 THEN c ELSE p.sclust
  BY <1>1 DEF InCluster, IsFile
<1> HIDE DEF q
<1>3. FpFits(L, q) /\ Grown(p, q)
  BY <1>1, <1>2 DEF FpFits, Grown
<1>4. SameOwner(p, [q EXCEPT !.sclust = p.sclust])
  BY <1>2 DEF SameOwner, IsFile
<1> QED
  BY <1>2, <1>3, <1>4 DEF q

\* A FIL object in its next sector.
LEMMA AtSectorFits ==
  ASSUME NEW L, NEW p, FpFits(L, p), p.sclust # 0, p.clust # 0, NEW s \in PlainSectors(L)
  PROVE  LET q == AtSector(p, s)
         IN  FpFits(L, q) /\ Grown(p, q) /\ HasSector(L, q) /\ SameOwner(p, q)
<1> DEFINE q == AtSector(p, s)
<1>1. IsFile(p) /\ p.objsize \in Nat
  BY DEF FpFits, IsFile
<1>2. /\ IsFile(q) /\ q.clust = p.clust /\ q.sclust = p.sclust /\ q.fptr = p.fptr
      /\ q.objsize = p.objsize /\ q.err = p.err /\ q.open = p.open /\ q.dirty = p.dirty
      /\ q.sect = s /\ q.dir_sect = p.dir_sect /\ q.dir_ptr = p.dir_ptr
  BY <1>1 DEF AtSector, IsFile
<1> HIDE DEF q
<1>3. FpFits(L, q) /\ Grown(p, q) /\ HasSector(L, q) /\ SameOwner(p, q)
  BY <1>1, <1>2 DEF FpFits, Grown, HasSector, SameOwner
<1> QED
  BY <1>3 DEF q

NextFound(L, F, v, r) ==
  /\ Grows(L, F, v, r)
  /\ r.res = "FR_OK" => \/ r.val = 0 /\ LibFree(L, r.v) = {}
                        \/ r.val # 0 /\ HasSector(L, r.v.fp)

\* A file that has grown twice has grown.
LEMMA GrownTrans ==
  ASSUME NEW L, NEW p, NEW q, NEW e, FpFits(L, p), FpFits(L, q), FpFits(L, e),
         Grown(p, q), Grown(q, e)
  PROVE  Grown(p, e)
<1>1. p.objsize \in Nat /\ q.objsize \in Nat /\ e.objsize \in Nat
  BY DEF FpFits, IsFile
<1> QED
  BY <1>1 DEF Grown

\* A file that stays as it is has grown by nothing.
LEMMA GrownSame ==
  ASSUME NEW L, NEW p, FpFits(L, p)
  PROVE  Grown(p, p)
BY DEF FpFits, IsFile, Grown

\* f_write finds the next sector of its file, or none on a full volume.
LEMMA NextSectorFinds ==
  ASSUME NEW L \in Geometries, NEW F, NEW v, Ready(L, F, v), Counted(L, v), FpFits(L, v.fp)
  PROVE  \A r \in NextSector(v) : NextFound(L, F, v, r)
<1> TAKE r \in NextSector(v)
<1> DEFINE With(u, c) == [u EXCEPT !.fp.clust = c, !.fp.sclust = IF @ = 0 THEN c ELSE @]
           To(w, c) == IF ~IsCluster(c) THEN Fails(w, "FR_INT_ERR")
                       ELSE Return([w EXCEPT !.fp.sect = clst2sect(w.fs, c) + csect(w)], c)
           Go(u, c) == IF c = 0 THEN Return(u, 0)
                       ELSE UNION {IF y.res = "FR_OK" THEN To(y.v, c) ELSE {y}
                                   : y \in WriteBack(With(u, c))}
<1>1. PICK q \in ClusterForWrite(v) : r \in IF q.res = "FR_OK" THEN Go(q.v, q.val) ELSE {q}
  BY DEF NextSector, Then
<1>2. FoundCluster(L, F, v, q)
  BY <1>1, ClusterForWriteFinds
<1>3. Keeps(L, F, v, q) /\ q.res # "again"
  BY <1>2 DEF FoundCluster
<1>4. q.res # "cut" => Ready(L, F, q.v) /\ Counted(L, q.v) /\ q.v.fp = v.fp
  BY <1>3, KeepsReady DEF Keeps, Settles
<1>5. Handles(L, F, v, q)
  BY <1>3, KeepsHandles
<1>6. CASE q.res # "FR_OK"
  <2>1. r = q
    BY <1>1, <1>6
  <2>2. Grown(v.fp, v.fp)
    BY GrownSame
  <2> QED
    BY <1>4, <1>5, <1>6, <2>1, <2>2 DEF NextFound, Grows
<1>7. CASE q.res = "FR_OK"
  <2> DEFINE c == q.val
             p == InCluster(v.fp, c)
             w == WithFp(q.v, p)
  <2>1. r \in Go(q.v, c)
    BY <1>1, <1>7
  <2>2. c \in Nat /\ (c = 0 => LibFree(L, q.v) = {})
    BY <1>2, <1>7 DEF FoundCluster
  <2>3. Ready(L, F, q.v) /\ Counted(L, q.v) /\ q.v.fp = v.fp
    BY <1>4, <1>7
  <2>4. CASE c = 0
    <3>1. r.v = q.v /\ r.res = "FR_OK" /\ r.val = 0
      BY <2>1, <2>4, Returned
    <3>2. Grown(v.fp, v.fp)
      BY GrownSame
    <3> QED
      BY <2>2, <2>3, <2>4, <3>1, <3>2 DEF NextFound, Grows, Handles, Ready
  <2>5. CASE c # 0
    <3>1. PICK y \in WriteBack(With(q.v, c)) :
            r \in IF y.res = "FR_OK" THEN To(y.v, c) ELSE {y}
      BY <2>1, <2>5
    <3>2. With(q.v, c) = w
      BY <2>3 DEF WithFp, InCluster, Ready, Sound, Shape, IsVolume
    <3>4. /\ FpFits(L, p) /\ Grown(v.fp, p) /\ p.sclust # 0 /\ p.clust # 0
          /\ p.sclust = IF v.fp.sclust = 0 THEN c ELSE v.fp.sclust
          /\ SameOwner(v.fp, [p EXCEPT !.sclust = v.fp.sclust])
      BY <2>2, <2>5, InClusterFits
    <3> HIDE DEF p
    <3>12. MayOpen(L, q.v, p)
      <4>1. CASE v.fp.sclust = 0
        BY <1>2, <1>7, <2>3, <2>5, <3>4, <4>1 DEF FoundCluster, MayOpen
      <4>2. CASE v.fp.sclust # 0
        <5>1. p = [p EXCEPT !.sclust = v.fp.sclust]
          BY <3>4, <4>2 DEF FpFits, IsFile
        <5> QED
          BY <2>3, <3>4, <5>1 DEF MayOpen
      <4> QED
        BY <4>1, <4>2
    <3>3. Ready(L, F, w) /\ Counted(L, w) /\ w.fp = p
      BY <2>3, <3>4, <3>12, FpSound DEF FpFits
    <3> HIDE DEF With, To, Go
    <3> HIDE DEF w
    <3>5. WroteBack(L, F, w, y)
      BY <3>1, <3>2, <3>3, <3>4, WriteBackWrites
    <3>6. Handles(L, F, v, y)
      BY <3>5 DEF WroteBack, Handles
    <3>7. y.res # "cut" => /\ Ready(L, F, y.v) /\ Counted(L, y.v) /\ FpFits(L, y.v.fp)
                           /\ Grown(p, y.v.fp) /\ y.v.fp.sclust # 0 /\ y.v.fp.clust # 0
      <4>1. IsFile(p) /\ p.objsize \in Nat
        BY <3>4 DEF FpFits, IsFile
      <4>2. y.res # "cut" => y.v.fp \in {p, CleanFp(p)}
        BY <3>3, <3>5 DEF WroteBack
      <4>3. /\ FpFits(L, CleanFp(p)) /\ Grown(p, CleanFp(p)) /\ CleanFp(p).sclust # 0
            /\ CleanFp(p).clust # 0
        <5>1. /\ FpFits(L, CleanFp(p)) /\ CleanFp(p).open = p.open /\ CleanFp(p).err = p.err
              /\ CleanFp(p).objsize = p.objsize /\ CleanFp(p).sclust = p.sclust
              /\ CleanFp(p).clust = p.clust
          BY <3>4, <4>1, CleanFits
        <5>2. Grown(p, CleanFp(p))
          BY <4>1, <5>1 DEF Grown
        <5> QED
          BY <3>4, <5>1, <5>2
      <4>4. Grown(p, p)
        BY <3>4, GrownSame
      <4> QED
        BY <3>4, <3>6, <4>2, <4>3, <4>4 DEF Handles, Ready
    <3>8. y.res # "cut" => Grown(v.fp, y.v.fp)
      BY <3>4, <3>7, GrownTrans
    <3>9. CASE y.res # "FR_OK"
      BY <3>1, <3>6, <3>7, <3>8, <3>9 DEF NextFound, Grows
    <3>10. CASE y.res = "FR_OK" /\ ~IsCluster(c)
      <4>1. r.v = y.v /\ r.res = "FR_INT_ERR"
        BY <3>1, <3>10, Returned DEF To
      <4> QED
        BY <3>6, <3>7, <3>8, <3>10, <4>1 DEF NextFound, Grows, Handles
    <3>11. CASE y.res = "FR_OK" /\ IsCluster(c)
      <4> DEFINE s == clst2sect(y.v.fs, c) + csect(y.v)
                 e == AtSector(y.v.fp, s)
      <4>1. r.v = [y.v EXCEPT !.fp.sect = s] /\ r.res = "FR_OK" /\ r.val = c
        BY <3>1, <3>11, Returned DEF To
      <4>2. csect(y.v) \in 0 .. csize - 1
        <5>1. y.v.fp.fptr \in Nat
          BY <3>7, <3>11 DEF FpFits, IsFile
        <5> QED
          BY <5>1, Constants, Division DEF csect
      <4>3. s \in PlainSectors(L)
        <5>1. c \in ClusterSet
          BY <2>2, <3>11, FatSects
        <5> HIDE DEF c
        <5>2. Mounted(L, y.v.fs)
          BY <3>7, <3>11 DEF Ready
        <5> QED
          BY <4>2, <5>1, <5>2, ClusterSectors
      <4>4. r.v = WithFp(y.v, e)
        BY <4>1 DEF WithFp, AtSector
      <4> HIDE DEF s
      <4>5. FpFits(L, e) /\ Grown(y.v.fp, e) /\ HasSector(L, e) /\ SameOwner(y.v.fp, e)
        BY <3>7, <3>11, <4>3, AtSectorFits
      <4> HIDE DEF e
      <4>6. Ready(L, F, r.v) /\ Counted(L, r.v) /\ r.v.fp = e
        <5>1. IsFile(e) /\ MayOpen(L, y.v, e)
          BY <4>5 DEF FpFits, MayOpen
        <5> QED
          BY <3>7, <3>11, <4>4, <5>1, FpSound
      <4>7. Grown(v.fp, e)
        BY <3>7, <3>8, <3>11, <4>5, GrownTrans
      <4> QED
        BY <2>5, <4>1, <4>5, <4>6, <4>7 DEF NextFound, Grows, Handles, Ready
    <3> QED
      BY <3>9, <3>10, <3>11
  <2> QED
    BY <2>4, <2>5
<1> QED
  BY <1>6, <1>7

\* Cells into the sector buffer.
LongerBy(p, n, buf) ==
  [p EXCEPT !.buf = buf, !.dirty = TRUE, !.fptr = @ + n, !.objsize = @ + n]

\* Cells in the sector buffer make the file longer.
LEMMA LongerByFits ==
  ASSUME NEW L, NEW p, FpFits(L, p), HasSector(L, p), NEW n \in Nat, NEW buf
  PROVE  LET q == LongerBy(p, n, buf) IN  FpFits(L, q) /\ Grown(p, q) /\ SameOwner(p, q)
<1> DEFINE q == LongerBy(p, n, buf)
<1>1. IsFile(p) /\ p.objsize \in Nat /\ p.fptr \in Nat
  BY DEF FpFits, IsFile
<1> DEFINE a == p.fptr + n
           b == p.objsize + n
           e == [p EXCEPT !.buf = buf, !.dirty = TRUE, !.fptr = a, !.objsize = b]
<1>2. a \in Nat /\ b \in Nat
  BY <1>1
<1>3. q = e
  BY DEF LongerBy
<1> HIDE DEF q, a, b
<1>4. /\ IsFile(e) /\ e.clust = p.clust /\ e.sclust = p.sclust /\ e.fptr = a
      /\ e.objsize = b /\ e.err = p.err /\ e.open = p.open
      /\ e.sect = p.sect /\ e.dir_sect = p.dir_sect /\ e.dir_ptr = p.dir_ptr
  BY <1>1, <1>2 DEF IsFile
<1> HIDE DEF e
<1>5. FpFits(L, q) /\ Grown(p, q) /\ SameOwner(p, q)
  BY <1>1, <1>2, <1>3, <1>4 DEF FpFits, Grown, HasSector, SameOwner, a, b
<1> QED
  BY <1>5 DEF q

\* A round of f_write.
WriteStep(p, n, S) ==
  UNION {IF r.res = "again" THEN WriteSome(r.v, r.val) ELSE {r} : r \in S}
GrowsSome(L, F, v, w) ==
  /\ Sound(L, F, w) /\ Mounted(L, w.fs) /\ Counted(L, w)
  /\ FpFits(L, w.fp) /\ Grown(v.fp, w.fp)
WritesOn(L, F, v, r) ==
  /\ IF r.res = "cut" THEN Sound(L, F, r.v) /\ Off(r.v) ELSE GrowsSome(L, F, v, r.v)
  /\ r.res = "again" => r.val \in Seq(Int)
  /\ r.res = "FR_OK" => r.val \in Nat /\ (r.val # 0 => LibFree(L, r.v) = {})
WriteGood(p, q, n, S) == \A r \in S : WritesOn(q.L, q.F, q.v, r)
WriteLoop == INSTANCE Induction WITH Step <- WriteStep, Good <- WriteGood

\* A round of f_write.
LEMMA WriteSomeGrows ==
  ASSUME NEW L \in Geometries, NEW F, NEW v, FpFits(L, v.fp), NEW x, WritesOn(L, F, v, x),
         x.res = "again"
  PROVE  \A r \in WriteSome(x.v, x.val) : WritesOn(L, F, v, r)
<1> TAKE r \in WriteSome(x.v, x.val)
<1> DEFINE data == x.val
           w == x.v
           Size(u) == IF Len(data) < Room(u.fp.fptr) THEN Len(data) ELSE Room(u.fp.fptr)
           Go(u, c) == IF c = 0 THEN Return(u, Len(data))
                       ELSE Again(PutCells(u, SubSeq(data, 1, Size(u))),
                                  SubSeq(data, Size(u) + 1, Len(data)))
           First == IF w.fp.fptr % SS = 0 THEN NextSector(w) ELSE Return(w, w.fp.clust)
<1>1. GrowsSome(L, F, v, w) /\ data \in Seq(Int)
  BY DEF WritesOn
<1>2. /\ Ready(L, F, w) /\ Counted(L, w) /\ FpFits(L, w.fp) /\ Grown(v.fp, w.fp)
  BY <1>1 DEF GrowsSome, Ready
<1>3. Len(data) \in Nat /\ (Len(data) = 0 <=> data = <<>>)
  BY <1>1
<1>4. CASE data = <<>>
  <2>1. r.v = w /\ r.res = "FR_OK" /\ r.val = 0
    BY <1>4, Returned DEF WriteSome
  <2> QED
    BY <1>1, <2>1 DEF WritesOn
<1>5. CASE data # <<>>
  <2>1. PICK q \in First : r \in IF q.res = "FR_OK" THEN Go(q.v, q.val) ELSE {q}
    BY <1>5 DEF WriteSome, Then
  <2>2. NextFound(L, F, w, q)
    <3>1. CASE w.fp.fptr % SS = 0
      BY <1>2, <2>1, <3>1, NextSectorFinds
    <3>2. CASE w.fp.fptr % SS # 0
      <4>1. q.v = w /\ q.res = "FR_OK" /\ q.val = w.fp.clust
        BY <2>1, <3>2, Returned
      <4>2. 0 % SS = 0
        BY Constants
      <4>3. w.fp.fptr \in Nat
        BY <1>2 DEF FpFits, IsFile
      <4>4. HasSector(L, w.fp) /\ w.fp.clust # 0
        BY <1>2, <3>2, <4>2, <4>3 DEF FpFits, HasSector
      <4>5. Grown(w.fp, w.fp)
        BY <1>2, GrownSame
      <4> QED
        BY <1>2, <4>1, <4>4, <4>5 DEF NextFound, Grows, Handles, Ready
    <3> QED
      BY <3>1, <3>2
  <2> HIDE DEF First, data, w
  <2>3. CASE q.res = "cut"
    BY <2>1, <2>2, <2>3 DEF NextFound, Grows, Handles, WritesOn
  <2>4. CASE q.res # "cut"
    <3>1. /\ Ready(L, F, q.v) /\ Counted(L, q.v) /\ FpFits(L, q.v.fp)
          /\ Grown(w.fp, q.v.fp) /\ q.res # "again"
      BY <2>2, <2>4 DEF NextFound, Grows, Handles, Ready
    <3>2. Grown(v.fp, q.v.fp)
      BY <1>2, <3>1, GrownTrans
    <3>3. GrowsSome(L, F, v, q.v)
      BY <3>1, <3>2 DEF GrowsSome, Ready
    <3>4. CASE q.res # "FR_OK"
      BY <2>1, <2>4, <3>1, <3>3, <3>4 DEF WritesOn
    <3>5. CASE q.res = "FR_OK" /\ q.val = 0
      <4>1. r.v = q.v /\ r.res = "FR_OK" /\ r.val = Len(data)
        BY <2>1, <3>5, Returned
      <4>2. LibFree(L, q.v) = {}
        BY <2>2, <3>5 DEF NextFound
      <4> QED
        BY <1>3, <3>3, <4>1, <4>2 DEF WritesOn
    <3>6. CASE q.res = "FR_OK" /\ q.val # 0
      <4> DEFINE n == Size(q.v)
                 some == SubSeq(data, 1, n)
                 at == q.v.fp.fptr % SS
                 buf == [i \in Cells |-> IF i - at \in 0 .. Len(some) - 1
                                         THEN some[i - at + 1] ELSE q.v.fp.buf[i]]
      <4> HIDE DEF Size
      <4> DEFINE rest == SubSeq(data, n + 1, Len(data))
                 new == PutCells(q.v, some)
      <4>0. r \in Again(new, rest)
        BY <2>1, <3>6
      <4> HIDE DEF n, some, rest, new
      <4>1. /\ r.v = new /\ r.res = "again"
            /\ r.val = rest
        BY <4>0, Returned
      <4>2. n \in Nat /\ n <= Len(data)
        <5>1. q.v.fp.fptr \in Nat
          BY <3>1 DEF FpFits, IsFile
        <5>2. Room(q.v.fp.fptr) \in Nat
          BY <5>1, Constants, Division DEF Room
        <5> QED
          BY <1>3, <5>2 DEF Size, n
      <4>3. r.val \in Seq(Int)
        BY <1>1, <1>3, <4>1, <4>2 DEF data, rest
      <4>4. Len(some) = n
        BY <1>1, <4>2 DEF data, some
      <4>5. r.v = WithFp(q.v, LongerBy(q.v.fp, n, buf))
        BY Zenon, <4>1, <4>4 DEF new, PutCells, WithFp, LongerBy
      <4> HIDE DEF buf
      <4>6. HasSector(L, q.v.fp)
        BY <2>2, <3>6 DEF NextFound
      <4>7. /\ FpFits(L, LongerBy(q.v.fp, n, buf)) /\ Grown(q.v.fp, LongerBy(q.v.fp, n, buf))
            /\ SameOwner(q.v.fp, LongerBy(q.v.fp, n, buf))
        BY <3>1, <4>2, <4>6, LongerByFits
      <4> DEFINE e == LongerBy(q.v.fp, n, buf)
      <4> HIDE DEF e
      <4>8. Ready(L, F, r.v) /\ Counted(L, r.v) /\ r.v.fp = e
        <5>1. IsFile(e) /\ MayOpen(L, q.v, e)
          BY <4>7 DEF e, FpFits, MayOpen
        <5> QED
          BY <3>1, <4>5, <5>1, FpSound DEF e
      <4>9. FpFits(L, e) /\ Grown(v.fp, e)
        BY <3>1, <3>2, <4>7, GrownTrans DEF e
      <4> QED
        BY <4>1, <4>3, <4>8, <4>9 DEF WritesOn, GrowsSome, Ready
    <3> QED
      BY <3>4, <3>5, <3>6
  <2> QED
    BY <2>3, <2>4
<1> QED
  BY <1>4, <1>5

WriteAll(v, data) == Loop(v, data, WriteSome, Len(data) + 1)

\* f_write with all rounds.
LEMMA WriteAllGrows ==
  ASSUME NEW L \in Geometries, NEW F, NEW v, NEW data \in Seq(Int), Ready(L, F, v),
         Counted(L, v), FpFits(L, v.fp)
  PROVE  \A r \in WriteAll(v, data) : WritesOn(L, F, v, r) /\ r.res # "again"
<1> TAKE r \in WriteAll(v, data)
<1> DEFINE base == Again(v, data)
           q == [L |-> L, F |-> F, v |-> v]
           max == Len(data) + 1
<1>1. r \in {y \in WriteLoop!Recursive(0, base, max)[max] : y.res # "again"}
  BY DEF WriteAll, Loop, WriteLoop!Recursive, WriteStep
<1>2. WriteGood(0, q, 0, base)
  <2>1. \A x \in base : x.v = v /\ x.res = "again" /\ x.val = data
    BY Returned
  <2> HIDE DEF base
  <2>2. GrowsSome(L, F, v, v)
    BY GrownSame DEF GrowsSome, Ready
  <2>3. \A x \in base : WritesOn(L, F, v, x)
    BY <2>1, <2>2 DEF WritesOn
  <2> QED
    BY <2>3 DEF WriteGood
<1>3. ASSUME NEW n \in 1 .. max, NEW S, WriteGood(0, q, n - 1, S)
      PROVE  WriteGood(0, q, n, WriteStep(0, n, S))
  <2>1. ASSUME NEW y \in WriteStep(0, n, S)
        PROVE  WritesOn(L, F, v, y)
    <3>1. PICK x \in S : y \in IF x.res = "again" THEN WriteSome(x.v, x.val) ELSE {x}
      BY <2>1 DEF WriteStep
    <3>2. WritesOn(L, F, v, x)
      BY <1>3 DEF WriteGood
    <3>3. CASE x.res = "again"
      BY <3>1, <3>2, <3>3, WriteSomeGrows
    <3> QED
      BY <3>1, <3>2, <3>3
  <2> QED
    BY <2>1 DEF WriteGood
<1>4. max \in Nat /\ max \in 0 .. max
  BY LenProperties
<1> HIDE DEF base, q, max
<1>5. \A n \in 0 .. max : WriteGood(0, q, n, WriteLoop!Recursive(0, base, max)[n])
  BY <1>2, <1>3, <1>4, WriteLoop!RecursionInduction
<1>6. WritesOn(L, F, v, r) /\ r.res # "again"
  BY <1>1, <1>4, <1>5 DEF WriteGood, q
<1> QED
  BY <1>6

\* An error sticks to the file.
WithErr(p, err) == [p EXCEPT !.err = err]
WithModified(p, modified) == [p EXCEPT !.modified = modified]

\* An error in the FIL object changes nothing else.
LEMMA ErrFits ==
  ASSUME NEW L, NEW p, FpFits(L, p), NEW err, err \notin {"cut", "again"}
  PROVE  LET q == WithErr(p, err)
         IN  /\ FpFits(L, q) /\ SameOwner(p, q)
             /\ q.open = p.open /\ q.objsize = p.objsize /\ q.err = err
<1> DEFINE q == WithErr(p, err)
<1>1. IsFile(p) /\ p.objsize \in Nat
  BY DEF FpFits, IsFile
<1>2. /\ IsFile(q) /\ q.clust = p.clust /\ q.sclust = p.sclust /\ q.fptr = p.fptr
      /\ q.objsize = p.objsize /\ q.err = err /\ q.open = p.open /\ q.dirty = p.dirty
      /\ q.sect = p.sect /\ q.dir_sect = p.dir_sect /\ q.dir_ptr = p.dir_ptr
  BY <1>1 DEF WithErr, IsFile
<1> HIDE DEF q
<1>3. FpFits(L, q) /\ SameOwner(p, q)
  BY <1>1, <1>2 DEF FpFits, SameOwner
<1> QED
  BY <1>2, <1>3 DEF q

\* Nor does the flag that the file was modified.
LEMMA ModifiedFits ==
  ASSUME NEW L, NEW p, FpFits(L, p), NEW modified \in BOOLEAN
  PROVE  LET q == WithModified(p, modified)
         IN  /\ FpFits(L, q) /\ SameOwner(p, q)
             /\ q.open = p.open /\ q.objsize = p.objsize /\ q.err = p.err
<1> DEFINE q == WithModified(p, modified)
<1>1. IsFile(p) /\ p.objsize \in Nat
  BY DEF FpFits, IsFile
<1>2. /\ IsFile(q) /\ q.clust = p.clust /\ q.sclust = p.sclust /\ q.fptr = p.fptr
      /\ q.objsize = p.objsize /\ q.err = p.err /\ q.open = p.open /\ q.dirty = p.dirty
      /\ q.sect = p.sect /\ q.dir_sect = p.dir_sect /\ q.dir_ptr = p.dir_ptr
  BY <1>1 DEF WithModified, IsFile
<1> HIDE DEF q
<1>3. FpFits(L, q) /\ SameOwner(p, q)
  BY <1>1, <1>2 DEF FpFits, SameOwner
<1> QED
  BY <1>2, <1>3 DEF q

\* A file that is open on a volume that is mounted.
InUse(L, F, v) == Ready(L, F, v) /\ Counted(L, v) /\ FpFits(L, v.fp) /\ v.fp.open

\* validate passes for a file that is open on a mounted volume.
LEMMA Validate ==
  ASSUME NEW L \in Geometries, NEW F, NEW v, InUse(L, F, v)
  PROVE  \A r \in validate(v) : r.v = v /\ r.res = "FR_OK"
<1>1. v.fs.fs_type # "none"
  BY DEF InUse, Ready, Mounted, Geometries
<1> QED
  BY <1>1, Returned DEF validate, InUse

\* What f_write and f_puts leave: an error in the FIL object after a failure; cells that
\* did not fit only on a full volume.
Longer(L, F, v, w) ==
  InUse(L, F, w) /\ w.fp.objsize >= v.fp.objsize
Wrote(L, F, v, r) ==
  /\ r.res # "again"
  /\ IF r.res = "cut" THEN Sound(L, F, r.v) /\ Off(r.v) ELSE Longer(L, F, v, r.v)
  /\ r.res = "FR_OK" => r.val \in Nat /\ (r.val # 0 => LibFree(L, r.v) = {})
  /\ r.res \notin {"FR_OK", "cut"} => r.v.fp.err # "FR_OK"

\* f_write grows its file, stops on a full volume, or leaves an error in it.
LEMMA FWrite ==
  ASSUME NEW L \in Geometries, NEW F, NEW v, InUse(L, F, v), NEW data \in Seq(Int)
  PROVE  \A r \in f_write(v, data) : Wrote(L, F, v, r)
<1> TAKE r \in f_write(v, data)
<1> DEFINE Stick(z) == IF z.res \in {"FR_OK", "cut"} THEN z
                       ELSE [z EXCEPT !.v.fp.err = z.res]
           Done(u, left) == Return([u EXCEPT !.fp.modified = TRUE], left)
           Go(w) == UNION {IF y.res = "FR_OK" THEN Done(y.v, y.val) ELSE {y}
                           : y \in {Stick(z) : z \in WriteAll(w, data)}}
<1>1. PICK m \in validate(v) :
        r \in IF m.res = "FR_OK"
              THEN IF m.v.fp.err # "FR_OK" THEN Fails(m.v, m.v.fp.err) ELSE Go(m.v)
              ELSE {m}
  BY DEF f_write, Then, Abort, WriteAll
<1>2. m.v = v /\ m.res = "FR_OK"
  BY Validate
<1> HIDE DEF Go
<1>3. r \in IF v.fp.err # "FR_OK" THEN Fails(v, v.fp.err) ELSE Go(v)
  BY <1>1, <1>2
<1>4. /\ Ready(L, F, v) /\ Counted(L, v) /\ FpFits(L, v.fp) /\ v.fp.open
      /\ v.fp.objsize \in Nat
  BY DEF InUse, FpFits, IsFile
<1>5. CASE v.fp.err # "FR_OK"
  <2>1. r.v = v /\ r.res = v.fp.err
    BY <1>3, <1>5, Returned
  <2>2. r.res \notin {"cut", "again", "FR_OK"}
    BY <1>4, <1>5, <2>1 DEF FpFits
  <2> QED
    BY <1>4, <1>5, <2>1, <2>2 DEF Wrote, Longer
<1>6. CASE v.fp.err = "FR_OK"
  <2>1. PICK z \in WriteAll(v, data) :
          \E y : y = Stick(z) /\ r \in IF y.res = "FR_OK" THEN Done(y.v, y.val) ELSE {y}
    BY <1>3, <1>6 DEF Go
  <2>2. WritesOn(L, F, v, z) /\ z.res # "again"
    BY <1>4, <2>1, WriteAllGrows
  <2>3. z.res # "cut" => /\ Ready(L, F, z.v) /\ Counted(L, z.v) /\ FpFits(L, z.v.fp)
                         /\ z.v.fp.open /\ z.v.fp.objsize >= v.fp.objsize
    BY <1>4, <2>2 DEF WritesOn, GrowsSome, Grown, Ready
  <2>4. CASE z.res = "cut"
    <3>1. r = z
      BY <2>1, <2>4
    <3> QED
      BY <2>2, <2>4, <3>1 DEF WritesOn, Wrote
  <2>5. CASE z.res = "FR_OK"
    <3> DEFINE e == WithModified(z.v.fp, TRUE)
    <3>1. r \in Done(z.v, z.val)
      BY <2>1, <2>5
    <3>2. r.v = [z.v EXCEPT !.fp.modified = TRUE] /\ r.res = "FR_OK" /\ r.val = z.val
      BY <3>1, Returned
    <3>3. r.v = WithFp(z.v, e)
      BY <3>2 DEF WithFp, WithModified
    <3>4. /\ FpFits(L, e) /\ e.open /\ e.objsize = z.v.fp.objsize
          /\ SameOwner(z.v.fp, e)
      BY <2>3, <2>5, ModifiedFits
    <3> HIDE DEF e
    <3>5. /\ Ready(L, F, r.v) /\ Counted(L, r.v) /\ r.v.fp = e
          /\ LibFree(L, r.v) = LibFree(L, z.v)
      <4>1. IsFile(e) /\ MayOpen(L, z.v, e)
        BY <3>4 DEF FpFits, MayOpen
      <4>2. Ready(L, F, z.v) /\ Counted(L, z.v)
        BY <2>3, <2>5
      <4>3. /\ Ready(L, F, WithFp(z.v, e)) /\ Counted(L, WithFp(z.v, e))
            /\ WithFp(z.v, e).fp = e /\ LibFree(L, WithFp(z.v, e)) = LibFree(L, z.v)
        BY <4>1, <4>2, FpSound
      <4> QED
        BY <3>3, <4>3
    <3>6. z.val \in Nat /\ (z.val # 0 => LibFree(L, z.v) = {})
      BY <2>2, <2>5 DEF WritesOn
    <3>7. Longer(L, F, v, r.v)
      BY <2>3, <2>5, <3>4, <3>5 DEF Longer, InUse
    <3> QED
      BY <3>2, <3>5, <3>6, <3>7 DEF Wrote
  <2>6. CASE z.res \notin {"cut", "FR_OK"}
    <3> DEFINE e == WithErr(z.v.fp, z.res)
    <3>1. r = [z EXCEPT !.v.fp.err = z.res]
      BY <2>1, <2>6
    <3>2. r.v = [z.v EXCEPT !.fp.err = z.res] /\ r.res = z.res
      BY <3>1
    <3>3. r.v = WithFp(z.v, e)
      BY <3>2 DEF WithFp, WithErr
    <3>4. /\ FpFits(L, e) /\ e.open /\ e.objsize = z.v.fp.objsize /\ e.err = z.res
          /\ SameOwner(z.v.fp, e)
      BY <2>2, <2>3, <2>6, ErrFits
    <3> HIDE DEF e
    <3>5. Ready(L, F, r.v) /\ Counted(L, r.v) /\ r.v.fp = e
      <4>1. IsFile(e) /\ MayOpen(L, z.v, e)
        BY <3>4 DEF FpFits, MayOpen
      <4> QED
        BY <2>3, <2>6, <3>3, <4>1, FpSound
    <3>6. Longer(L, F, v, r.v)
      BY <2>3, <2>6, <3>4, <3>5 DEF Longer, InUse
    <3> QED
      BY <2>2, <2>6, <3>2, <3>4, <3>5, <3>6 DEF Wrote
  <2> QED
    BY <2>4, <2>5, <2>6
<1> QED
  BY <1>5, <1>6

\* f_puts and f_printf.
PutsStep(p, n, S) ==
  UNION {IF r.res = "again" THEN PutsUnit(r.v, r.val) ELSE {r} : r \in S}
Puts(L, F, v, r) ==
  /\ IF r.res = "cut" THEN Sound(L, F, r.v) /\ Off(r.v) ELSE Longer(L, F, v, r.v)
  /\ r.res = "again" => r.val \in Seq(Int)
  /\ r.res = "FR_OK" => /\ r.val \in BOOLEAN
                        /\ r.val \/ r.v.fp.err # "FR_OK" \/ LibFree(L, r.v) = {}
PutsGood(p, q, n, S) == \A r \in S : Puts(q.L, q.F, q.v, r)
PutsLoop == INSTANCE Induction WITH Step <- PutsStep, Good <- PutsGood

\* A round of f_puts: one f_write of its buffer.
LEMMA PutsUnitPuts ==
  ASSUME NEW L \in Geometries, NEW F, NEW v, InUse(L, F, v), NEW x, Puts(L, F, v, x),
         x.res = "again"
  PROVE  \A r \in PutsUnit(x.v, x.val) : Puts(L, F, v, r)
<1> TAKE r \in PutsUnit(x.v, x.val)
<1> DEFINE str == x.val
           unit == IF Len(str) < PutUnit THEN Len(str) ELSE PutUnit
           some == SubSeq(str, 1, unit)
           rest == SubSeq(str, unit + 1, Len(str))
           no == FALSE
           yes == TRUE
           Stop(w) == Return(w, no)
           Ends(w) == Return(w, yes)
           On(w) == Again(w, rest)
<1>1. PICK q \in f_write(x.v, some) :
        r \in IF q.res = "cut" THEN {q}
              ELSE IF q.res # "FR_OK" \/ q.val # 0 THEN Stop(q.v)
              ELSE IF unit < PutUnit THEN Ends(q.v)
              ELSE On(q.v)
  BY DEF PutsUnit
<1>2. Longer(L, F, v, x.v) /\ str \in Seq(Int)
  BY DEF Puts
<1>3. unit \in Nat /\ unit <= Len(str) /\ Len(str) \in Nat
  BY <1>2, Constants
<1> HIDE DEF unit, str
<1>4. some \in Seq(Int) /\ rest \in Seq(Int)
  BY <1>2, <1>3
<1> HIDE DEF some, rest, no, yes
<1>5. InUse(L, F, x.v) /\ x.v.fp.objsize >= v.fp.objsize
  BY <1>2 DEF Longer
<1>6. Wrote(L, F, x.v, q)
  BY <1>1, <1>4, <1>5, FWrite
<1>7. q.res # "cut" => Longer(L, F, v, q.v)
  <2>1. v.fp.objsize \in Nat /\ x.v.fp.objsize \in Nat
    BY <1>5 DEF InUse, FpFits, IsFile
  <2>2. q.res # "cut" => InUse(L, F, q.v) /\ q.v.fp.objsize >= x.v.fp.objsize
    BY <1>6 DEF Wrote, Longer
  <2>3. q.res # "cut" => q.v.fp.objsize \in Nat
    BY <2>2 DEF InUse, FpFits, IsFile
  <2> QED
    BY <1>5, <2>1, <2>2, <2>3 DEF Longer
<1>8. CASE q.res = "cut"
  BY <1>1, <1>6, <1>8 DEF Wrote, Puts
<1>9. CASE q.res # "cut" /\ (q.res # "FR_OK" \/ q.val # 0)
  <2>1. r \in Stop(q.v)
    BY <1>1, <1>9
  <2>2. r.v = q.v /\ r.res = "FR_OK" /\ r.val = no
    BY <2>1, Returned
  <2>3. q.v.fp.err # "FR_OK" \/ LibFree(L, q.v) = {}
    BY <1>6, <1>9 DEF Wrote
  <2> QED
    BY <1>7, <1>9, <2>2, <2>3 DEF Puts, no
<1>10. CASE q.res = "FR_OK" /\ q.val = 0 /\ unit < PutUnit
  <2>1. r \in Ends(q.v)
    BY <1>1, <1>10
  <2>2. r.v = q.v /\ r.res = "FR_OK" /\ r.val = yes
    BY <2>1, Returned
  <2> QED
    BY <1>7, <1>10, <2>2 DEF Puts, yes
<1>11. CASE q.res = "FR_OK" /\ q.val = 0 /\ ~(unit < PutUnit)
  <2>1. r.v = q.v /\ r.res = "again" /\ r.val = rest
    BY <1>1, <1>11, Returned
  <2> QED
    BY <1>4, <1>7, <1>11, <2>1 DEF Puts
<1> QED
  BY <1>8, <1>9, <1>10, <1>11

\* f_puts with all its writes.
LEMMA FPuts ==
  ASSUME NEW L \in Geometries, NEW F, NEW v, InUse(L, F, v), NEW str \in Seq(Int)
  PROVE  \A r \in f_puts(v, str) : Puts(L, F, v, r) /\ r.res # "again"
<1> TAKE r \in f_puts(v, str)
<1> DEFINE base == Again(v, str)
           q == [L |-> L, F |-> F, v |-> v]
           max == Len(str) + 1
<1>1. r \in {y \in PutsLoop!Recursive(0, base, max)[max] : y.res # "again"}
  BY DEF f_puts, Loop, PutsLoop!Recursive, PutsStep
<1>2. PutsGood(0, q, 0, base)
  <2>1. \A x \in base : x.v = v /\ x.res = "again" /\ x.val = str
    BY Returned
  <2> HIDE DEF base
  <2>2. Longer(L, F, v, v)
    BY DEF Longer, InUse, FpFits, IsFile
  <2>3. \A x \in base : Puts(L, F, v, x)
    BY <2>1, <2>2 DEF Puts
  <2> QED
    BY <2>3 DEF PutsGood
<1>3. ASSUME NEW n \in 1 .. max, NEW S, PutsGood(0, q, n - 1, S)
      PROVE  PutsGood(0, q, n, PutsStep(0, n, S))
  <2>1. ASSUME NEW y \in PutsStep(0, n, S)
        PROVE  Puts(L, F, v, y)
    <3>1. PICK x \in S : y \in IF x.res = "again" THEN PutsUnit(x.v, x.val) ELSE {x}
      BY <2>1 DEF PutsStep
    <3>2. Puts(L, F, v, x)
      BY <1>3 DEF PutsGood
    <3>3. CASE x.res = "again"
      BY <3>1, <3>2, <3>3, PutsUnitPuts
    <3> QED
      BY <3>1, <3>2, <3>3
  <2> QED
    BY <2>1 DEF PutsGood
<1>4. max \in Nat /\ max \in 0 .. max
  BY LenProperties
<1> HIDE DEF base, q, max
<1>5. \A n \in 0 .. max : PutsGood(0, q, n, PutsLoop!Recursive(0, base, max)[n])
  BY <1>2, <1>3, <1>4, PutsLoop!RecursionInduction
<1>6. Puts(L, F, v, r) /\ r.res # "again"
  BY <1>1, <1>4, <1>5 DEF PutsGood, q
<1> QED
  BY <1>6

--------------------------------------------------------------------------------
\* f_sync and f_close.
UpdateEntryReady(L, F, v, w) ==
  /\ Ready(L, F, w) /\ Counted(L, w) /\ LibFree(L, w) = LibFree(L, v) /\ w.fp = v.fp

\* f_sync puts the chain of the open file into its entry.
LEMMA UpdateEntrySound ==
  ASSUME NEW L \in Geometries, NEW F, NEW v, InUse(L, F, v),
         v.fs.winsect = v.fp.dir_sect
  PROVE  UpdateEntryReady(L, F, v, UpdateEntry(v))
<1> DEFINE dp == [dptr |-> v.fp.dir_ptr]
           e == EntryAt(v, dp)
           clst == v.fp.sclust
           size == v.fp.objsize
           new == [e EXCEPT !.clst = clst, !.size = size]
           w == PutEntry(v, dp, new)
<1>1. /\ Ready(L, F, v) /\ Counted(L, v) /\ clst \in Nat /\ size \in Nat
      /\ (size > 0 => clst # 0) /\ v.fp.dir_ptr \in Nat
  BY DEF InUse, FpFits, IsFile
<1>2. dp.dptr \in Nat /\ dp.dptr = v.fp.dir_ptr
  BY <1>1
<1>9. /\ v.fs.winsect \in PlainSectors(L) /\ dp.dptr \in Slots
      /\ LibName(v) \in Names(L)
  BY <1>2 DEF InUse, Ready, Sound, Linked, NameKept
<1>10. dp.dptr % DirEntries = dp.dptr
  BY <1>9, Constants DEF Slots
<1>11. e.name \in Names(L)
  BY <1>2, <1>9, <1>10 DEF LibName, EntryAt
<1>3. UpdateEntry(v) = w
  BY DEF UpdateEntry
<1> HIDE DEF dp
<1>4. IsEntry(e)
  BY <1>1, <1>2, <1>9, Tables, EntrySectors
<1> HIDE DEF e, clst, size
<1>5. IsEntry(new)
  BY <1>1, <1>4, Entries
<1>12. new.name \in Names(L) /\ new.clst = v.fp.sclust
  BY <1>4, <1>11 DEF IsEntry, clst
<1> HIDE DEF new
<1>13. MayHold(L, v, dp.dptr % DirEntries, new)
  BY <1>2, <1>10, <1>12 DEF MayHold, Live, Names
<1>6. Ready(L, F, w) /\ SameFat(L, v, w)
  BY <1>1, <1>2, <1>5, <1>9, <1>13, EntrySectors
<1> HIDE DEF w
<1>7. LibFree(L, w) = LibFree(L, v) /\ Counted(L, w)
  BY <1>1, <1>6, SameFatCounted
<1> QED
  BY <1>3, <1>6, <1>7 DEF UpdateEntryReady, SameFat, SameRest

\* What f_sync leaves as it is.
SameFile(p, q) == q.open = p.open /\ q.err = p.err /\ q.objsize = p.objsize
Flushed(L, v, w) ==
  /\ SomeSound(L, w) /\ Mounted(L, w.fs) /\ Counted(L, w)
  /\ LibFree(L, w) = LibFree(L, v) /\ FpFits(L, w.fp) /\ SameFile(v.fp, w.fp)
Flushes(L, v, r) ==
  /\ r.res # "again"
  /\ IF r.res = "cut" THEN SomeSound(L, r.v) /\ Off(r.v) ELSE Flushed(L, v, r.v)

\* f_sync of a file that was modified.
LEMMA SyncModifiedFlushes ==
  ASSUME NEW L \in Geometries, NEW F, NEW v, InUse(L, F, v)
  PROVE  \A r \in SyncModified(v) : Flushes(L, v, r)
<1> TAKE r \in SyncModified(v)
<1> DEFINE Forget(z) == IF z.res = "cut" THEN z ELSE [z EXCEPT !.v.fp.modified = FALSE]
           Go(u) == UNION {IF y.res = "FR_OK"
                           THEN {Forget(z) : z \in sync_fs(UpdateEntry(y.v))} ELSE {y}
                           : y \in move_window(u, v.fp.dir_sect)}
<1>1. PICK q \in WriteBack(v) : r \in IF q.res = "FR_OK" THEN Go(q.v) ELSE {q}
  BY DEF SyncModified, Then
<1>2. \A u, x : x \in Go(u) =>
        \E y \in move_window(u, v.fp.dir_sect) :
          x \in IF y.res = "FR_OK" THEN {Forget(z) : z \in sync_fs(UpdateEntry(y.v))}
                ELSE {y}
  OBVIOUS
<1> HIDE DEF Go
<1>3. WroteBack(L, F, v, q)
  BY <1>1, WriteBackWrites DEF InUse
<1>4. CASE q.res = "cut"
  BY <1>1, <1>3, <1>4 DEF WroteBack, Handles, Flushes, SomeSound
<1>5. CASE q.res # "cut"
  <2>1. /\ FpFits(L, v.fp) /\ v.fp.open /\ IsFile(v.fp)
    BY DEF InUse, FpFits
  <2>2. /\ FpFits(L, CleanFp(v.fp)) /\ SameFile(v.fp, CleanFp(v.fp))
        /\ CleanFp(v.fp).open = v.fp.open
    BY <2>1, CleanFits DEF SameFile
  <2>3. /\ Ready(L, F, q.v) /\ Counted(L, q.v) /\ q.v.fp \in {v.fp, CleanFp(v.fp)}
        /\ LibFree(L, q.v) = LibFree(L, v) /\ q.res # "again"
    BY <1>3, <1>5 DEF WroteBack, Handles, Ready
  <2>4. InUse(L, F, q.v) /\ SameFile(v.fp, q.v.fp)
    BY <2>1, <2>2, <2>3 DEF InUse, SameFile
  <2>5. ASSUME NEW y, Ready(L, F, y.v), Counted(L, y.v), LibFree(L, y.v) = LibFree(L, q.v),
               y.v.fp = q.v.fp, y.res \notin {"cut", "again"}
        PROVE  Flushes(L, v, y)
    BY <2>3, <2>4, <2>5 DEF Flushes, Flushed, SomeSound, Ready, InUse
  <2>6. CASE q.res # "FR_OK"
    BY <1>1, <1>5, <2>3, <2>5, <2>6
  <2>7. CASE q.res = "FR_OK"
    <3>1. PICK y \in move_window(q.v, v.fp.dir_sect) :
            r \in IF y.res = "FR_OK" THEN {Forget(z) : z \in sync_fs(UpdateEntry(y.v))}
                  ELSE {y}
      BY <1>1, <1>2, <2>7
    <3>2. v.fp.dir_sect \in PlainSectors(L) /\ v.fp.dir_sect \in Sectors(L)
      BY <2>1, Regions DEF FpFits
    <3>3. Moved(L, F, q.v, v.fp.dir_sect, y)
      BY <2>3, <3>1, <3>2, MoveWindowQuiet DEF Ready
    <3>4. Quiet(L, F, q.v, y) /\ y.res # "again"
          /\ (y.res = "FR_OK" => y.v.fs.winsect = v.fp.dir_sect)
      BY <3>3 DEF Moved
    <3>5. CASE y.res = "cut"
      BY <3>1, <3>4, <3>5 DEF Quiet, Flushes, SomeSound
    <3>6. CASE y.res # "cut"
      <4>1. /\ Ready(L, F, y.v) /\ Counted(L, y.v) /\ LibFree(L, y.v) = LibFree(L, q.v)
            /\ y.v.fp = q.v.fp
        BY <2>3, <3>4, <3>6, QuietCounted, QuietReady DEF Same, SameRest
      <4>2. CASE y.res # "FR_OK"
        BY <2>5, <3>1, <3>4, <3>6, <4>1, <4>2
      <4>3. CASE y.res = "FR_OK"
        <5> DEFINE w == UpdateEntry(y.v)
        <5>1. PICK z \in sync_fs(w) : r = Forget(z)
          BY <3>1, <4>3
        <5>2. InUse(L, F, y.v) /\ y.v.fs.winsect = y.v.fp.dir_sect
          <6>1. q.v.fp.dir_sect = v.fp.dir_sect
            BY <2>1, <2>3, CleanFits
          <6> QED
            BY <2>4, <3>4, <4>1, <4>3, <6>1 DEF InUse
        <5>3. UpdateEntryReady(L, F, y.v, w)
          BY <5>2, UpdateEntrySound
        <5> HIDE DEF w
        <5>4. /\ Ready(L, F, w) /\ Counted(L, w) /\ LibFree(L, w) = LibFree(L, q.v)
              /\ w.fp = q.v.fp
          BY <4>1, <5>3 DEF UpdateEntryReady
        <5>5. Settled(L, w, z) /\ (z.res # "cut" => LibFree(L, z.v) = LibFree(L, w))
          BY <5>1, <5>4, SyncFs
        <5>6. CASE z.res = "cut"
          BY <5>1, <5>5, <5>6 DEF Settled, Flushes
        <5>7. CASE z.res # "cut"
          <6> DEFINE e == WithModified(z.v.fp, FALSE)
          <6>1. PICK G : Sound(L, G, z.v)
            BY <5>5 DEF Settled, SomeSound
          <6>2. /\ Ready(L, G, z.v) /\ Counted(L, z.v) /\ z.v.fp = q.v.fp /\ z.res # "again"
                /\ LibFree(L, z.v) = LibFree(L, q.v)
            BY <5>4, <5>5, <5>7, <6>1 DEF Settled, Ready
          <6>3. r = [z EXCEPT !.v.fp.modified = FALSE]
            BY <5>1, <5>7
          <6>4. r.v = [z.v EXCEPT !.fp.modified = FALSE] /\ r.res = z.res
            BY <6>3
          <6>5. r.v = WithFp(z.v, e)
            BY <6>4 DEF WithFp, WithModified
          <6>6. FpFits(L, e) /\ SameFile(v.fp, e) /\ SameOwner(z.v.fp, e)
            <7>1. FpFits(L, z.v.fp) /\ SameFile(v.fp, z.v.fp)
              BY <2>4, <6>2 DEF InUse
            <7> QED
              BY <7>1, ModifiedFits DEF SameFile
          <6> HIDE DEF e
          <6>7. /\ Ready(L, G, r.v) /\ Counted(L, r.v) /\ r.v.fp = e
                /\ LibFree(L, r.v) = LibFree(L, z.v)
            <7>1. IsFile(e) /\ MayOpen(L, z.v, e)
              BY <6>6 DEF FpFits, MayOpen
            <7> QED
              BY <6>2, <6>5, <7>1, FpSound
          <6>8. Flushed(L, v, r.v)
            BY <2>3, <6>2, <6>6, <6>7 DEF Flushed, SomeSound, Ready
          <6> QED
            BY <5>7, <6>2, <6>4, <6>8 DEF Flushes
        <5> QED
          BY <5>6, <5>7
      <4> QED
        BY <4>2, <4>3
    <3> QED
      BY <3>5, <3>6
  <2> QED
    BY <2>6, <2>7
<1> QED
  BY <1>4, <1>5

\* f_sync keeps the volume sound and mounted, and its file as it is.
LEMMA FSync ==
  ASSUME NEW L \in Geometries, NEW F, NEW v, InUse(L, F, v)
  PROVE  \A r \in f_sync(v) : Flushes(L, v, r)
<1> TAKE r \in f_sync(v)
<1>1. PICK m \in validate(v) :
        r \in IF m.res = "FR_OK"
              THEN IF m.v.fp.modified THEN SyncModified(m.v) ELSE Return(m.v, 0)
              ELSE {m}
  BY DEF f_sync, Then
<1>2. m.v = v /\ m.res = "FR_OK"
  BY Validate
<1>3. r \in IF v.fp.modified THEN SyncModified(v) ELSE Return(v, 0)
  BY <1>1, <1>2
<1>4. CASE v.fp.modified
  BY <1>3, <1>4, SyncModifiedFlushes
<1>5. CASE ~v.fp.modified
  <2>1. r.v = v /\ r.res = "FR_OK"
    BY <1>3, <1>5, Returned
  <2>2. Flushed(L, v, v)
    BY DEF Flushed, SomeSound, InUse, Ready, SameFile
  <2> QED
    BY <2>1, <2>2 DEF Flushes
<1> QED
  BY <1>4, <1>5

\* A file that is not in use any more.
WithOpen(p, open) == [p EXCEPT !.open = open]
Closes(L, v, r) ==
  /\ r.res # "again"
  /\ IF r.res = "cut" THEN SomeSound(L, r.v) /\ Off(r.v)
     ELSE /\ SomeSound(L, r.v) /\ Mounted(L, r.v.fs) /\ Counted(L, r.v)
          /\ LibFree(L, r.v) = LibFree(L, v) /\ FpFits(L, r.v.fp)
          /\ r.v.fp.err = v.fp.err

\* A FIL object that is closed stays one of its file.
LEMMA NotOpenFits ==
  ASSUME NEW L, NEW p, FpFits(L, p)
  PROVE  LET q == WithOpen(p, FALSE) IN  FpFits(L, q) /\ SameOwner(p, q) /\ q.err = p.err
<1> DEFINE q == WithOpen(p, FALSE)
<1>1. IsFile(p) /\ p.objsize \in Nat
  BY DEF FpFits, IsFile
<1>2. /\ IsFile(q) /\ q.clust = p.clust /\ q.sclust = p.sclust /\ q.fptr = p.fptr
      /\ q.objsize = p.objsize /\ q.err = p.err /\ ~q.open /\ q.dirty = p.dirty
      /\ q.sect = p.sect /\ q.dir_sect = p.dir_sect /\ q.dir_ptr = p.dir_ptr
  BY <1>1 DEF WithOpen, IsFile
<1> HIDE DEF q
<1>3. FpFits(L, q) /\ SameOwner(p, q)
  BY <1>1, <1>2 DEF FpFits, SameOwner
<1> QED
  BY <1>2, <1>3 DEF q

\* f_close keeps the volume sound and mounted, and what is free.
LEMMA FClose ==
  ASSUME NEW L \in Geometries, NEW F, NEW v, InUse(L, F, v)
  PROVE  \A r \in f_close(v) : Closes(L, v, r)
<1> TAKE r \in f_close(v)
<1>1. PICK q \in f_sync(v) :
        r \in IF q.res = "FR_OK" THEN Return([q.v EXCEPT !.fp.open = FALSE], 0) ELSE {q}
  BY DEF f_close, Then
<1>2. Flushes(L, v, q)
  BY <1>1, FSync
<1>3. CASE q.res # "FR_OK"
  BY <1>1, <1>2, <1>3 DEF Flushes, Flushed, SameFile, Closes
<1>4. CASE q.res = "FR_OK"
  <2> DEFINE e == WithOpen(q.v.fp, FALSE)
  <2>1. r.v = [q.v EXCEPT !.fp.open = FALSE] /\ r.res = "FR_OK"
    BY <1>1, <1>4, Returned
  <2>2. r.v = WithFp(q.v, e)
    BY <2>1 DEF WithFp, WithOpen
  <2>3. Flushed(L, v, q.v)
    BY <1>2, <1>4 DEF Flushes
  <2>4. PICK G : Ready(L, G, q.v) /\ Counted(L, q.v)
    BY <2>3 DEF Flushed, SomeSound, Ready
  <2>5. FpFits(L, e) /\ e.err = q.v.fp.err /\ SameOwner(q.v.fp, e)
    BY <2>3, NotOpenFits DEF Flushed
  <2> HIDE DEF e
  <2>6. /\ Ready(L, G, r.v) /\ Counted(L, r.v) /\ r.v.fp = e
        /\ LibFree(L, r.v) = LibFree(L, q.v)
    <3>1. IsFile(e) /\ MayOpen(L, q.v, e)
      BY <2>5 DEF FpFits, MayOpen
    <3> QED
      BY <2>2, <2>4, <3>1, FpSound
  <2> QED
    BY <2>1, <2>3, <2>5, <2>6 DEF Closes, Flushed, SameFile, SomeSound, Ready
<1> QED
  BY <1>3, <1>4

--------------------------------------------------------------------------------
\* The invariant, of the volume v, the phase ph and the cells c of the file: it is sound,
\* mounted from f_mount on, and the file is open and as long as c from f_open on; before
\* f_mount, and after f_unmount, RAM has nothing.  Inductive with CutShort, that says what
\* is known while a line is cut short.
InUsePhases == {"receive", "put", "print", "sync", "close"}
Phases == InUsePhases \cup {"mount", "mkdir", "open", "unmount", "suspended", "parked"}

VolumeHolds(L, v, ph, c) ==
  /\ SomeSound(L, v) /\ FpFits(L, v.fp) /\ Counted(L, v)
  /\ ph \in Phases
  /\ ph \in InUsePhases \cup {"mkdir", "open"} => Mounted(L, v.fs)
  /\ ph \in InUsePhases => v.fp.open /\ v.fp.objsize = Len(c)
  /\ ph \in {"mkdir", "open"} => v.fp = Closed
  /\ ph \in {"mount", "suspended", "parked"} => Off(v)
  /\ \E T : c \in Seq(T)

CutShort(L, v, ph) ==
  /\ ph \in InUsePhases \cup {"unmount"}
  /\ v.fp.err # "FR_OK" \/ LibFree(L, v) = {}

VolumeInv ==
  \E L \in Geometries : /\ L.name = Name
                        /\ VolumeHolds(L, Volume, phase, content)
                        /\ stuck => CutShort(L, Volume, phase)

\* A cleared FIL object fits every volume.
LEMMA ClosedFits ==
  ASSUME NEW L \in Geometries
  PROVE  FpFits(L, Closed)
<1>1. 0 % SS = 0
  BY Constants
<1>2. /\ IsFile(Closed) /\ Closed.objsize = 0 /\ Closed.fptr = 0 /\ Closed.dirty = FALSE
      /\ Closed.open = FALSE /\ Closed.err = "FR_OK"
  BY DEF Closed, IsFile
<1> QED
  BY <1>1, <1>2 DEF FpFits

\* Nothing in RAM.
LEMMA OffHolds ==
  ASSUME NEW L \in Geometries, NEW w, SomeSound(L, w), Off(w),
         NEW ph \in {"mount", "suspended", "parked"}, NEW c, \E T : c \in Seq(T)
  PROVE  VolumeHolds(L, w, ph, c)
<1>1. Counted(L, w)
  <2>1. w.fs.free_clst = MaxDword
    BY NoFatFs DEF Off
  <2> QED
    BY <2>1, Constants DEF Counted
<1>2. FpFits(L, w.fp)
  BY ClosedFits DEF Off
<1> QED
  BY <1>1, <1>2 DEF VolumeHolds, Phases, InUsePhases

\* The volume of the next state is the one that an action says.
LEMMA VolumeBecomes ==
  ASSUME NEW L, NEW w, SomeSound(L, w), Becomes(w)
  PROVE  Volume' = w
BY DEF SomeSound, Sound, Shape, IsVolume, Becomes, Volume

\* What each kind of step leaves.
LEMMA HoldsNext ==
  ASSUME NEW L \in Geometries, L.name = Name, NEW w, Becomes(w), 
         VolumeHolds(L, w, phase', content'), stuck' => CutShort(L, w, phase')
  PROVE  VolumeInv'
<1>1. Volume' = w
  BY VolumeBecomes DEF VolumeHolds
<1> QED
  BY <1>1 DEF VolumeInv, Name, Becomes

\* The task after a loss of power, or without its card.
LEMMA LostKeeps ==
  ASSUME NEW L \in Geometries, L.name = Name, NEW w, SomeSound(L, w), Off(w), NEW T,
         content \in Seq(T), NEW next \in {"mount", "suspended"}, Lost(w, next)
  PROVE  VolumeInv'
<1>1. Becomes(w) /\ phase' = next /\ stuck' = FALSE /\ content' = content
  BY DEF Lost
<1>2. VolumeHolds(L, w, phase', content')
  BY <1>1, OffHolds
<1> QED
  BY <1>1, <1>2, HoldsNext

\* A power cut in an operation.
LEMMA CutKeeps ==
  ASSUME NEW L \in Geometries, L.name = Name, NEW results, NEW T, content \in Seq(T),
         Cut(results),
         \A r \in results : r.res = "cut" => SomeSound(L, r.v) /\ Off(r.v)
  PROVE  VolumeInv'
<1>1. PICK r \in results : r.res = "cut" /\ Lost(r.v, "mount")
  BY DEF Cut
<1> QED
  BY <1>1, LostKeeps

\* An operation after which the task suspends itself.
LEMMA ParksKeeps ==
  ASSUME NEW L \in Geometries, L.name = Name, NEW results, NEW ok, NEW T,
         content \in Seq(T), ~stuck, Parks(results, ok), \A r \in results : SomeSound(L, r.v)
  PROVE  VolumeInv'
<1>1. PICK r \in results : /\ Becomes(f_unmount(r.v)) /\ phase' = "parked"
                           /\ content' = content /\ stuck' = stuck
  BY DEF Parks
<1>2. SomeSound(L, f_unmount(r.v)) /\ Off(f_unmount(r.v))
  BY FUnmount DEF SomeSound
<1>3. VolumeHolds(L, f_unmount(r.v), phase', content')
  BY <1>1, <1>2, OffHolds
<1> QED
  BY <1>1, <1>3, HoldsNext

\* An operation that the task goes on after.
LEMMA PassesKeeps ==
  ASSUME NEW L \in Geometries, L.name = Name, NEW results, NEW next \in {"mkdir", "open"},
         NEW ok, NEW T, content \in Seq(T), ~stuck, Passes(results, ok, next),
         \A r \in results : r.res \in ok =>
           /\ SomeSound(L, r.v) /\ r.v.fp = Closed /\ Mounted(L, r.v.fs)
           /\ Counted(L, r.v)
  PROVE  VolumeInv'
<1>1. PICK r \in results : /\ r.res \in ok /\ Becomes(r.v) /\ phase' = next
                           /\ content' = content /\ stuck' = stuck
  BY DEF Passes, history
<1>2. VolumeHolds(L, r.v, phase', content')
  BY <1>1, ClosedFits DEF VolumeHolds, Phases, InUsePhases
<1> QED
  BY <1>1, <1>2, HoldsNext

\* The state before a step.
LEMMA HoldsNow ==
  ASSUME VolumeInv
  PROVE  \E L \in Geometries : \E F, T :
           /\ L.name = Name /\ Sound(L, F, Volume) /\ FpFits(L, fp) /\ Counted(L, Volume)
           /\ content \in Seq(T) /\ Volume.fp = fp
           /\ phase \in {"mkdir", "open"} => Ready(L, F, Volume)
           /\ phase \in {"mount", "mkdir", "open"} => fp = Closed
           /\ phase \in InUsePhases =>
                InUse(L, F, Volume) /\ fp.objsize = Len(content)
           /\ stuck => CutShort(L, Volume, phase)
<1>1. PICK L \in Geometries : /\ L.name = Name /\ VolumeHolds(L, Volume, phase, content)
                              /\ stuck => CutShort(L, Volume, phase)
  BY DEF VolumeInv
<1>2. Volume.fp = fp
  BY DEF Volume
<1>3. PICK F, T : Sound(L, F, Volume) /\ content \in Seq(T)
  BY <1>1 DEF VolumeHolds, SomeSound
<1>4. phase \in InUsePhases \cup {"mkdir", "open"} => Ready(L, F, Volume)
  BY <1>1, <1>3 DEF VolumeHolds, Ready
<1>5. phase \in {"mount", "mkdir", "open"} => fp = Closed
  BY <1>1, <1>2 DEF VolumeHolds, Off
<1> QED
  BY <1>1, <1>2, <1>3, <1>4, <1>5 DEF VolumeHolds, InUse

\* No line is cut short before a file is open.
LEMMA NotStuck ==
  ASSUME NEW L, stuck => CutShort(L, Volume, phase), phase \in {"mount", "mkdir", "open"}
  PROVE  ~stuck
BY DEF CutShort, InUsePhases

\* The task calls f_mount.
LEMMA MountKeeps == VolumeInv /\ Mount => VolumeInv'
<1> SUFFICES ASSUME VolumeInv, Mount PROVE VolumeInv'
  OBVIOUS
<1> DEFINE results == f_mount(Volume)
           next == IF task = "sd_task" THEN "open" ELSE "mkdir"
<1>1. PICK L \in Geometries : \E F, T :
        /\ L.name = Name /\ Sound(L, F, Volume) /\ content \in Seq(T)
        /\ Volume.fp = Closed /\ (stuck => CutShort(L, Volume, phase))
  BY HoldsNow DEF Mount
<1>2. PICK F, T : Sound(L, F, Volume) /\ content \in Seq(T)
  BY <1>1
<1>3. ~stuck
  BY <1>1, NotStuck DEF Mount
<1>4. \A r \in results : Mounts(L, F, Volume, r)
  BY <1>1, <1>2, FMount
<1>5. Passes(results, {"FR_OK"}, next) \/ Parks(results, {"FR_OK"})
  BY DEF Mount
<1>6. next \in {"mkdir", "open"}
  OBVIOUS
<1> HIDE DEF results, next
<1>7. CASE Passes(results, {"FR_OK"}, next)
  <2>1. \A r \in results : r.res \in {"FR_OK"} =>
          /\ SomeSound(L, r.v) /\ r.v.fp = Closed /\ Mounted(L, r.v.fs)
          /\ Counted(L, r.v)
    BY <1>1, <1>4 DEF Mounts, SomeSound
  <2> QED
    BY <1>1, <1>2, <1>3, <1>6, <1>7, <2>1, PassesKeeps
<1>8. CASE Parks(results, {"FR_OK"})
  <2>1. \A r \in results : SomeSound(L, r.v)
    BY <1>4 DEF Mounts, SomeSound
  <2> QED
    BY <1>1, <1>2, <1>3, <1>8, <2>1, ParksKeeps
<1> QED
  BY <1>5, <1>7, <1>8

\* The task calls f_mkdir.
LEMMA MakeLogsKeeps == VolumeInv /\ MakeLogs => VolumeInv'
<1> SUFFICES ASSUME VolumeInv, MakeLogs PROVE VolumeInv'
  OBVIOUS
<1> DEFINE results == f_mkdir(Volume)
           ok == {"FR_OK", "FR_EXIST"}
<1>1. PICK L \in Geometries : \E F, T :
        /\ L.name = Name /\ Ready(L, F, Volume) /\ Counted(L, Volume)
        /\ content \in Seq(T) /\ Volume.fp = Closed
        /\ stuck => CutShort(L, Volume, phase)
  BY HoldsNow DEF MakeLogs
<1>2. PICK F, T : Ready(L, F, Volume) /\ content \in Seq(T)
  BY <1>1
<1>3. ~stuck
  BY <1>1, NotStuck DEF MakeLogs
<1>4. \A r \in results : Settled(L, Volume, r)
  <2>1. ~Volume.fp.open
    BY <1>1 DEF Closed
  <2> QED
    BY <1>1, <1>2, <2>1, FMkdir
<1>5. Passes(results, ok, "open") \/ Parks(results, ok) \/ Cut(results)
  BY DEF MakeLogs
<1> HIDE DEF results
<1>6. CASE Passes(results, ok, "open")
  <2>1. \A r \in results : r.res \in ok =>
          /\ SomeSound(L, r.v) /\ r.v.fp = Closed /\ Mounted(L, r.v.fs)
          /\ Counted(L, r.v)
    BY <1>1, <1>4 DEF Settled
  <2> HIDE DEF ok
  <2> QED
    BY <1>1, <1>2, <1>3, <1>6, <2>1, PassesKeeps
<1>7. \A r \in results : SomeSound(L, r.v) /\ (r.res = "cut" => Off(r.v))
  BY <1>4 DEF Settled
<1> HIDE DEF ok
<1>8. CASE Parks(results, ok)
  BY <1>1, <1>2, <1>3, <1>7, <1>8, ParksKeeps
<1>9. CASE Cut(results)
  BY <1>1, <1>2, <1>7, <1>9, CutKeeps
<1> QED
  BY <1>5, <1>6, <1>8, <1>9

\* The task calls f_open.
LEMMA OpenKeeps == VolumeInv /\ Open => VolumeInv'
<1> SUFFICES ASSUME VolumeInv, Open PROVE VolumeInv'
  OBVIOUS
<1> DEFINE results == f_open(Volume, Name)
           ok == {"FR_OK"}
<1>1. PICK L \in Geometries : \E F, T :
        /\ L.name = Name /\ Ready(L, F, Volume) /\ Counted(L, Volume)
        /\ Volume.fp = Closed
        /\ content \in Seq(T) /\ (stuck => CutShort(L, Volume, phase))
  BY HoldsNow DEF Open
<1>2. PICK F, T : Ready(L, F, Volume) /\ content \in Seq(T)
  BY <1>1
<1>3. ~stuck
  BY <1>1, NotStuck DEF Open
<1>4. \A r \in results : Opened(L, F, Volume, r)
  <2>1. ~Volume.fp.open
    BY <1>1 DEF Closed
  <2> QED
    BY <1>1, <1>2, <2>1, FOpen
<1>5. \/ \E r \in results :
           /\ r.res = "FR_OK" /\ Becomes(r.v) /\ phase' \in {"print", "receive"}
           /\ content' = SubSeq(content, 1, r.v.fp.objsize) /\ stuck' = stuck
      \/ Parks(results, ok)
      \/ Cut(results)
  BY DEF Open
<1> HIDE DEF results, ok
<1>6. \A r \in results : SomeSound(L, r.v) /\ (r.res = "cut" => Off(r.v))
  BY <1>4 DEF Opened, Handles, SomeSound
<1>7. ASSUME NEW r \in results, r.res = "FR_OK", Becomes(r.v),
             phase' \in {"print", "receive"},
             content' = SubSeq(content, 1, r.v.fp.objsize), stuck' = stuck
      PROVE  VolumeInv'
  <2> DEFINE n == r.v.fp.objsize
             S == {content[i] : i \in 1 .. n}
  <2>1. /\ SomeSound(L, r.v) /\ FpFits(L, r.v.fp) /\ r.v.fp.open /\ Mounted(L, r.v.fs)
        /\ Counted(L, r.v)
    BY <1>4, <1>7 DEF Opened, Handles, SomeSound
  <2>2. n \in Nat
    BY <2>1 DEF FpFits, IsFile
  <2>3. content' = SubSeq(content, 1, n)
    BY <1>7
  <2> HIDE DEF n
  <2>4. content' = [i \in 1 .. n |-> content[i]]
    BY <2>2, <2>3
  <2>5. content' \in Seq(S) /\ Len(content') = n
    BY <2>2, <2>4
  <2>6. VolumeHolds(L, r.v, phase', content')
    BY <1>7, <2>1, <2>5 DEF VolumeHolds, Phases, InUsePhases, n
  <2> QED
    BY <1>1, <1>3, <1>7, <2>6, HoldsNext
<1>8. CASE Parks(results, ok)
  BY <1>1, <1>2, <1>3, <1>6, <1>8, ParksKeeps
<1>9. CASE Cut(results)
  BY <1>1, <1>2, <1>6, <1>9, CutKeeps
<1> QED
  BY <1>5, <1>7, <1>8, <1>9

\* The task writes a line.
LEMMA PutKeeps ==
  ASSUME VolumeInv, phase \in InUsePhases, NEW size \in Nat, NEW next \in {"put", "sync"},
         Put(size, next)
  PROVE  VolumeInv'
<1> DEFINE written == Len(content)
           str == [i \in 1 .. size |-> Stamp(written + i)]
           results == f_puts(Volume, str)
           More(r) == [i \in 1 .. r.v.fp.objsize - written |-> Stamp(written + i)]
<1>1. PICK L \in Geometries : \E F, T :
        /\ L.name = Name /\ InUse(L, F, Volume) /\ fp.objsize = Len(content) /\ content \in Seq(T)
        /\ Volume.fp = fp
  BY HoldsNow
<1>2. PICK F, T : InUse(L, F, Volume) /\ content \in Seq(T)
  BY <1>1
<1>3. written \in Nat
  BY <1>2
<1>4. \/ \E r \in results :
           /\ r.res = "FR_OK" /\ Becomes(r.v) /\ phase' = next
           /\ content' = content \o More(r) /\ stuck' = ~r.val
      \/ Cut(results)
  BY DEF Put
<1> HIDE DEF written
<1>5. \A i \in Nat : Stamp(i) \in Int
  <2>1. resets \in Nat /\ MaxResets \in Nat
    BY <1>2, Constants DEF InUse, Ready, Sound, Shape, IsVolume, Volume
  <2>2. \A i \in Nat : i * (MaxResets + 1) \in Int
    BY <2>1
  <2> QED
    BY <2>1, <2>2 DEF Stamp
<1>6. \A n \in Nat : [i \in 1 .. n |-> Stamp(written + i)] \in Seq(Int)
  <2> TAKE n \in Nat
  <2>1. \A i \in 1 .. n : Stamp(written + i) \in Int
    BY <1>3, <1>5
  <2> QED
    BY <2>1
<1>7. str \in Seq(Int)
  BY <1>6
<1> HIDE DEF str
<1>8. \A r \in results : Puts(L, F, Volume, r) /\ r.res # "again"
  BY <1>2, <1>7, FPuts
<1> HIDE DEF results
<1>9. ASSUME NEW r \in results, r.res = "FR_OK", Becomes(r.v), phase' = next,
             content' = content \o More(r), stuck' = ~r.val
      PROVE  VolumeInv'
  <2> DEFINE n == r.v.fp.objsize - written
  <2>1. /\ InUse(L, F, r.v) /\ r.v.fp.objsize >= written
        /\ r.val \/ r.v.fp.err # "FR_OK" \/ LibFree(L, r.v) = {}
    BY <1>1, <1>8, <1>9 DEF Puts, Longer, written
  <2>2. r.v.fp.objsize \in Nat
    BY <2>1 DEF InUse, FpFits, IsFile
  <2>3. n \in Nat
    BY <1>3, <2>1, <2>2
  <2>4. More(r) = [i \in 1 .. n |-> Stamp(written + i)]
    OBVIOUS
  <2>5. More(r) \in Seq(Int) /\ Len(More(r)) = n
    <3> HIDE DEF n, More
    <3>1. [i \in 1 .. n |-> Stamp(written + i)] \in Seq(Int)
      BY <1>6, <2>3
    <3>2. Len([i \in 1 .. n |-> Stamp(written + i)]) = n
      BY <2>3
    <3> QED
      BY <2>4, <3>1, <3>2
  <2> HIDE DEF More
  <2>6. content' \in Seq(T \cup Int)
    <3>1. content \in Seq(T \cup Int) /\ More(r) \in Seq(T \cup Int)
      BY <1>2, <2>5
    <3> QED
      BY <1>9, <3>1
  <2>7. Len(content') = r.v.fp.objsize
    <3>1. Len(content') = written + n
      BY <1>2, <1>9, <2>5 DEF written
    <3> QED
      BY <1>3, <2>2, <3>1
  <2>8. VolumeHolds(L, r.v, phase', content')
    BY <1>9, <2>1, <2>6, <2>7 DEF VolumeHolds, Phases, InUsePhases, InUse, Ready, SomeSound
  <2>9. stuck' => CutShort(L, r.v, phase')
    BY <1>9, <2>1 DEF CutShort, InUsePhases
  <2> QED
    BY <1>1, <1>9, <2>8, <2>9, HoldsNext
<1>10. CASE Cut(results)
  <2>1. \A r \in results : r.res = "cut" => SomeSound(L, r.v) /\ Off(r.v)
    BY <1>8 DEF Puts, SomeSound
  <2> QED
    BY <1>1, <1>2, <1>10, <2>1, CutKeeps
<1> QED
  BY <1>4, <1>9, <1>10

\* The task calls f_sync.
LEMMA SyncKeeps == VolumeInv /\ Sync => VolumeInv'
<1> SUFFICES ASSUME VolumeInv, Sync PROVE VolumeInv'
  OBVIOUS
<1> DEFINE results == f_sync(Volume)
           next == IF task = "sd_task" THEN "close" ELSE "receive"
<1>1. PICK L \in Geometries : \E F, T :
        /\ L.name = Name /\ InUse(L, F, Volume) /\ fp.objsize = Len(content) /\ content \in Seq(T)
        /\ Volume.fp = fp /\ (stuck => CutShort(L, Volume, phase))
  BY HoldsNow DEF Sync, InUsePhases
<1>2. PICK F, T : InUse(L, F, Volume) /\ content \in Seq(T)
  BY <1>1
<1>3. \A r \in results : Flushes(L, Volume, r)
  BY <1>2, FSync
<1>4. \/ \E r \in results : /\ r.res # "cut" /\ Becomes(r.v) /\ phase' = next
                            /\ content' = content /\ stuck' = stuck
      \/ Cut(results)
  BY DEF Sync, Flush
<1>5. next \in {"close", "receive"}
  OBVIOUS
<1> HIDE DEF results, next
<1>6. ASSUME NEW r \in results, r.res # "cut", Becomes(r.v), phase' = next,
             content' = content, stuck' = stuck
      PROVE  VolumeInv'
  <2>1. Flushed(L, Volume, r.v)
    BY <1>3, <1>6 DEF Flushes
  <2>2. /\ SomeSound(L, r.v) /\ Mounted(L, r.v.fs) /\ Counted(L, r.v) /\ FpFits(L, r.v.fp)
        /\ LibFree(L, r.v) = LibFree(L, Volume) /\ r.v.fp.err = Volume.fp.err
        /\ r.v.fp.open /\ r.v.fp.objsize = Len(content)
    BY <1>1, <2>1 DEF Flushed, SameFile, InUse
  <2>3. VolumeHolds(L, r.v, phase', content')
    BY <1>2, <1>5, <1>6, <2>2 DEF VolumeHolds, Phases, InUsePhases
  <2>4. stuck' => CutShort(L, r.v, phase')
    BY <1>1, <1>5, <1>6, <2>2 DEF CutShort, InUsePhases
  <2> QED
    BY <1>1, <1>6, <2>3, <2>4, HoldsNext
<1>7. CASE Cut(results)
  <2>1. \A r \in results : r.res = "cut" => SomeSound(L, r.v) /\ Off(r.v)
    BY <1>3 DEF Flushes
  <2> QED
    BY <1>1, <1>2, <1>7, <2>1, CutKeeps
<1> QED
  BY <1>4, <1>6, <1>7

\* The task calls f_close.
LEMMA CloseKeeps == VolumeInv /\ Close => VolumeInv'
<1> SUFFICES ASSUME VolumeInv, Close PROVE VolumeInv'
  OBVIOUS
<1> DEFINE results == f_close(Volume)
<1>1. PICK L \in Geometries : \E F, T :
        /\ L.name = Name /\ InUse(L, F, Volume) /\ content \in Seq(T)
        /\ Volume.fp = fp /\ (stuck => CutShort(L, Volume, phase))
  BY HoldsNow DEF Close, InUsePhases
<1>2. PICK F, T : InUse(L, F, Volume) /\ content \in Seq(T)
  BY <1>1
<1>3. \A r \in results : Closes(L, Volume, r)
  BY <1>2, FClose
<1>4. \/ \E r \in results : /\ r.res # "cut" /\ Becomes(r.v) /\ phase' = "unmount"
                            /\ content' = content /\ stuck' = stuck
      \/ Cut(results)
  BY DEF Close, Flush
<1> HIDE DEF results
<1>5. ASSUME NEW r \in results, r.res # "cut", Becomes(r.v), phase' = "unmount",
             content' = content, stuck' = stuck
      PROVE  VolumeInv'
  <2>1. /\ SomeSound(L, r.v) /\ Counted(L, r.v) /\ FpFits(L, r.v.fp)
        /\ LibFree(L, r.v) = LibFree(L, Volume) /\ r.v.fp.err = Volume.fp.err
    BY <1>3, <1>5 DEF Closes
  <2>2. VolumeHolds(L, r.v, phase', content')
    BY <1>2, <1>5, <2>1 DEF VolumeHolds, Phases, InUsePhases
  <2>3. stuck' => CutShort(L, r.v, phase')
    BY <1>1, <1>5, <2>1 DEF CutShort
  <2> QED
    BY <1>1, <1>5, <2>2, <2>3, HoldsNext
<1>6. CASE Cut(results)
  <2>1. \A r \in results : r.res = "cut" => SomeSound(L, r.v) /\ Off(r.v)
    BY <1>3 DEF Closes
  <2> QED
    BY <1>1, <1>2, <1>6, <2>1, CutKeeps
<1> QED
  BY <1>4, <1>5, <1>6

\* Every step keeps the invariant.
LEMMA VolumeStep == VolumeInv /\ [Next]_vars => VolumeInv'
<1> SUFFICES ASSUME VolumeInv, [Next]_vars PROVE VolumeInv'
  OBVIOUS
<1>1. PICK L \in Geometries : L.name = Name /\ \E F, T : Sound(L, F, Volume) /\ content \in Seq(T)
  BY HoldsNow
<1>2. PICK F, T : Sound(L, F, Volume) /\ content \in Seq(T)
  BY <1>1
<1>3. CASE Mount
  BY <1>3, MountKeeps
<1>4. CASE MakeLogs
  BY <1>4, MakeLogsKeeps
<1>5. CASE Open
  BY <1>5, OpenKeeps
<1>6. CASE PutNotice
  <2>1. phase \in InUsePhases /\ NoticeSize \in Nat /\ Put(NoticeSize, "put")
    BY <1>6, VolumeAssumption DEF PutNotice, InUsePhases
  <2> QED
    BY <2>1, PutKeeps
<1>7. CASE PutEntryLine
  <2>1. PICK size \in EntrySizes : Put(size, "sync")
    BY <1>7 DEF PutEntryLine
  <2>2. phase \in InUsePhases /\ size \in Nat
    BY <1>7, VolumeAssumption DEF PutEntryLine, InUsePhases
  <2> QED
    BY <2>1, <2>2, PutKeeps
<1>8. CASE PutHello
  <2>1. phase \in InUsePhases /\ Put(PutUnit - 1, "sync")
    BY <1>8 DEF PutHello, InUsePhases
  <2>2. PutUnit - 1 \in Nat
    BY Constants
  <2> QED
    BY <2>1, <2>2, PutKeeps
<1>9. CASE Sync
  BY <1>9, SyncKeeps
<1>10. CASE Close
  BY <1>10, CloseKeeps
<1>11. CASE Unmount
  <2>1. Lost(f_unmount(Volume), "suspended")
    BY <1>11 DEF Unmount
  <2>2. SomeSound(L, f_unmount(Volume)) /\ Off(f_unmount(Volume))
    BY <1>2, FUnmount DEF SomeSound
  <2> QED
    BY <1>1, <1>2, <2>1, <2>2, LostKeeps
<1>12. CASE PowerCut
  <2>1. PICK v \in Cuts(Volume) : Lost(v, "mount")
    BY <1>12 DEF PowerCut
  <2>2. SomeSound(L, v) /\ Off(v)
    BY <1>2, CutSound DEF SomeSound
  <2> QED
    BY <1>1, <1>2, <2>1, <2>2, LostKeeps
<1>13. CASE UNCHANGED vars
  <2>1. Volume' = Volume /\ phase' = phase /\ content' = content /\ stuck' = stuck
    BY <1>13 DEF vars, history, Volume
  <2> QED
    BY <1>13, <2>1 DEF VolumeInv, Name, vars
<1> QED
  BY <1>3, <1>4, <1>5, <1>6, <1>7, <1>8, <1>9, <1>10, <1>11, <1>12, <1>13 DEF Next

--------------------------------------------------------------------------------
\* The cards to start with.
GeometryOf(card) ==
  [fs_type |-> card.fs_type, n_fats |-> card.n_fats, volbase |-> card.start,
   name |-> IF card.task = "sd_task" THEN "HELLO.TXT" ELSE "SYSTEM.LOG"]

\* The parts of a card are what they should be.
LEMMA CardFacts ==
  ASSUME NEW card \in Cards
  PROVE  /\ GeometryOf(card) \in Geometries
         /\ GeometryOf(card).volbase = card.start
         /\ GeometryOf(card).fs_type = card.fs_type
         /\ GeometryOf(card).n_fats = card.n_fats
         /\ card.start \in Nat /\ card.others \in Nat /\ card.hint \in Nat
         /\ card.taken \in Seq(ClusterSet) /\ card.chain \in Seq(ClusterSet)
         /\ card.dir = 0 \/ card.dir \in ClusterSet
         /\ card.size \in Nat /\ (card.size > 0 => card.chain # <<>>)
<1>1. /\ card.fs_type \in {"FAT16", "FAT32"} /\ card.n_fats \in {1, 2}
      /\ card.start \in Nat /\ card.others \in Nat /\ card.hint \in Nat
      /\ card.taken \in Seq(ClusterSet) /\ card.chain \in Seq(ClusterSet)
      /\ card.dir = 0 \/ card.dir \in ClusterSet
      /\ card.size \in 0 .. csize * SS * Len(card.chain)
  BY CardsAssumption DEF ClusterSet
<1>2. card.size \in Nat
  BY <1>1
<1>3. card.chain = <<>> => card.size = 0
  <2> SUFFICES ASSUME card.chain = <<>> PROVE card.size = 0
    OBVIOUS
  <2>1. Len(card.chain) = 0 /\ csize * SS \in Nat
    BY Constants
  <2>2. csize * SS * Len(card.chain) = 0
    BY <2>1
  <2> QED
    BY <1>1, <2>2
<1> QED
  BY <1>1, <1>2, <1>3 DEF GeometryOf, Geometries

\* The chains of such a card, and what its FAT says.
LEMMA CardChains ==
  ASSUME NEW card \in Cards
  PROVE  /\ \A k \in 1 .. 4 : ChainsOf(card)[k] \in Seq(ClusterSet)
         /\ ChainsOf(card)[1] = card.taken /\ ChainsOf(card)[2] = card.chain
         /\ ChainsOf(card)[3] = IF card.dir = 0 THEN <<>> ELSE <<card.dir>>
         /\ ChainsOf(card)[4] = IF card.fs_type = "FAT32" THEN <<2>> ELSE <<>>
<1>1. /\ ChainsOf(card)[1] = card.taken /\ ChainsOf(card)[2] = card.chain
      /\ ChainsOf(card)[3] = IF card.dir = 0 THEN <<>> ELSE <<card.dir>>
      /\ ChainsOf(card)[4] = IF card.fs_type = "FAT32" THEN <<2>> ELSE <<>>
  BY DEF ChainsOf
<1>2. 2 \in ClusterSet /\ <<2>> \in Seq(ClusterSet)
  BY Constants DEF ClusterSet, n_fatent
<1>3. <<>> \in Seq(ClusterSet)
  BY EmptySeq
<1>4. card.dir # 0 => <<card.dir>> \in Seq(ClusterSet)
  BY CardFacts
<1>5. ASSUME NEW k \in 1 .. 4
      PROVE  ChainsOf(card)[k] \in Seq(ClusterSet)
  <2>1. k = 1 \/ k = 2 \/ k = 3 \/ k = 4
    OBVIOUS
  <2> QED
    BY <1>1, <1>2, <1>3, <1>4, <2>1, CardFacts
<1> QED
  BY <1>1, <1>5

\* Cluster c is in the i-th place of the k-th chain.
InPlace(card, k, i, c) == /\ k \in 1 .. 4 /\ i \in DOMAIN ChainsOf(card)[k]
                          /\ ChainsOf(card)[k][i] = c
LinkOf(card, k, i) == IF i = Len(ChainsOf(card)[k]) THEN EOC ELSE ChainsOf(card)[k][i + 1]

\* A cluster of such a card is in one place of one chain.
LEMMA AtOne ==
  ASSUME NEW card \in Cards, NEW k, NEW i, NEW l, NEW j, NEW c,
         InPlace(card, k, i, c), InPlace(card, l, j, c)
  PROVE  k = l /\ i = j
BY CardsAssumption DEF InPlace

\* The FAT of the card says what comes next in that place.
LEMMA FatOfIs ==
  ASSUME NEW card \in Cards, NEW c
  PROVE  /\ (~\E k, i : InPlace(card, k, i, c)) => FatOf(card, c) = 0
         /\ \A k, i : InPlace(card, k, i, c) => FatOf(card, c) = LinkOf(card, k, i)
<1>1. \A k \in 1 .. 4 : InChain(card, k, c) <=> \E i : InPlace(card, k, i, c)
  BY DEF InChain, InPlace
<1>2. ASSUME ~\E k, i : InPlace(card, k, i, c)
      PROVE  FatOf(card, c) = 0
  BY <1>1, <1>2 DEF FatOf
<1>3. ASSUME NEW k, NEW i, InPlace(card, k, i, c)
      PROVE  FatOf(card, c) = LinkOf(card, k, i)
  <2> DEFINE l == CHOOSE m \in 1 .. 4 : InChain(card, m, c)
             s == ChainsOf(card)[l]
             j == CHOOSE m \in DOMAIN s : s[m] = c
  <2>1. k \in 1 .. 4 /\ InChain(card, k, c)
    BY <1>1, <1>3 DEF InPlace
  <2>2. FatOf(card, c) = IF j = Len(s) THEN EOC ELSE s[j + 1]
    BY <2>1 DEF FatOf
  <2>3. l \in 1 .. 4 /\ InChain(card, l, c)
    BY <2>1
  <2> HIDE DEF l
  <2>4. j \in DOMAIN s /\ s[j] = c
    BY <2>3 DEF InChain
  <2> HIDE DEF j
  <2>5. InPlace(card, l, j, c)
    BY <2>3, <2>4 DEF InPlace
  <2>6. l = k /\ j = i
    BY <1>3, <2>5, AtOne
  <2> QED
    BY <2>2, <2>6 DEF LinkOf
<1> QED
  BY <1>2, <1>3

\* From each place of a chain to the next one; the last is marked as such.
LEMMA AtNext ==
  ASSUME NEW card \in Cards, NEW k, NEW i, NEW c, InPlace(card, k, i, c)
  PROVE  /\ k \in 1 .. 4 /\ i \in Nat \ {0} /\ c \in ClusterSet
         /\ \/ LinkOf(card, k, i) = EOC
            \/ /\ LinkOf(card, k, i) \in ClusterSet
               /\ InPlace(card, k, i + 1, LinkOf(card, k, i))
<1> DEFINE s == ChainsOf(card)[k]
<1>1. k \in 1 .. 4 /\ i \in DOMAIN s /\ s[i] = c
  BY DEF InPlace
<1>2. s \in Seq(ClusterSet)
  BY <1>1, CardChains
<1>3. LinkOf(card, k, i) = IF i = Len(s) THEN EOC ELSE s[i + 1]
  BY DEF LinkOf
<1>4. i + 1 \in DOMAIN s <=> InPlace(card, k, i + 1, s[i + 1])
  BY <1>1 DEF InPlace
<1> HIDE DEF s
<1>5. i \in Nat \ {0} /\ c \in ClusterSet
  BY <1>1, <1>2
<1>6. i # Len(s) => i + 1 \in DOMAIN s /\ s[i + 1] \in ClusterSet
  BY <1>1, <1>2
<1> QED
  BY <1>1, <1>3, <1>4, <1>5, <1>6

\* Its entries are links, ends or free.
LEMMA FatOfNat ==
  ASSUME NEW card \in Cards, NEW c
  PROVE  FatOf(card, c) \in Nat /\ FatOf(card, c) \in {0, EOC} \cup ClusterSet
<1>1. FatOf(card, c) \in {0, EOC} \cup ClusterSet
  BY FatOfIs, AtNext
<1>2. EOC \in Nat /\ \A d \in ClusterSet : d \in Nat
  BY Constants, Sizes DEF EOC, ClusterSet
<1> QED
  BY <1>1, <1>2

\* Its links are as they must be, and each chain begins at a head.
LEMMA CardLinks ==
  ASSUME NEW card \in Cards, NEW f, f = [c \in ClusterSet |-> FatOf(card, c)]
  PROVE  /\ Links(f)
         /\ \A k, c : InPlace(card, k, 1, c) => IsHead(f, c)
<1>1. ASSUME NEW c \in ClusterSet
      PROVE  /\ f[c] \in {0, EOC} \cup ClusterSet
             /\ (~\E k, i : InPlace(card, k, i, c)) => f[c] = 0
             /\ \A k, i : InPlace(card, k, i, c) => f[c] = LinkOf(card, k, i)
  BY FatOfNat, FatOfIs
<1>2. ASSUME NEW c \in ClusterSet, f[c] # 0
      PROVE  \E k, i : InPlace(card, k, i, c) /\ f[c] = LinkOf(card, k, i)
  BY <1>1, <1>2
<1>3. ASSUME NEW c \in ClusterSet, f[c] \in ClusterSet
      PROVE  \E k, i : /\ InPlace(card, k, i, c) /\ i \in Nat \ {0}
                       /\ InPlace(card, k, i + 1, f[c])
  <2>1. f[c] # 0 /\ f[c] # EOC
    BY <1>3, NoCluster
  <2>2. PICK k, i : InPlace(card, k, i, c) /\ f[c] = LinkOf(card, k, i)
    BY <1>2, <2>1
  <2> QED
    BY <2>1, <2>2, AtNext
<1>4. ASSUME NEW k, NEW i, NEW c, InPlace(card, k, i, c)
      PROVE  c \in ClusterSet /\ f[c] # 0
  <2>1. c \in ClusterSet /\ LinkOf(card, k, i) # 0
    BY <1>4, AtNext, NoCluster
  <2> QED
    BY <1>1, <1>4, <2>1
<1>5. ASSUME NEW c \in ClusterSet, f[c] \in ClusterSet
      PROVE  f[f[c]] # 0
  BY <1>3, <1>4, <1>5
<1>6. ASSUME NEW c \in ClusterSet, NEW d \in ClusterSet, f[c] = f[d], f[c] \in ClusterSet
      PROVE  c = d
  <2>1. PICK k, i : InPlace(card, k, i, c) /\ i \in Nat \ {0} /\ InPlace(card, k, i + 1, f[c])
    BY <1>3, <1>6
  <2>2. PICK l, j : InPlace(card, l, j, d) /\ j \in Nat \ {0} /\ InPlace(card, l, j + 1, f[d])
    BY <1>3, <1>6
  <2>3. k = l /\ i + 1 = j + 1
    BY <1>6, <2>1, <2>2, AtOne
  <2>4. k = l /\ i = j
    BY <2>1, <2>2, <2>3
  <2> QED
    BY <2>1, <2>2, <2>4 DEF InPlace
<1>7. ASSUME NEW k, NEW c, InPlace(card, k, 1, c)
      PROVE  IsHead(f, c)
  <2>1. c \in ClusterSet /\ f[c] # 0
    BY <1>4, <1>7
  <2>2. ASSUME NEW d \in ClusterSet, f[d] = c
        PROVE  FALSE
    <3>1. PICK l, i : InPlace(card, l, i, d) /\ i \in Nat \ {0} /\ InPlace(card, l, i + 1, c)
      BY <1>3, <2>1, <2>2
    <3>2. 1 = i + 1
      BY <1>7, <3>1, AtOne
    <3> QED
      BY <3>1, <3>2
  <2> QED
    BY <2>1, <2>2 DEF IsHead
<1> QED
  BY <1>1, <1>5, <1>6, <1>7 DEF Links

\* Its directories.
AllEntries(T) == \A e \in T : IsEntry(e)
EntrySeq(es) == \E T : es \in Seq(T) /\ AllEntries(T)

\* A sequence of entries, each of which is one.
LEMMA EntrySeqOf ==
  ASSUME NEW T, NEW es \in Seq(T), AllEntries(T)
  PROVE  EntrySeq(es)
BY DEF EntrySeq

\* The entry of a file or directory is one.
LEMMA NamedIsEntry ==
  ASSUME NEW name, NEW chain \in Seq(ClusterSet), NEW size \in Nat, NEW dir \in BOOLEAN,
         size > 0 => chain # <<>>
  PROVE  IsEntry(Named(name, chain, size, dir)) /\ EntrySeq(<<Named(name, chain, size, dir)>>)
<1> DEFINE clst == IF chain = <<>> THEN 0 ELSE Head(chain)
           e == [name |-> name, clst |-> clst, size |-> size, dir |-> dir]
<1>1. clst \in Nat /\ (size > 0 => clst # 0)
  <2>1. chain # <<>> => Head(chain) \in ClusterSet
    BY HeadTailProperties
  <2>2. \A c \in ClusterSet : c \in Nat /\ c # 0
    BY Sizes DEF ClusterSet
  <2> QED
    BY <2>1, <2>2
<1> HIDE DEF clst
<1>2. IsEntry(e)
  BY <1>1 DEF IsEntry
<1>3. Named(name, chain, size, dir) = e
  BY DEF Named, clst
<1> HIDE DEF e
<1>4. <<e>> \in Seq({e}) /\ AllEntries({e})
  BY <1>2 DEF AllEntries
<1>5. EntrySeq(<<e>>)
  BY <1>4, EntrySeqOf
<1> QED
  BY <1>2, <1>3, <1>5

\* Sequences of entries put together.
LEMMA EntrySeqs ==
  /\ EntrySeq(<<>>)
  /\ \A a, b : EntrySeq(a) /\ EntrySeq(b) => EntrySeq(a \o b)
  /\ \A e : \A n \in Nat : IsEntry(e) => EntrySeq([i \in 1 .. n |-> e])
<1>1. EntrySeq(<<>>)
  <2>1. <<>> \in Seq({}) /\ AllEntries({})
    BY EmptySeq DEF AllEntries
  <2> QED
    BY <2>1, EntrySeqOf
<1>2. ASSUME NEW a, NEW b, EntrySeq(a), EntrySeq(b)
      PROVE  EntrySeq(a \o b)
  <2>1. PICK S : a \in Seq(S) /\ AllEntries(S)
    BY <1>2 DEF EntrySeq
  <2>2. PICK T : b \in Seq(T) /\ AllEntries(T)
    BY <1>2 DEF EntrySeq
  <2>3. a \in Seq(S \cup T) /\ b \in Seq(S \cup T)
    BY <2>1, <2>2
  <2>4. a \o b \in Seq(S \cup T)
    BY <2>3
  <2>5. AllEntries(S \cup T)
    BY <2>1, <2>2 DEF AllEntries
  <2> QED
    BY <2>4, <2>5 DEF EntrySeq
<1>3. ASSUME NEW e, NEW n \in Nat, IsEntry(e)
      PROVE  EntrySeq([i \in 1 .. n |-> e])
  <2>1. [i \in 1 .. n |-> e] \in Seq({e}) /\ AllEntries({e})
    BY <1>3 DEF AllEntries
  <2> QED
    BY <2>1, EntrySeqOf
<1> QED
  BY <1>1, <1>2, <1>3

\* A sector of a directory has a table.
LEMMA DirSectorTable ==
  ASSUME NEW es, EntrySeq(es), NEW n \in Nat
  PROVE  DirSector(es, n).kind = "dir" /\ IsTable(DirSector(es, n).table)
<1> DEFINE At(i) == IF n * DirEntries + i < Len(es) THEN es[n * DirEntries + i + 1]
                    ELSE FreeEntry
           t == [i \in 0 .. DirEntries - 1 |-> At(i)]
<1>1. DirSector(es, n).kind = "dir" /\ DirSector(es, n).table = t
  BY DEF DirSector
<1>2. PICK T : es \in Seq(T) /\ \A e \in T : IsEntry(e)
  BY DEF EntrySeq, AllEntries
<1>3. ASSUME NEW i \in 0 .. DirEntries - 1
      PROVE  IsEntry(At(i))
  <2> DEFINE k == n * DirEntries + i
  <2>1. k \in Nat
    BY Constants
  <2>2. At(i) = IF k < Len(es) THEN es[k + 1] ELSE FreeEntry
    OBVIOUS
  <2> HIDE DEF k, At
  <2>3. k < Len(es) => es[k + 1] \in T
    BY <1>2, <2>1
  <2> QED
    BY <1>2, <2>2, <2>3, Tables
<1> HIDE DEF At
<1> QED
  BY <1>1, <1>3 DEF IsTable

\* The root directory has entries.
LEMMA RootEntries ==
  ASSUME NEW card \in Cards
  PROVE  EntrySeq(RootOf(card))
<1> DEFINE yes == TRUE
           no == FALSE
           a == IF card.dir = 0 THEN <<>> ELSE <<Named("LOGS", <<card.dir>>, 0, yes)>>
           b == IF card.taken = <<>> THEN <<>>
                ELSE <<Named("OTHER", card.taken, 0, no)>>
           c == IF card.task = "sd_task" /\ card.chain # <<>>
                THEN <<Named("HELLO.TXT", card.chain, card.size, no)>> ELSE <<>>
           d == [i \in 1 .. card.others |-> Named("OTHER", <<>>, 0, no)]
<1>1. RootOf(card) = a \o b \o c \o d
  BY DEF RootOf
<1>2. yes \in BOOLEAN /\ no \in BOOLEAN
  OBVIOUS
<1> HIDE DEF yes, no
<1>3. EntrySeq(a)
  <2>1. card.dir # 0 => <<card.dir>> \in Seq(ClusterSet)
    BY CardFacts
  <2>2. card.dir # 0 => EntrySeq(<<Named("LOGS", <<card.dir>>, 0, yes)>>)
    BY <1>2, <2>1, NamedIsEntry
  <2> QED
    BY <2>2, EntrySeqs
<1>4. EntrySeq(b)
  <2>1. EntrySeq(<<Named("OTHER", card.taken, 0, no)>>)
    BY <1>2, CardFacts, NamedIsEntry
  <2> QED
    BY <2>1, EntrySeqs
<1>5. EntrySeq(c)
  <2>1. EntrySeq(<<Named("HELLO.TXT", card.chain, card.size, no)>>)
    BY <1>2, CardFacts, NamedIsEntry
  <2> QED
    BY <2>1, EntrySeqs
<1>6. EntrySeq(d)
  <2> DEFINE none == <<>>
  <2>1. none \in Seq(ClusterSet) /\ 0 \in Nat /\ (0 > 0 => none # none)
    BY EmptySeq
  <2> HIDE DEF none
  <2>2. IsEntry(Named("OTHER", none, 0, no))
    BY <1>2, <2>1, NamedIsEntry
  <2>3. card.others \in Nat
    BY CardFacts
  <2>4. EntrySeq([i \in 1 .. card.others |-> Named("OTHER", none, 0, no)])
    BY <2>2, <2>3, EntrySeqs
  <2> QED
    BY <2>4 DEF none
<1> HIDE DEF a, b, c, d
<1>7. EntrySeq(a \o b)
  BY <1>3, <1>4, EntrySeqs
<1>8. EntrySeq((a \o b) \o c)
  BY <1>5, <1>7, EntrySeqs
<1>9. EntrySeq(((a \o b) \o c) \o d)
  BY <1>6, <1>8, EntrySeqs
<1> QED
  BY <1>1, <1>9

\* So has the directory of the logs.
LEMMA LogsEntries ==
  ASSUME NEW card \in Cards, card.dir # 0
  PROVE  EntrySeq(LogsOf(card))
<1> DEFINE yes == TRUE
           no == FALSE
           none == <<>>
           a == Named("dot", <<card.dir>>, 0, yes)
           b == Named("dotdot", none, 0, yes)
           c == Named("SYSTEM.LOG", card.chain, card.size, no)
<1>1. LogsOf(card) = <<a, b, c>>
  BY DEF LogsOf
<1>2. /\ yes \in BOOLEAN /\ no \in BOOLEAN /\ none \in Seq(ClusterSet)
      /\ 0 \in Nat /\ (0 > 0 => none # none)
  BY EmptySeq
<1> HIDE DEF yes, no, none
<1>3. IsEntry(a)
  <2>1. <<card.dir>> \in Seq(ClusterSet)
    BY CardFacts
  <2> QED
    BY <1>2, <2>1, NamedIsEntry
<1>4. IsEntry(b)
  BY <1>2, NamedIsEntry
<1>5. IsEntry(c)
  BY <1>2, CardFacts, NamedIsEntry
<1> HIDE DEF a, b, c
<1>6. <<a, b, c>> \in Seq({a, b, c}) /\ AllEntries({a, b, c})
  BY <1>3, <1>4, <1>5 DEF AllEntries
<1>7. EntrySeq(<<a, b, c>>)
  BY <1>6, EntrySeqOf
<1> QED
  BY <1>1, <1>7

\* Which entry holds which chain: its name, its number in its directory.
NameOf(card, k) == IF k = 1 THEN "OTHER" ELSE IF k = 3 THEN "LOGS"
                   ELSE IF card.task = "sd_task" THEN "HELLO.TXT" ELSE "SYSTEM.LOG"
NumberOf(card, k) ==
  IF k = 1 THEN IF card.dir = 0 THEN 0 ELSE 1
  ELSE IF k = 3 THEN 0
  ELSE IF card.task # "sd_task" THEN 2 ELSE IF card.taken = <<>> THEN 0 ELSE 1
Holds(card, k, p, e) ==
  /\ InPlace(card, k, 1, e.clst)
  /\ e.name = NameOf(card, k) /\ p = NumberOf(card, k)

\* What is where in two sequences put together.
LEMMA ConcatAt ==
  ASSUME NEW S, NEW x \in Seq(S), NEW y \in Seq(S)
  PROVE  /\ x \o y \in Seq(S) /\ Len(x \o y) = Len(x) + Len(y)
         /\ \A p \in 1 .. Len(x) + Len(y) :
              (x \o y)[p] = IF p <= Len(x) THEN x[p] ELSE y[p - Len(x)]
OBVIOUS

\* Sequences with one element, or none.
LEMMA NoneOrOne ==
  ASSUME NEW S, NEW e \in S
  PROVE  /\ <<>> \in Seq(S) /\ Len(<<>>) = 0
         /\ <<e>> \in Seq(S) /\ Len(<<e>>) = 1 /\ <<e>>[1] = e
BY EmptySeq

\* The entry of a chain has its first cluster.
LEMMA NamedHolds ==
  ASSUME NEW card \in Cards, NEW k \in {1, 2, 3}, NEW s, s = ChainsOf(card)[k], s # <<>>,
         NEW name, NEW size, NEW dir, NEW e, e = Named(name, s, size, dir)
  PROVE  e.name = name /\ InPlace(card, k, 1, e.clst)
<1>1. k \in 1 .. 4 /\ s \in Seq(ClusterSet)
  <2>1. k \in 1 .. 4
    OBVIOUS
  <2> QED
    BY <2>1, CardChains
<1>2. e.clst = Head(s) /\ e.name = name
  BY DEF Named
<1>3. 1 \in DOMAIN s /\ Head(s) = s[1]
  BY <1>1
<1> QED
  BY <1>1, <1>2, <1>3 DEF InPlace

\* Each chain that the root directory names is in one entry of it.
LEMMA RootHolds ==
  ASSUME NEW card \in Cards, NEW p \in 1 .. Len(RootOf(card)), Live(RootOf(card)[p])
  PROVE  \E k \in 1 .. 3 : /\ Holds(card, k, p - 1, RootOf(card)[p])
                           /\ k = 2 => card.task = "sd_task"
<1> DEFINE yes == TRUE
           no == FALSE
           ea == Named("LOGS", <<card.dir>>, 0, yes)
           eb == Named("OTHER", card.taken, 0, no)
           ec == Named("HELLO.TXT", card.chain, card.size, no)
           ed == Named("OTHER", <<>>, 0, no)
           n == card.others
           a == IF card.dir = 0 THEN <<>> ELSE <<ea>>
           b == IF card.taken = <<>> THEN <<>> ELSE <<eb>>
           c == IF card.task = "sd_task" /\ card.chain # <<>> THEN <<ec>> ELSE <<>>
           d == [i \in 1 .. n |-> ed]
           es == RootOf(card)
<1>1. es = a \o b \o c \o d
  BY DEF RootOf
<1>2. /\ card.dir # 0 => InPlace(card, 3, 1, ea.clst) /\ ea.name = "LOGS"
      /\ card.taken # <<>> => InPlace(card, 1, 1, eb.clst) /\ eb.name = "OTHER"
      /\ card.chain # <<>> => InPlace(card, 2, 1, ec.clst) /\ ec.name = "HELLO.TXT"
  <2>1. /\ card.dir # 0 => ChainsOf(card)[3] = <<card.dir>>
        /\ ChainsOf(card)[1] = card.taken /\ ChainsOf(card)[2] = card.chain
    BY CardChains
  <2> HIDE DEF yes, no
  <2>2. ASSUME card.dir # 0
        PROVE  InPlace(card, 3, 1, ea.clst) /\ ea.name = "LOGS"
    <3> DEFINE s == ChainsOf(card)[3]
    <3>1. s = <<card.dir>>
      BY <2>1, <2>2
    <3> HIDE DEF s
    <3>2. s # <<>>
      BY <3>1
    <3>3. ea = Named("LOGS", s, 0, yes)
      BY <3>1
    <3> HIDE DEF ea
    <3>4. s = ChainsOf(card)[3] /\ 3 \in {1, 2, 3}
      BY DEF s
    <3> QED
      BY <3>2, <3>3, <3>4, NamedHolds
  <2>3. ASSUME card.taken # <<>>
        PROVE  InPlace(card, 1, 1, eb.clst) /\ eb.name = "OTHER"
    <3>1. eb = Named("OTHER", card.taken, 0, no) /\ 1 \in {1, 2, 3}
      OBVIOUS
    <3> HIDE DEF eb
    <3> QED
      BY <2>1, <2>3, <3>1, NamedHolds
  <2>4. ASSUME card.chain # <<>>
        PROVE  InPlace(card, 2, 1, ec.clst) /\ ec.name = "HELLO.TXT"
    <3>1. ec = Named("HELLO.TXT", card.chain, card.size, no) /\ 2 \in {1, 2, 3}
      OBVIOUS
    <3> HIDE DEF ec
    <3> QED
      BY <2>1, <2>4, <3>1, NamedHolds
  <2> QED
    BY <2>2, <2>3, <2>4
<1>3. ~Live(ed) /\ n \in Nat
  <2>1. ed.clst = 0
    BY DEF Named
  <2> QED
    BY <2>1, CardFacts DEF Live
<1>4. card.task = "sd_task" => card.dir = 0
  BY CardsAssumption
<1> DEFINE S == {ea, eb, ec, ed}
<1> HIDE DEF ea, eb, ec, ed, n, es
<1>5. /\ a \in Seq(S) /\ Len(a) = (IF card.dir = 0 THEN 0 ELSE 1)
      /\ card.dir # 0 => a[1] = ea
  <2>0. ea \in S
    OBVIOUS
  <2> HIDE DEF S
  <2>1. CASE card.dir = 0
    BY <2>0, <2>1, NoneOrOne
  <2>2. CASE card.dir # 0
    BY <2>0, <2>2, NoneOrOne
  <2> QED
    BY <2>1, <2>2
<1>6. /\ b \in Seq(S) /\ Len(b) = (IF card.taken = <<>> THEN 0 ELSE 1)
      /\ card.taken # <<>> => b[1] = eb
  <2>0. eb \in S
    OBVIOUS
  <2> HIDE DEF S
  <2>1. CASE card.taken = <<>>
    BY <2>0, <2>1, NoneOrOne
  <2>2. CASE card.taken # <<>>
    BY <2>0, <2>2, NoneOrOne
  <2> QED
    BY <2>1, <2>2
<1>7. /\ c \in Seq(S)
      /\ Len(c) = (IF card.task = "sd_task" /\ card.chain # <<>> THEN 1 ELSE 0)
      /\ card.task = "sd_task" /\ card.chain # <<>> => c[1] = ec
  <2>0. ec \in S
    OBVIOUS
  <2> HIDE DEF S
  <2>1. CASE ~(card.task = "sd_task" /\ card.chain # <<>>)
    BY <2>0, <2>1, NoneOrOne
  <2>2. CASE card.task = "sd_task" /\ card.chain # <<>>
    BY <2>0, <2>2, NoneOrOne
  <2> QED
    BY <2>1, <2>2
<1>8. d \in Seq(S) /\ Len(d) = n /\ \A i \in 1 .. n : d[i] = ed
  BY <1>3
<1> HIDE DEF a, b, c, d, S
<1> DEFINE ab == a \o b
           abc == ab \o c
<1>9. /\ ab \in Seq(S) /\ Len(ab) = Len(a) + Len(b)
      /\ \A q \in 1 .. Len(a) + Len(b) :
           ab[q] = IF q <= Len(a) THEN a[q] ELSE b[q - Len(a)]
  BY <1>5, <1>6, ConcatAt
<1> HIDE DEF ab
<1>10. /\ abc \in Seq(S) /\ Len(abc) = Len(ab) + Len(c)
       /\ \A q \in 1 .. Len(ab) + Len(c) :
            abc[q] = IF q <= Len(ab) THEN ab[q] ELSE c[q - Len(ab)]
  <2>1. ab \in Seq(S) /\ c \in Seq(S)
    BY <1>7, <1>9
  <2> QED
    BY <2>1, ConcatAt
<1> HIDE DEF abc
<1>11. /\ Len(es) = Len(abc) + Len(d)
       /\ \A q \in 1 .. Len(abc) + Len(d) :
            es[q] = IF q <= Len(abc) THEN abc[q] ELSE d[q - Len(abc)]
  <2>1. es = abc \o d
    BY <1>1 DEF ab, abc
  <2> QED
    BY <1>8, <1>10, <2>1, ConcatAt
<1>12. p \in 1 .. Len(es) /\ Live(es[p])
  BY DEF es
<1>13. p <= Len(abc)
  <2> SUFFICES ASSUME p > Len(abc) PROVE FALSE
    BY <1>10, <1>12
  <2>1. p - Len(abc) \in 1 .. n /\ p \in 1 .. Len(abc) + Len(d)
    BY <1>8, <1>10, <1>11, <1>12
  <2>2. es[p] = ed
    BY <1>8, <1>11, <2>1
  <2> QED
    BY <1>3, <1>12, <2>2
<1>14. p \in 1 .. Len(ab) + Len(c) /\ es[p] = abc[p] /\ p \in Nat
  BY <1>8, <1>10, <1>11, <1>12, <1>13
<1>15. CASE p > Len(ab)
  <2>1. /\ card.task = "sd_task" /\ card.chain # <<>> /\ p - Len(ab) = 1
        /\ p = Len(ab) + 1
    BY <1>7, <1>9, <1>14, <1>15
  <2>2. es[p] = ec
    BY <1>7, <1>9, <1>10, <1>14, <1>15, <2>1
  <2>3. p - 1 = NumberOf(card, 2)
    BY <1>4, <1>5, <1>6, <1>9, <2>1 DEF NumberOf
  <2>4. Holds(card, 2, p - 1, es[p])
    BY <1>2, <2>1, <2>2, <2>3 DEF Holds, NameOf
  <2> QED
    BY <2>1, <2>4 DEF es
<1>16. CASE p <= Len(ab) /\ p > Len(a)
  <2>1. p \in 1 .. Len(a) + Len(b) /\ es[p] = ab[p] /\ p - Len(a) = 1 /\ card.taken # <<>>
    BY <1>5, <1>6, <1>9, <1>10, <1>14, <1>16
  <2>2. es[p] = eb
    BY <1>5, <1>6, <1>9, <1>16, <2>1
  <2>3. p - 1 = NumberOf(card, 1)
    BY <1>5, <2>1 DEF NumberOf
  <2>4. Holds(card, 1, p - 1, es[p])
    BY <1>2, <2>1, <2>2, <2>3 DEF Holds, NameOf
  <2> QED
    BY <2>4 DEF es
<1>17. CASE p <= Len(ab) /\ p <= Len(a)
  <2>1. p \in 1 .. Len(a) + Len(b) /\ es[p] = ab[p] /\ p = 1 /\ card.dir # 0
    BY <1>5, <1>6, <1>9, <1>10, <1>14, <1>17
  <2>2. es[p] = ea
    BY <1>5, <1>9, <1>17, <2>1
  <2>3. p - 1 = NumberOf(card, 3)
    BY <2>1 DEF NumberOf
  <2>4. Holds(card, 3, p - 1, es[p])
    BY <1>2, <2>1, <2>2, <2>3 DEF Holds, NameOf
  <2> QED
    BY <2>4 DEF es
<1> QED
  BY <1>5, <1>9, <1>14, <1>15, <1>16, <1>17

\* The directory of the logs names the chain of the log.
LEMMA LogsHolds ==
  ASSUME NEW card \in Cards, card.dir # 0,
         NEW p \in 1 .. Len(LogsOf(card)), Live(LogsOf(card)[p])
  PROVE  Holds(card, 2, p - 1, LogsOf(card)[p]) /\ card.task # "sd_task"
<1> DEFINE yes == TRUE
           no == FALSE
           a == Named("dot", <<card.dir>>, 0, yes)
           b == Named("dotdot", <<>>, 0, yes)
           c == Named("SYSTEM.LOG", card.chain, card.size, no)
           es == LogsOf(card)
<1>1. es = <<a, b, c>>
  BY DEF LogsOf
<1>2. a.name = "dot" /\ b.name = "dotdot" /\ c.name = "SYSTEM.LOG"
  BY DEF Named
<1>3. card.chain = <<>> => c.clst = 0
  BY DEF Named
<1>4. card.chain # <<>> => InPlace(card, 2, 1, c.clst)
  <2> SUFFICES ASSUME card.chain # <<>> PROVE InPlace(card, 2, 1, c.clst)
    OBVIOUS
  <2>1. /\ card.chain = ChainsOf(card)[2] /\ 2 \in {1, 2, 3}
        /\ c = Named("SYSTEM.LOG", card.chain, card.size, no)
    BY CardChains
  <2> HIDE DEF c
  <2> QED
    BY <2>1, NamedHolds
<1>5. card.task # "sd_task"
  BY CardsAssumption
<1>6. p \in 1 .. Len(es) /\ Live(es[p])
  BY DEF es
<1> HIDE DEF a, b, c, es
<1>7. p = 3 /\ es[p] = c
  <2>1. p \in 1 .. 3
    BY <1>1, <1>6
  <2>2. p = 1 \/ p = 2 \/ p = 3
    BY <2>1
  <2>3. ~Live(a) /\ ~Live(b)
    BY <1>2 DEF Live
  <2> QED
    BY <1>1, <1>6, <2>2, <2>3
<1>8. card.chain # <<>>
  BY <1>3, <1>6, <1>7 DEF Live
<1>9. p - 1 = NumberOf(card, 2) /\ es[p].name = NameOf(card, 2)
  BY <1>2, <1>5, <1>7 DEF NumberOf, NameOf
<1>10. Holds(card, 2, p - 1, es[p])
  BY <1>4, <1>7, <1>8, <1>9 DEF Holds
<1> QED
  BY <1>5, <1>10 DEF es

IsPlain(x) == x.kind \in {"none", "dir", "data"} /\ (x.kind = "dir" => IsTable(x.table))

\* A sector of a cluster has cells or a table.
LEMMA ClusterFormatted ==
  ASSUME NEW card \in Cards, NEW c \in Nat, c >= 2, NEW n \in Nat
  PROVE  IsPlain(FormattedCluster(card, c, n))
<1> DEFINE x == FormattedCluster(card, c, n)
<1>1. CASE card.fs_type = "FAT32" /\ c = 2
  BY <1>1, RootEntries, DirSectorTable DEF FormattedCluster, IsPlain
<1>2. CASE ~(card.fs_type = "FAT32" /\ c = 2) /\ c = card.dir
  BY <1>2, LogsEntries, DirSectorTable DEF FormattedCluster, IsPlain
<1>3. CASE ~(card.fs_type = "FAT32" /\ c = 2) /\ c # card.dir
  <2>1. x.kind \in {"data", "none"}
    BY <1>3 DEF FormattedCluster, NoData
  <2> QED
    BY <2>1 DEF IsPlain
<1> QED
  BY <1>1, <1>2, <1>3

\* Where everything is.
LEMMA FormattedSectors ==
  ASSUME NEW card \in Cards
  PROVE  LET L == GeometryOf(card)
             d == Formatted(card)
         IN  /\ d = [s \in Sectors(L) |-> d[s]]
             /\ \A s \in Sectors(L) : Fits(L, s, d[s])
             /\ \A s \in FirstFat(L) : \A i \in 0 .. FatEntries - 1 :
                  d[s].fat[i] = FatOf(card, (s - fatbase(L)) * FatEntries + i)
             /\ d[L.volbase + 1].free \in
                  {MaxDword, Cardinality({c \in ClusterSet : FatOf(card, c) = 0})}
             /\ \A s \in PlainSectors(L) :
                  /\ s < database(L) => d[s] = DirSector(RootOf(card), 0)
                  /\ s >= database(L) =>
                       d[s] = FormattedCluster(card, (s - database(L)) \div csize + 2,
                                               (s - database(L)) % csize)
<1> DEFINE L == GeometryOf(card)
           base == card.start + 2
           root == base + card.n_fats * fsize
           data == root + RootSectors(card)
           mbr == [kind |-> "mbr", starts |-> <<0, card.start>>]
           vbr == [kind |-> "vbr", fs_type |-> card.fs_type, n_fats |-> card.n_fats]
           free == IF card.known
                   THEN Cardinality({c \in 2 .. n_fatent - 1 : FatOf(card, c) = 0})
                   ELSE MaxDword
           info == [kind |-> "fsinfo", last |-> card.hint, free |-> free]
           Entry(s, i) == FatOf(card, ((s - base) % fsize) * FatEntries + i)
           Fat(s) == [kind |-> "fat", fat |-> [i \in 0 .. FatEntries - 1 |-> Entry(s, i)]]
           dir == DirSector(RootOf(card), 0)
           Cluster(s) == FormattedCluster(card, (s - data) \div csize + 2,
                                          (s - data) % csize)
           At(s) == CASE s < card.start -> mbr
                      [] s = card.start -> vbr
                      [] s = card.start + 1 -> info
                      [] s \in base .. root - 1 -> Fat(s)
                      [] s \in root .. data - 1 -> dir
                      [] s >= data -> Cluster(s)
           d == Formatted(card)
<1>1. d = [s \in 0 .. data + csize * Clusters - 1 |-> At(s)]
  BY Zenon DEF Formatted
<1>2. /\ L \in Geometries /\ L.volbase = card.start /\ card.start \in Nat
      /\ L.fs_type = card.fs_type /\ L.n_fats = card.n_fats /\ card.hint \in Nat
  BY CardFacts
<1>3. /\ base = fatbase(L) /\ root = PlainStart(L) /\ data = database(L)
      /\ data + csize * Clusters - 1 = LastSector(L)
  BY <1>2 DEF fatbase, PlainStart, database, LastSector, RootSectors
<1>4. /\ base \in Nat /\ root \in Nat /\ data \in Nat /\ fsize \in Nat \ {0}
      /\ root >= base /\ data >= root /\ (data = root \/ data = root + 1)
      /\ base = card.start + 2
  BY <1>2, <1>3, Places, Sizes
<1> HIDE DEF mbr, vbr, info, Fat, dir, Cluster, L, base, root, data, d
<1>5. d = [s \in Sectors(L) |-> At(s)] /\ Sectors(L) \subseteq Nat
  BY <1>1, <1>2, <1>3, Regions DEF Sectors
<1>6. \A s \in Sectors(L) :
        /\ s < card.start => d[s] = mbr
        /\ s = card.start => d[s] = vbr
        /\ s = card.start + 1 => d[s] = info
        /\ s >= base /\ s < root => d[s] = Fat(s)
        /\ s >= root /\ s < data => d[s] = dir
        /\ s >= data => d[s] = Cluster(s)
  <2> TAKE s \in Sectors(L)
  <2>1. d[s] = At(s) /\ s \in Nat
    BY <1>5
  <2> HIDE DEF d
  <2>2. CASE s < card.start
    BY <1>2, <1>4, <2>1, <2>2
  <2>3. CASE s = card.start
    BY <1>2, <1>4, <2>1, <2>3
  <2>4. CASE s = card.start + 1
    BY <1>2, <1>4, <2>1, <2>4
  <2>5. CASE s >= base /\ s < root
    BY <1>2, <1>4, <2>1, <2>5
  <2>6. CASE s >= root /\ s < data
    BY <1>2, <1>4, <2>1, <2>6
  <2>7. CASE s >= data
    BY <1>2, <1>4, <2>1, <2>7
  <2> QED
    BY <1>2, <1>4, <2>1, <2>2, <2>3, <2>4, <2>5, <2>6, <2>7
<1> HIDE DEF At
<1>7. ASSUME NEW s \in Sectors(L)
      PROVE  Fits(L, s, d[s])
  <2>0. s \in Nat
    BY <1>5
  <2>1. CASE s < card.start
    <3>1. d[s] = [kind |-> "mbr", starts |-> <<0, L.volbase>>]
      BY <1>2, <1>6, <2>1 DEF mbr
    <3> QED
      BY <1>2, <1>3, <1>4, <2>0, <2>1, <3>1 DEF Fits
  <2>2. CASE s = card.start
    <3>1. d[s] = [kind |-> "vbr", fs_type |-> L.fs_type, n_fats |-> L.n_fats]
      BY <1>2, <1>6, <2>2 DEF vbr
    <3> QED
      BY <1>2, <1>3, <1>4, <2>0, <2>2, <3>1 DEF Fits
  <2>3. CASE s = card.start + 1
    <3>1. free \in Nat
      <4>1. {c \in ClusterSet : FatOf(card, c) = 0} \in SUBSET ClusterSet
        OBVIOUS
      <4>2. Cardinality({c \in ClusterSet : FatOf(card, c) = 0}) \in Nat
        BY <4>1, FreeClustersCounted
      <4> QED
        BY <4>2, Constants DEF ClusterSet
    <3> HIDE DEF free
    <3>2. d[s] = info
      BY <1>6, <2>3
    <3>3. info \in [kind : {"fsinfo"}, free : Nat, last : Nat]
      BY <1>2, <3>1 DEF info
    <3> QED
      BY <1>2, <1>3, <1>4, <2>0, <2>3, <3>2, <3>3 DEF Fits
  <2>4. CASE s >= base /\ s < root
    <3>1. d[s] = Fat(s)
      BY <1>6, <2>4
    <3>2. Fat(s) \in [kind : {"fat"}, fat : [0 .. FatEntries - 1 -> Nat]]
      <4>1. \A i : Entry(s, i) \in Nat
        BY FatOfNat
      <4> HIDE DEF Entry
      <4> QED
        BY <4>1 DEF Fat
    <3> QED
      BY <1>2, <1>3, <1>4, <2>0, <2>4, <3>1, <3>2 DEF Fits
  <2>5. CASE s >= root
    <3>1. IsPlain(d[s])
      <4>1. CASE s < data
        <5>1. IsPlain(dir)
          BY RootEntries, DirSectorTable DEF dir, IsPlain
        <5> QED
          BY <1>6, <2>5, <4>1, <5>1
      <4>2. CASE s >= data
        <5> DEFINE k == s - data
        <5>1. k \in Nat
          BY <1>4, <2>0, <4>2
        <5> HIDE DEF k
        <5>2. k \div csize \in Nat /\ k % csize \in Nat
          BY <5>1, Constants, Division
        <5> DEFINE c == k \div csize + 2
                   n == k % csize
        <5>3. c \in Nat /\ c >= 2 /\ n \in Nat
          BY <5>2
        <5>4. Cluster(s) = FormattedCluster(card, c, n)
          BY DEF Cluster, k
        <5> HIDE DEF c, n
        <5>5. IsPlain(FormattedCluster(card, c, n))
          BY <5>3, ClusterFormatted
        <5> QED
          BY <1>6, <4>2, <5>4, <5>5
      <4> QED
        BY <1>4, <2>0, <4>1, <4>2
    <3> QED
      BY <1>2, <1>3, <1>4, <2>0, <2>5, <3>1 DEF Fits, IsPlain
  <2> QED
    BY <1>2, <1>4, <2>0, <2>1, <2>2, <2>3, <2>4, <2>5
<1>8. ASSUME NEW s \in FirstFat(L), NEW i \in 0 .. FatEntries - 1
      PROVE  d[s].fat[i] = FatOf(card, (s - fatbase(L)) * FatEntries + i)
  <2>1. s \in Sectors(L) /\ s >= base /\ s < root /\ s - base \in 0 .. fsize - 1
    BY <1>2, <1>3, Regions
  <2>2. d[s] = Fat(s)
    BY <1>6, <2>1
  <2>3. d[s].fat[i] = Entry(s, i)
    BY <2>2 DEF Fat
  <2>4. (s - base) % fsize = s - base
    BY <1>4, <2>1
  <2> QED
    BY <1>3, <2>3, <2>4
<1>9. d[L.volbase + 1].free \in
        {MaxDword, Cardinality({c \in ClusterSet : FatOf(card, c) = 0})}
  <2>1. L.volbase + 1 \in Sectors(L)
    BY <1>2, Regions
  <2>2. d[L.volbase + 1] = info
    BY <1>2, <1>6, <2>1
  <2> QED
    BY <2>2 DEF info, ClusterSet
<1>10. d = [s \in Sectors(L) |-> d[s]]
  BY <1>5
<1>11. ASSUME NEW s \in PlainSectors(L)
       PROVE  /\ s < database(L) => d[s] = DirSector(RootOf(card), 0)
              /\ s >= database(L) =>
                   d[s] = FormattedCluster(card, (s - database(L)) \div csize + 2,
                                           (s - database(L)) % csize)
  <2>1. s \in Sectors(L) /\ s >= root
    BY <1>2, <1>3, Regions
  <2>2. s < data => d[s] = dir
    BY <1>6, <2>1
  <2>3. s >= data => d[s] = Cluster(s)
    BY <1>6, <2>1
  <2>4. dir = DirSector(RootOf(card), 0)
    BY DEF dir
  <2>5. Cluster(s) = FormattedCluster(card, (s - data) \div csize + 2, (s - data) % csize)
    BY DEF Cluster
  <2> QED
    BY <1>3, <2>2, <2>3, <2>4, <2>5
<1> QED
  BY <1>7, <1>8, <1>9, <1>10, <1>11 DEF L, d

\* In which sector a directory begins, and the entry of a chain with it.
HomeOf(card, k) ==
  IF k = 2 /\ card.task # "sd_task"
  THEN database(GeometryOf(card)) + csize * (card.dir - 2)
  ELSE PlainStart(GeometryOf(card))
Sits(card, k, s, i, e) ==
  /\ s - HomeOf(card, k) \in Nat
  /\ Holds(card, k, (s - HomeOf(card, k)) * DirEntries + i, e)

\* An entry of a sector is the one of the directory.
LEMMA DirSectorHolds ==
  ASSUME NEW es, EntrySeq(es), NEW n \in Nat, NEW i \in Slots,
         Live(AsDir(DirSector(es, n))[i])
  PROVE  /\ n * DirEntries + i + 1 \in 1 .. Len(es)
         /\ AsDir(DirSector(es, n))[i] = es[n * DirEntries + i + 1]
<1> DEFINE p == n * DirEntries + i
           t == [j \in 0 .. DirEntries - 1 |->
                   IF n * DirEntries + j < Len(es) THEN es[n * DirEntries + j + 1]
                   ELSE FreeEntry]
<1>1. AsDir(DirSector(es, n)) = t
  BY DEF DirSector, AsDir
<1>2. t[i] = IF p < Len(es) THEN es[p + 1] ELSE FreeEntry
  BY DEF Slots
<1>3. p \in Nat /\ Len(es) \in Nat
  <2>1. PICK T : es \in Seq(T)
    BY DEF EntrySeq
  <2>2. n * DirEntries \in Nat
    BY Constants
  <2> QED
    BY <2>1, <2>2, Constants DEF Slots
<1>4. ~Live(FreeEntry)
  BY DEF Live, FreeEntry
<1> HIDE DEF t
<1>5. p < Len(es)
  BY <1>1, <1>2, <1>3, <1>4
<1> HIDE DEF p
<1>6. AsDir(DirSector(es, n))[i] = es[p + 1] /\ p + 1 \in 1 .. Len(es)
  BY <1>1, <1>2, <1>3, <1>5
<1> QED
  BY <1>6 DEF p

\* An entry in the sectors of the root directory is in its place there.
LEMMA RootSits ==
  ASSUME NEW card \in Cards, NEW s, s - PlainStart(GeometryOf(card)) \in Nat,
         NEW i \in Slots, NEW x,
         x = DirSector(RootOf(card), s - PlainStart(GeometryOf(card))), Live(AsDir(x)[i])
  PROVE  \E k \in 1 .. 3 : Sits(card, k, s, i, AsDir(x)[i])
<1> DEFINE n == s - PlainStart(GeometryOf(card))
           p == n * DirEntries + i
<1>0. n \in Nat /\ x = DirSector(RootOf(card), n)
  OBVIOUS
<1>00. p \in Nat
  <2> HIDE DEF n
  <2>1. n * DirEntries \in Nat
    BY <1>0, Constants
  <2> QED
    BY <2>1, Constants DEF Slots
<1> HIDE DEF n
<1>1. /\ p + 1 \in 1 .. Len(RootOf(card))
      /\ AsDir(x)[i] = RootOf(card)[p + 1]
  BY <1>0, RootEntries, DirSectorHolds
<1> HIDE DEF p
<1>2. PICK k \in 1 .. 3 : /\ Holds(card, k, (p + 1) - 1, RootOf(card)[p + 1])
                          /\ k = 2 => card.task = "sd_task"
  BY <1>1, RootHolds
<1>3. (p + 1) - 1 = p
  BY <1>00
<1>4. HomeOf(card, k) = PlainStart(GeometryOf(card))
  BY <1>2 DEF HomeOf
<1>5. Holds(card, k, p, AsDir(x)[i])
  BY <1>1, <1>2, <1>3
<1>6. Sits(card, k, s, i, AsDir(x)[i])
  BY <1>0, <1>4, <1>5 DEF Sits, n, p
<1> QED
  BY <1>6

\* So is one in the sectors of the directory of the logs.
LEMMA LogsSits ==
  ASSUME NEW card \in Cards, card.dir # 0, NEW n \in Nat, NEW i \in Slots, NEW x,
         x = DirSector(LogsOf(card), n), Live(AsDir(x)[i]), NEW s,
         s - (database(GeometryOf(card)) + csize * (card.dir - 2)) = n
  PROVE  Sits(card, 2, s, i, AsDir(x)[i])
<1> DEFINE p == n * DirEntries + i
<1>0. p \in Nat
  <2>1. n * DirEntries \in Nat
    BY Constants
  <2> QED
    BY <2>1, Constants DEF Slots
<1>1. /\ p + 1 \in 1 .. Len(LogsOf(card))
      /\ AsDir(x)[i] = LogsOf(card)[p + 1]
  BY LogsEntries, DirSectorHolds
<1> HIDE DEF p
<1>2. Holds(card, 2, (p + 1) - 1, LogsOf(card)[p + 1]) /\ card.task # "sd_task"
  BY <1>1, LogsHolds
<1>3. (p + 1) - 1 = p
  BY <1>0
<1>4. s - HomeOf(card, 2) = n
  BY <1>2 DEF HomeOf
<1>5. Holds(card, 2, p, AsDir(x)[i])
  BY <1>1, <1>2, <1>3
<1> QED
  BY <1>4, <1>5 DEF Sits, p

\* Every entry on such a card is in its place in a directory.
LEMMA FormattedHolds ==
  ASSUME NEW card \in Cards, NEW s \in PlainSectors(GeometryOf(card)), NEW i \in Slots,
         Live(AsDir(Formatted(card)[s])[i])
  PROVE  \E k \in 1 .. 3 : Sits(card, k, s, i, AsDir(Formatted(card)[s])[i])
<1> DEFINE L == GeometryOf(card)
           x == Formatted(card)[s]
           c == (s - database(L)) \div csize + 2
           n == (s - database(L)) % csize
<1>1. /\ s < database(L) => x = DirSector(RootOf(card), 0)
      /\ s >= database(L) => x = FormattedCluster(card, c, n)
  BY FormattedSectors
<1>2. /\ L \in Geometries /\ L.fs_type = card.fs_type
      /\ card.dir = 0 \/ card.dir \in ClusterSet
  BY CardFacts
<1>3. /\ PlainStart(L) \in Nat /\ database(L) \in Nat /\ s \in Nat /\ s >= PlainStart(L)
      /\ database(L) = IF L.fs_type = "FAT16" THEN PlainStart(L) + 1 ELSE PlainStart(L)
      /\ L.fs_type \in {"FAT16", "FAT32"}
  BY <1>2, Places, Regions
<1>4. x = Formatted(card)[s] /\ Live(AsDir(x)[i])
  OBVIOUS
<1> HIDE DEF x
<1>5. CASE s < database(L)
  <2>1. s - PlainStart(L) = 0
    BY <1>3, <1>5
  <2>2. s - PlainStart(L) \in Nat /\ x = DirSector(RootOf(card), s - PlainStart(L))
    BY <1>1, <1>5, <2>1
  <2> HIDE DEF L
  <2>3. \E k \in 1 .. 3 : Sits(card, k, s, i, AsDir(x)[i])
    BY <1>4, <2>2, RootSits DEF L
  <2> QED
    BY <1>4, <2>3
<1>6. CASE s >= database(L)
  <2> DEFINE m == s - database(L)
  <2>1. m \in Nat /\ csize \in Nat \ {0} /\ s = database(L) + m
    BY <1>3, <1>6, Constants
  <2>2. x = FormattedCluster(card, m \div csize + 2, m % csize)
    BY <1>1, <1>6
  <2> HIDE DEF m, L
  <2> DEFINE q == m \div csize
             r == m % csize
  <2>3. q \in Nat /\ r \in 0 .. csize - 1 /\ m = csize * q + r
    BY <2>1, Division
  <2>4. x = FormattedCluster(card, q + 2, r)
    BY <2>2
  <2> HIDE DEF q, r
  <2>5. CASE card.fs_type = "FAT32" /\ q + 2 = 2
    <3>1. q = 0 /\ m = r
      BY <2>1, <2>3, <2>5
    <3>2. s - PlainStart(L) = r /\ r \in Nat
      BY <1>2, <1>3, <2>1, <2>3, <2>5, <3>1
    <3>3. x = DirSector(RootOf(card), s - PlainStart(L))
      BY <2>4, <2>5, <3>2 DEF FormattedCluster
    <3>4. \E k \in 1 .. 3 : Sits(card, k, s, i, AsDir(x)[i])
      BY <1>4, <3>2, <3>3, RootSits DEF L
    <3> QED
      BY <1>4, <3>4
  <2>6. CASE ~(card.fs_type = "FAT32" /\ q + 2 = 2) /\ q + 2 = card.dir
    <3>1. card.dir # 0 /\ card.dir - 2 = q /\ r \in Nat
      BY <2>1, <2>3, <2>6
    <3>2. x = DirSector(LogsOf(card), r)
      BY <2>4, <2>6 DEF FormattedCluster
    <3>3. s - (database(L) + csize * (card.dir - 2)) = r
      BY <1>3, <2>1, <2>3, <3>1
    <3>4. Sits(card, 2, s, i, AsDir(x)[i])
      BY <1>4, <3>1, <3>2, <3>3, LogsSits DEF L
    <3> QED
      BY <1>4, <3>4
  <2>7. CASE ~(card.fs_type = "FAT32" /\ q + 2 = 2) /\ q + 2 # card.dir
    <3>1. x.kind # "dir"
      BY <2>4, <2>7 DEF FormattedCluster, NoData
    <3> QED
      BY <1>4, <3>1, BlankHasNone DEF Blank
  <2> QED
    BY <2>5, <2>6, <2>7
<1> QED
  BY <1>3, <1>5, <1>6

\* Two entries with one cluster are the same entry.
LEMMA SitsOne ==
  ASSUME NEW card \in Cards, NEW s \in Nat, NEW t \in Nat, NEW i \in Slots, NEW j \in Slots,
         NEW k, NEW l, NEW d, NEW e, Sits(card, k, s, i, d), Sits(card, l, t, j, e),
         d.clst = e.clst
  PROVE  k = l /\ s = t /\ i = j /\ d.name = e.name
<1> DEFINE h == HomeOf(card, k)
           p == s - h
           q == t - h
<1>1. k = l
  BY AtOne DEF Sits, Holds
<1>2. p \in Nat /\ q \in Nat /\ d.name = e.name
  BY <1>1 DEF Sits, Holds
<1>3. p * DirEntries + i = q * DirEntries + j
  BY <1>1 DEF Sits, Holds
<1>4. DirEntries \in Nat \ {0} /\ i \in 0 .. DirEntries - 1 /\ j \in 0 .. DirEntries - 1
  BY Constants DEF Slots
<1>5. h \in Int
  <2>1. GeometryOf(card) \in Geometries /\ (card.dir = 0 \/ card.dir \in ClusterSet)
    BY CardFacts
  <2>2. card.dir - 2 \in Int /\ csize \in Nat
    BY <2>1, Constants, Sizes DEF ClusterSet
  <2>3. csize * (card.dir - 2) \in Int
    BY <2>2
  <2> QED
    BY <2>1, <2>3, Places DEF HomeOf
<1>6. s = p + h /\ t = q + h
  BY <1>5
<1> HIDE DEF p, q, h
<1>7. DirEntries * p + i = DirEntries * q + j
  BY <1>2, <1>3, <1>4
<1>8. i = j
  BY <1>2, <1>4, <1>7, OneDivision
<1>9. DirEntries * p = DirEntries * q
  BY <1>2, <1>4, <1>7, <1>8
<1>10. p = q
  BY <1>2, <1>4, <1>9
<1> QED
  BY <1>1, <1>2, <1>6, <1>8, <1>10

\* So no cluster of such a card is held twice.
LEMMA CardLinked ==
  ASSUME NEW card \in Cards, NEW L, L = GeometryOf(card), NEW v, Off(v),
         v.disk = Formatted(card), Shape(L, v),
         \A c \in ClusterSet : /\ Card(L, v, c) = FatOf(card, c)
                               /\ Lib(L, v, c) = FatOf(card, c)
  PROVE  Linked(L, v)
<1> DEFINE f == [c \in ClusterSet |-> FatOf(card, c)]
           H == Held(L, v)
<1>0. L \in Geometries /\ L.fs_type = card.fs_type
  BY CardFacts
<1>1. v.fs = Unmounted /\ v.fp = Closed /\ v.fs.winsect = NoSector
  BY DEF Off, Unmounted
<1>2. LibFat(L, v) = f /\ CardFat(L, v) = f
  BY DEF LibFat, CardFat
<1>3. ASSUME NEW h \in H
      PROVE  /\ h.sect \in PlainSectors(L) /\ h.sect \in Nat /\ h.slot \in Slots
             /\ \E k \in 1 .. 3 : Sits(card, k, h.sect, h.slot, h.e)
  <2>1. /\ h.sect \in PlainSectors(L) /\ h.slot \in Slots /\ Live(h.e)
        /\ \E x \in Versions(v, h.sect) : h.e = AsDir(x)[h.slot]
    BY HeldIs
  <2>2. h.sect \in Nat /\ h.sect # NoSector
    BY <1>0, <2>1, Regions DEF NoSector
  <2>3. Versions(v, h.sect) = {Formatted(card)[h.sect]}
    BY <1>1, <2>2 DEF Versions
  <2>4. h.e = AsDir(Formatted(card)[h.sect])[h.slot]
    BY <2>1, <2>3
  <2>5. \E k \in 1 .. 3 : Sits(card, k, h.sect, h.slot, h.e)
    BY <2>1, <2>4, FormattedHolds
  <2> QED
    BY <2>1, <2>2, <2>5
<1> HIDE DEF H
<1>4. Links(f) /\ \A k, c : InPlace(card, k, 1, c) => IsHead(f, c)
  BY CardLinks
<1> HIDE DEF f
<1>5. \A h \in H : IsHead(f, h.e.clst)
  BY <1>3, <1>4 DEF Sits, Holds
<1>6. L.fs_type = "FAT32" => InPlace(card, 4, 1, 2)
  <2> SUFFICES ASSUME L.fs_type = "FAT32" PROVE InPlace(card, 4, 1, 2)
    OBVIOUS
  <2> DEFINE s == ChainsOf(card)[4]
  <2>1. s = <<2>>
    BY <1>0, CardChains
  <2>2. 1 \in DOMAIN s /\ s[1] = 2 /\ 4 \in 1 .. 4
    BY <2>1
  <2> QED
    BY <2>2 DEF InPlace
<1>7. HeadsIn(L, f, H)
  BY <1>4, <1>5, <1>6 DEF HeadsIn
<1>8. ASSUME NEW h \in H
      PROVE  ~IsRoot(L, h.e.clst)
  <2>1. PICK k \in 1 .. 3 : InPlace(card, k, 1, h.e.clst)
    BY <1>3 DEF Sits, Holds
  <2>2. IsRoot(L, h.e.clst) => k = 4
    BY <1>6, <2>1, AtOne DEF IsRoot
  <2> QED
    BY <2>1, <2>2
<1>9. ASSUME NEW h \in H, NEW g \in H, h.e.clst = g.e.clst
      PROVE  h.sect = g.sect /\ h.slot = g.slot /\ h.e.name = g.e.name
  <2>1. PICK k \in 1 .. 3 : Sits(card, k, h.sect, h.slot, h.e)
    BY <1>3
  <2>2. PICK l \in 1 .. 3 : Sits(card, l, g.sect, g.slot, g.e)
    BY <1>3
  <2>3. /\ h.sect \in Nat /\ g.sect \in Nat
        /\ h.slot \in Slots /\ g.slot \in Slots
    BY <1>3
  <2> QED
    BY <1>9, <2>1, <2>2, <2>3, SitsOne
<1>10. Apart(L, H)
  BY <1>8, <1>9 DEF Apart
<1>11. Owned(L, LibFat(L, v), CardFat(L, v), H)
  BY <1>2, <1>7, <1>10 DEF Owned
<1>12. OwnFile(L, LibFat(L, v), H, v.fp) /\ NameKept(L, v)
  BY <1>1 DEF OwnFile, NameKept, Closed
<1>13. Faithful(L, v)
  <2>1. NoSector \notin PlainSectors(L)
    BY <1>0, Regions DEF NoSector
  <2> QED
    BY <1>1, <2>1 DEF Faithful
<1> QED
  BY <1>11, <1>12, <1>13 DEF Linked, H

\* Nothing has been written yet: F is what is free on the card.
LEMMA CardSound ==
  ASSUME NEW card \in Cards, NEW v, IsVolume(v), Off(v), v.disk = Formatted(card)
  PROVE  Sound(GeometryOf(card), {c \in ClusterSet : FatOf(card, c) = 0}, v)
<1> DEFINE L == GeometryOf(card)
           F == {c \in ClusterSet : FatOf(card, c) = 0}
           d == Formatted(card)
<1>1. /\ d = [s \in Sectors(L) |-> d[s]]
      /\ \A s \in Sectors(L) : Fits(L, s, d[s])
      /\ \A s \in FirstFat(L) : \A i \in 0 .. FatEntries - 1 :
           d[s].fat[i] = FatOf(card, (s - fatbase(L)) * FatEntries + i)
      /\ d[L.volbase + 1].free \in {MaxDword, Cardinality(F)}
  BY FormattedSectors
<1>2. L \in Geometries
  BY CardFacts
<1> HIDE DEF L, d
<1>3. v.disk = d /\ v.fs = Unmounted
  BY DEF Off, d
<1>4. Shape(L, v)
  BY <1>1, <1>2, <1>3, NoFatFs DEF Shape
<1>5. Contents(L, v)
  BY <1>1, <1>2, <1>3, NoFatFs, Regions DEF Contents
<1>6. ASSUME NEW c \in ClusterSet
      PROVE  Card(L, v, c) = FatOf(card, c) /\ Lib(L, v, c) = FatOf(card, c)
  <2> DEFINE q == c \div FatEntries
             i == c % FatEntries
             s == FatSect(L, c)
  <2>1. s \in FirstFat(L) /\ c \in Nat
    BY <1>2, FatSects
  <2>2. q \in Nat /\ i \in 0 .. FatEntries - 1 /\ c = FatEntries * q + i
    BY <2>1, Constants, Division
  <2>3. s = fatbase(L) + q /\ fatbase(L) \in Nat
    BY <1>2, Places DEF FatSect
  <2>4. Card(L, v, c) = d[s].fat[i]
    BY <1>3 DEF Card
  <2>5. Lib(L, v, c) = Card(L, v, c)
    BY <1>2, <1>3, <2>1, NoFatFs, Regions DEF Lib
  <2> HIDE DEF q, i, s
  <2>6. s - fatbase(L) = q /\ FatEntries \in Nat
    BY <2>2, <2>3, Constants
  <2>7. (s - fatbase(L)) * FatEntries + i = c
    BY <2>2, <2>6
  <2>8. d[s].fat[i] = FatOf(card, (s - fatbase(L)) * FatEntries + i)
    BY <1>1, <2>1, <2>2
  <2> QED
    BY <2>4, <2>5, <2>7, <2>8
<1>7. Covered(L, F, v)
  <2>1. \A c \in ClusterSet :
          /\ Card(L, v, c) = 0 \/ Lib(L, v, c) = 0 => c \in F
          /\ c \in F => Within(F, Card(L, v, c)) /\ Within(F, Lib(L, v, c))
    BY <1>6 DEF Within
  <2>2. InfoFree(L, v) \in {MaxDword, Cardinality(F)}
    BY <1>1, <1>3 DEF InfoFree
  <2> HIDE DEF F
  <2>3. F \in SUBSET ClusterSet
    BY DEF F
  <2>4. InfoFree(L, v) <= Clusters => InfoFree(L, v) >= Cardinality(F)
    <3>1. Cardinality(F) \in Nat
      BY <2>3, FreeClustersCounted
    <3> QED
      BY <2>2, <3>1, Constants
  <2> QED
    BY <2>1, <2>3, <2>4 DEF Covered
<1>8. Linked(L, v)
  <2>1. L = GeometryOf(card) /\ v.disk = Formatted(card)
    BY DEF L
  <2> HIDE DEF F
  <2> QED
    BY <1>4, <1>6, <2>1, CardLinked
<1> QED
  BY <1>4, <1>5, <1>7, <1>8 DEF Sound, L

\* The invariant holds of every card of CardsAssumption.
LEMMA VolumeInit == Init => VolumeInv
<1> SUFFICES ASSUME Init PROVE VolumeInv
  OBVIOUS
<1>1. PICK card \in Cards : /\ disk = Formatted(card)
                            /\ content = [i \in 1 .. card.size |-> Stamp(i)]
                            /\ task = card.task
  BY DEF Init
<1> DEFINE L == GeometryOf(card)
           F == {c \in ClusterSet : FatOf(card, c) = 0}
<1>2. IsVolume(Volume) /\ Off(Volume) /\ Volume.disk = Formatted(card)
  BY <1>1, Constants DEF Init, Volume, IsVolume, Off
<1>3. Sound(L, F, Volume)
  BY <1>2, CardSound
<1>4. L \in Geometries /\ card.size \in Nat
  BY CardFacts
<1>5. content \in Seq({Stamp(i) : i \in 1 .. card.size})
  BY <1>1, <1>4
<1>6. phase = "mount" /\ stuck = FALSE
  BY DEF Init
<1>8. L.name = Name
  BY <1>1 DEF GeometryOf, Name
<1> HIDE DEF L, F
<1>7. VolumeHolds(L, Volume, phase, content)
  BY <1>2, <1>3, <1>4, <1>5, <1>6, OffHolds DEF SomeSound
<1> QED
  BY <1>4, <1>6, <1>7, <1>8 DEF VolumeInv

\* Whatever is refused and whenever the power goes, the invariant holds: the sectors have
\* what belongs there, the window what may be written back, the FATFS and FIL objects fit
\* the volume, both counts of free clusters are not short, and every entry has a chain of
\* its own (FatVolume's actions, that is the API functions of ff.c with all their disk
\* calls).
THEOREM VolumeSound == Spec => []VolumeInv
<1>1. Init => VolumeInv
  BY VolumeInit
<1>2. VolumeInv /\ [Next]_vars => VolumeInv'
  BY VolumeStep
<1> QED
  BY <1>1, <1>2, PTL DEF Spec

--------------------------------------------------------------------------------
\* The chains of a FAT with such links.  A path from the head of one is part of it.
Path(f, c, s) ==
  /\ s \in Seq(ClusterSet) /\ s # <<>> /\ s[1] = c
  /\ \A i \in Nat : i \in DOMAIN s /\ i + 1 \in DOMAIN s => s[i + 1] = f[s[i]]

\* The chain as a reader finds it, link by link.
ChainStep(d, n, chain) ==
  LET next == FatEntry(d, chain[Len(chain)])
  IN  IF chain # <<>> /\ IsCluster(next) THEN Append(chain, next) ELSE chain
ChainGood(d, q, n, chain) ==
  /\ chain \in Seq(ClusterSet)
  /\ IsHead(q.f, q.c) =>
       /\ Path(q.f, q.c, chain)
       /\ Len(chain) = n + 1 \/ q.f[chain[Len(chain)]] \notin ClusterSet
Chain == INSTANCE Induction WITH Step <- ChainStep, Good <- ChainGood

\* What is read from a FAT entry is a cluster if the volume has it.
LEMMA Clusterness ==
  \A c : c \in Nat \cup {0, EOC} \cup ClusterSet => (IsCluster(c) <=> c \in ClusterSet)
<1>1. EOC \in Nat /\ \A c \in ClusterSet : c \in Nat
  BY Constants, Sizes DEF EOC, ClusterSet
<1>2. \A c \in Nat : IsCluster(c) <=> c \in ClusterSet
  BY Sizes DEF IsCluster, ClusterSet
<1> QED
  BY <1>1, <1>2

\* Two paths meet nowhere, and none meets itself, as no two links lead to one cluster.
LEMMA PathsApart ==
  ASSUME NEW f, Links(f), NEW c, NEW d, IsHead(f, c), IsHead(f, d),
         NEW s, NEW t, Path(f, c, s), Path(f, d, t)
  PROVE  \A i \in DOMAIN s, j \in DOMAIN t : s[i] = t[j] => i = j /\ c = d
<1> DEFINE Meets(i) == \A j \in DOMAIN t : s[i] = t[j] => i = j /\ c = d
           T == {n \in Nat : n \in DOMAIN s => Meets(n)}
<1>1. /\ \A i \in DOMAIN s : i \in Nat \ {0} /\ s[i] \in ClusterSet
      /\ \A j \in DOMAIN t : j \in Nat \ {0} /\ t[j] \in ClusterSet
      /\ s[1] = c /\ t[1] = d
      /\ \A i \in DOMAIN s : \A n \in Nat \ {0} : n <= i => n \in DOMAIN s
      /\ \A i \in DOMAIN t : \A n \in Nat \ {0} : n <= i => n \in DOMAIN t
  BY DEF Path
<1>2. \A j \in DOMAIN t : j # 1 =>
        /\ j - 1 \in DOMAIN t /\ t[j] = f[t[j - 1]]
        /\ t[j - 1] \in ClusterSet
  <2> TAKE j \in DOMAIN t
  <2> SUFFICES ASSUME j # 1
               PROVE  j - 1 \in DOMAIN t /\ t[j] = f[t[j - 1]] /\ t[j - 1] \in ClusterSet
    OBVIOUS
  <2>1. j - 1 \in Nat \ {0} /\ j - 1 <= j /\ (j - 1) + 1 = j
    BY <1>1
  <2>2. j - 1 \in DOMAIN t
    BY <1>1, <2>1
  <2> QED
    BY <1>1, <2>1, <2>2 DEF Path
<1>3. /\ \A x \in ClusterSet : f[x] # c /\ f[x] # d
      /\ \A x, y \in ClusterSet : f[x] = f[y] /\ f[x] \in ClusterSet => x = y
  BY DEF IsHead, Links
<1>4. 0 \in T
  BY <1>1
<1>5. ASSUME NEW n \in Nat, n \in T
      PROVE  n + 1 \in T
  <2> SUFFICES ASSUME n + 1 \in DOMAIN s, NEW j \in DOMAIN t, s[n + 1] = t[j]
               PROVE  n + 1 = j /\ c = d
    OBVIOUS
  <2>1. CASE n = 0
    <3>1. t[j] = c
      BY <1>1, <2>1
    <3>2. j = 1
      BY <1>2, <1>3, <3>1
    <3> QED
      BY <1>1, <2>1, <3>1, <3>2
  <2>2. CASE n # 0
    <3>1. n \in DOMAIN s /\ Meets(n)
      BY <1>1, <1>5, <2>2
    <3>2. s[n + 1] = f[s[n]] /\ s[n] \in ClusterSet /\ s[n + 1] \in ClusterSet
      BY <1>1, <3>1 DEF Path
    <3>3. j # 1
      BY <1>1, <1>3, <3>2
    <3>4. j - 1 \in DOMAIN t /\ t[j] = f[t[j - 1]] /\ t[j - 1] \in ClusterSet
      BY <1>2, <3>3
    <3>5. s[n] = t[j - 1]
      BY <1>3, <3>2, <3>4
    <3>6. n = j - 1 /\ c = d
      BY <3>1, <3>4, <3>5
    <3> QED
      BY <1>1, <3>6
  <2> QED
    BY <2>1, <2>2
<1> HIDE DEF T
<1>6. \A n \in Nat : n \in T
  BY <1>4, <1>5, Chain!NatSetInduction
<1> QED
  BY <1>1, <1>6 DEF T

\* How many clusters it has.
LEMMA PathLength ==
  ASSUME NEW f, Links(f), NEW c, IsHead(f, c), NEW s, Path(f, c, s)
  PROVE  Len(s) = Cardinality(ClustersOf(s)) /\ Len(s) <= Clusters
<1> DEFINE T == ClustersOf(s)
<1>1. s \in Seq(ClusterSet) /\ Len(s) \in Nat /\ DOMAIN s = 1 .. Len(s)
  BY DEF Path
<1>2. \A i, j \in DOMAIN s : s[i] = s[j] => i = j
  BY PathsApart
<1>3. T \in SUBSET ClusterSet /\ T = {s[i] : i \in DOMAIN s}
  BY <1>1 DEF ClustersOf
<1>4. s \in [1 .. Len(s) -> T]
  BY <1>1, <1>3
<1>5. s \in Injection(1 .. Len(s), T) /\ s \in Surjection(1 .. Len(s), T)
  BY <1>1, <1>2, <1>3, <1>4 DEF Injection, Surjection, IsInjective
<1>6. IsFiniteSet(1 .. Len(s)) /\ Cardinality(1 .. Len(s)) = Len(s)
  BY <1>1, FS_Interval
<1> HIDE DEF T
<1>7. Cardinality(T) = Len(s)
  BY <1>5, <1>6, FS_Surjection
<1>8. Cardinality(T) <= Clusters
  BY <1>3, FreeClustersCounted
<1> QED
  BY <1>7, <1>8 DEF T

\* A path that no link leads on from ends the chain.
LEMMA PathEnds ==
  ASSUME NEW f, Links(f), NEW c, IsHead(f, c), NEW s, Path(f, c, s),
         f[s[Len(s)]] \notin ClusterSet
  PROVE  f[s[Len(s)]] = EOC
<1> DEFINE n == Len(s)
<1>1. n \in Nat \ {0} /\ DOMAIN s = 1 .. n /\ s[1] = c /\ \A i \in 1 .. n : s[i] \in ClusterSet
  BY DEF Path
<1>2. CASE n = 1
  BY <1>1, <1>2 DEF Links, IsHead
<1>3. CASE n # 1
  <2>1. n - 1 \in Nat /\ n - 1 \in DOMAIN s /\ (n - 1) + 1 = n /\ n \in DOMAIN s
    BY <1>1, <1>3
  <2> HIDE DEF n
  <2>2. s[n] = f[s[n - 1]] /\ s[n - 1] \in ClusterSet /\ s[n] \in ClusterSet
    BY <1>1, <2>1 DEF Path
  <2>3. f[f[s[n - 1]]] # 0 /\ f[s[n]] \in {0, EOC} \cup ClusterSet
    BY <2>2 DEF Links
  <2> QED
    BY <2>2, <2>3 DEF n
<1> QED
  BY <1>2, <1>3

\* A path with the next cluster is a path.
LEMMA PathAppended ==
  ASSUME NEW f, NEW c, NEW s, Path(f, c, s), f[s[Len(s)]] \in ClusterSet
  PROVE  Path(f, c, Append(s, f[s[Len(s)]]))
<1> DEFINE n == Len(s)
           x == f[s[n]]
           t == Append(s, x)
<1>1. /\ s \in Seq(ClusterSet) /\ n \in Nat \ {0} /\ DOMAIN s = 1 .. n /\ s[1] = c
      /\ x \in ClusterSet
  BY DEF Path
<1> HIDE DEF n
<1>2. x = f[s[n]]
  OBVIOUS
<1> HIDE DEF x
<1>3. /\ t \in Seq(ClusterSet) /\ DOMAIN t = 1 .. n + 1 /\ t # <<>>
      /\ \A i \in 1 .. n : t[i] = s[i]
      /\ t[n + 1] = x
  BY <1>1 DEF n
<1> HIDE DEF t
<1>4. ASSUME NEW i \in Nat, i \in DOMAIN t, i + 1 \in DOMAIN t
      PROVE  t[i + 1] = f[t[i]]
  <2>1. i \in 1 .. n /\ (i = n \/ i + 1 \in 1 .. n)
    BY <1>1, <1>3, <1>4
  <2>2. CASE i = n
    BY <1>2, <1>3, <2>1, <2>2
  <2>3. CASE i + 1 \in 1 .. n
    <3>1. s[i + 1] = f[s[i]]
      BY <1>1, <2>1, <2>3 DEF Path
    <3> QED
      BY <1>3, <2>1, <2>3, <3>1
  <2> QED
    BY <2>1, <2>2, <2>3
<1>5. t[1] = c
  BY <1>1, <1>3
<1>6. Path(f, c, t)
  BY <1>3, <1>4, <1>5 DEF Path
<1> QED
  BY <1>6 DEF t, x, n

\* A cluster is a path.
LEMMA PathOne ==
  ASSUME NEW f, NEW c \in ClusterSet
  PROVE  Path(f, c, <<c>>) /\ Len(<<c>>) = 1
BY DEF Path

\* FAT f as it is in sectors d.
Reads(d, f) == \A c \in ClusterSet : FatEntry(d, c) = f[c]

\* A reader that has followed n links follows one more, or is at the end.
LEMMA ChainStepGood ==
  ASSUME NEW d, NEW f, Links(f), Reads(d, f), NEW c, NEW n \in Nat, NEW chain,
         ChainGood(d, [f |-> f, c |-> c], n, chain)
  PROVE  ChainGood(d, [f |-> f, c |-> c], n + 1, ChainStep(d, n + 1, chain))
<1> DEFINE x == f[chain[Len(chain)]]
<1>1. /\ chain \in Seq(ClusterSet)
      /\ IsHead(f, c) => /\ Path(f, c, chain)
                         /\ Len(chain) = n + 1 \/ x \notin ClusterSet
  BY DEF ChainGood
<1>2. CASE chain = <<>>
  <2>1. ChainStep(d, n + 1, chain) = chain /\ ~IsHead(f, c)
    BY <1>1, <1>2 DEF ChainStep, Path
  <2> QED
    BY <1>1, <2>1 DEF ChainGood
<1>3. CASE chain # <<>>
  <2>1. chain[Len(chain)] \in ClusterSet
    BY <1>1, <1>3
  <2>2. FatEntry(d, chain[Len(chain)]) = x /\ x \in {0, EOC} \cup ClusterSet
    BY <2>1 DEF Reads, Links
  <2>3. IsCluster(x) <=> x \in ClusterSet
    BY <2>2, Clusterness
  <2>4. ChainStep(d, n + 1, chain) = IF x \in ClusterSet THEN Append(chain, x) ELSE chain
    BY <1>3, <2>2, <2>3 DEF ChainStep
  <2>5. CASE x \in ClusterSet
    <3> DEFINE t == Append(chain, x)
    <3>1. t \in Seq(ClusterSet) /\ Len(t) = Len(chain) + 1
      BY <1>1, <2>5
    <3>2. IsHead(f, c) => Path(f, c, t)
      BY <1>1, <2>5, PathAppended
    <3> HIDE DEF t
    <3>3. IsHead(f, c) => Path(f, c, t) /\ Len(t) = (n + 1) + 1
      BY <1>1, <2>5, <3>1, <3>2
    <3>4. ChainStep(d, n + 1, chain) = t
      BY <2>4, <2>5 DEF t
    <3> QED
      BY <3>1, <3>3, <3>4 DEF ChainGood
  <2>6. CASE x \notin ClusterSet
    <3>1. ChainStep(d, n + 1, chain) = chain
      BY <2>4, <2>6
    <3> HIDE DEF x
    <3>2. IsHead(f, c) => Path(f, c, chain) /\ x \notin ClusterSet
      BY <1>1, <2>6
    <3> QED
      BY <1>1, <3>1, <3>2 DEF ChainGood, x
  <2> QED
    BY <2>5, <2>6
<1> QED
  BY <1>2, <1>3

\* From a head it is the whole chain.
LEMMA ChainIs ==
  ASSUME NEW d, NEW f, Links(f), Reads(d, f), NEW c \in Nat
  PROVE  /\ ChainFrom(d, c) \in Seq(ClusterSet)
         /\ IsHead(f, c) => /\ Path(f, c, ChainFrom(d, c))
                            /\ FatEntry(d, ChainFrom(d, c)[Len(ChainFrom(d, c))]) = EOC
<1> DEFINE base == IF IsCluster(c) THEN <<c>> ELSE <<>>
           q == [f |-> f, c |-> c]
           s == ChainFrom(d, c)
<1>1. s = Chain!Recursive(d, base, Clusters)[Clusters]
  BY DEF ChainFrom, Chain!Recursive, ChainStep
<1>2. ChainGood(d, q, 0, base)
  <2>1. IsCluster(c) <=> c \in ClusterSet
    BY Clusterness
  <2>2. CASE c \in ClusterSet
    <3>1. base = <<c>> /\ Path(f, c, <<c>>) /\ Len(<<c>>) = 1
      BY <2>1, <2>2, PathOne
    <3>2. <<c>> \in Seq(ClusterSet)
      BY <2>2
    <3> HIDE DEF base
    <3> QED
      BY <3>1, <3>2 DEF ChainGood
  <2>3. CASE c \notin ClusterSet
    <3>1. base = <<>> /\ ~IsHead(f, c)
      BY <2>1, <2>3 DEF IsHead
    <3> HIDE DEF base
    <3> QED
      BY <3>1, EmptySeq DEF ChainGood
  <2> QED
    BY <2>2, <2>3
<1>3. ASSUME NEW n \in 1 .. Clusters, NEW x, ChainGood(d, q, n - 1, x)
      PROVE  ChainGood(d, q, n, ChainStep(d, n, x))
  <2>1. n - 1 \in Nat /\ (n - 1) + 1 = n
    BY Constants
  <2>2. ChainGood(d, q, (n - 1) + 1, ChainStep(d, (n - 1) + 1, x))
    BY <1>3, <2>1, ChainStepGood
  <2> QED
    BY <2>1, <2>2
<1>4. Clusters \in Nat /\ Clusters \in 0 .. Clusters
  BY Constants
<1> HIDE DEF base, q
<1>5. \A n \in 0 .. Clusters : ChainGood(d, q, n, Chain!Recursive(d, base, Clusters)[n])
  BY <1>2, <1>3, <1>4, Chain!RecursionInduction
<1>6. ChainGood(d, q, Clusters, s)
  BY <1>1, <1>4, <1>5
<1> HIDE DEF s
<1>7. /\ s \in Seq(ClusterSet)
      /\ IsHead(f, c) => /\ Path(f, c, s)
                         /\ Len(s) = Clusters + 1 \/ f[s[Len(s)]] \notin ClusterSet
  BY <1>6 DEF ChainGood, q
<1>8. ASSUME IsHead(f, c)
      PROVE  FatEntry(d, s[Len(s)]) = EOC
  <2>1. Path(f, c, s) /\ Len(s) <= Clusters /\ Len(s) \in Nat
    BY <1>7, <1>8, PathLength
  <2>2. f[s[Len(s)]] \notin ClusterSet
    BY <1>4, <1>7, <1>8, <2>1
  <2>3. f[s[Len(s)]] = EOC
    BY <1>8, <2>1, <2>2, PathEnds
  <2>4. s[Len(s)] \in ClusterSet
    BY <1>7, <2>1 DEF Path
  <2> QED
    BY <2>3, <2>4 DEF Reads
<1> QED
  BY <1>7, <1>8 DEF s

--------------------------------------------------------------------------------
\* What the card's reader sees is the layout of the invariant.
LEMMA ReadLayout ==
  ASSUME NEW L \in Geometries, NEW F, Sound(L, F, Volume)
  PROVE  BootSector = L.volbase /\ Mounted(L, Layout)
<1>1. /\ disk = [s \in Sectors(L) |-> disk[s]] /\ DOMAIN disk = Sectors(L)
      /\ \A s \in Sectors(L) : Fits(L, s, disk[s])
  BY DEF Sound, Shape, Contents, Volume
<1>2. /\ {0, L.volbase} \subseteq Sectors(L) /\ Sectors(L) \subseteq Nat
      /\ L.volbase \in Nat /\ fatbase(L) = L.volbase + 2 /\ PlainStart(L) \in Nat
      /\ PlainStart(L) >= fatbase(L)
  BY Regions, Places, Sizes
<1>3. disk[L.volbase] = Boot(L)
  BY <1>1, <1>2 DEF Fits, Boot
<1>4. \A s \in Sectors(L) : disk[s].kind = "vbr" => s = L.volbase
  <2> TAKE s \in Sectors(L)
  <2>0. s \in Nat /\ Fits(L, s, disk[s])
    BY <1>1, <1>2
  <2>1. CASE s < L.volbase
    BY <2>0, <2>1 DEF Fits
  <2>2. CASE s = L.volbase + 1
    BY <2>0, <2>2 DEF Fits
  <2>3. CASE s >= fatbase(L) /\ s < PlainStart(L)
    BY <2>0, <2>3 DEF Fits
  <2>4. CASE s >= PlainStart(L)
    BY <2>0, <2>4 DEF Fits
  <2> QED
    BY <1>2, <2>0, <2>1, <2>2, <2>3, <2>4
<1>5. disk[L.volbase].kind = "vbr"
  BY <1>3 DEF Boot
<1>6. BootSector = L.volbase
  <2>1. CASE disk[0].kind = "vbr"
    BY <1>2, <1>4, <2>1 DEF BootSector
  <2>2. CASE disk[0].kind # "vbr"
    <3> DEFINE s == CHOOSE t \in DOMAIN disk : disk[t].kind = "vbr"
    <3>1. s \in DOMAIN disk /\ disk[s].kind = "vbr"
      BY <1>1, <1>2, <1>5
    <3>2. BootSector = s
      BY <2>2 DEF BootSector
    <3> HIDE DEF s
    <3> QED
      BY <1>1, <1>4, <3>1, <3>2
  <2> QED
    BY <2>1, <2>2
<1>7. Mounted(L, Layout)
  BY <1>3, <1>6 DEF Layout, Boot, Mounted
<1> QED
  BY <1>6, <1>7

\* The FAT on the card and the one the library has.
LEMMA ReadFat ==
  ASSUME NEW L \in Geometries, NEW F, Sound(L, F, Volume)
  PROVE  \A c \in ClusterSet : /\ FatEntry(OnCard, c) = Card(L, Volume, c)
                               /\ FatEntry(InLibrary, c) = Lib(L, Volume, c)
<1> TAKE c \in ClusterSet
<1> DEFINE s == FatSect(L, c)
           i == c % FatEntries
<1>1. /\ DOMAIN disk = Sectors(L)
      /\ fs.winsect \in Sectors(L) \cup {NoSector}
      /\ Volume.disk = disk /\ Volume.fs = fs
  BY DEF Sound, Shape, IsFatFs, Volume
<1>2. s \in Sectors(L) /\ s # NoSector
  BY FatSects, Regions
<1>3. BootSector + 2 + c \div FatEntries = s
  BY ReadLayout, Places DEF FatSect, fatbase
<1>4. \A d : FatEntry(d, c) = d[s].fat[i]
  BY <1>3 DEF FatEntry
<1>5. Card(L, Volume, c) = disk[s].fat[i]
  BY <1>1 DEF Card
<1>6. Lib(L, Volume, c) = IF fs.winsect = s THEN fs.win.fat[i] ELSE disk[s].fat[i]
  BY <1>1, <1>5 DEF Lib
<1>7. InLibrary[s] = IF fs.winsect = s THEN fs.win ELSE disk[s]
  BY <1>1, <1>2 DEF InLibrary, WithWindow
<1> HIDE DEF s, i
<1> QED
  BY <1>4, <1>5, <1>6, <1>7 DEF OnCard

\* The sectors of a chain, and those in which a reader looks for the entries of a directory.
LEMMA SectorsPlain ==
  ASSUME NEW L \in Geometries, NEW F, Sound(L, F, Volume), NEW chain \in Seq(ClusterSet)
  PROVE  SectorsOf(chain) \in Seq(PlainSectors(L))
<1> DEFINE N == csize * Len(chain)
           At(i) == clst2sect(Layout, chain[(i - 1) \div csize + 1]) + ((i - 1) % csize)
<1>1. SectorsOf(chain) = [i \in 1 .. N |-> At(i)]
  BY DEF SectorsOf
<1>2. Len(chain) \in Nat /\ N \in Nat /\ csize \in Nat \ {0}
  BY Constants
<1>3. \A c \in ClusterSet : \A k \in 0 .. csize - 1 :
        clst2sect(Layout, c) + k \in PlainSectors(L)
  BY ReadLayout, ClusterSectors
<1>4. ASSUME NEW i \in 1 .. N
      PROVE  At(i) \in PlainSectors(L)
  <2> DEFINE q == (i - 1) \div csize
             r == (i - 1) % csize
  <2>1. i - 1 \in Nat
    OBVIOUS
  <2>2. q \in Nat /\ r \in 0 .. csize - 1 /\ i - 1 = csize * q + r
    BY <1>2, <2>1, Division
  <2>3. At(i) = clst2sect(Layout, chain[q + 1]) + r
    OBVIOUS
  <2> HIDE DEF q, r, At
  <2>4. csize * q < csize * Len(chain)
    BY <1>2, <2>2
  <2>5. q < Len(chain)
    BY <1>2, <2>2, <2>4, Monotone
  <2>6. chain[q + 1] \in ClusterSet
    BY <1>2, <2>2, <2>5
  <2> QED
    BY <1>3, <2>2, <2>3, <2>6
<1> HIDE DEF At, N
<1> QED
  BY <1>1, <1>2, <1>4

DirSectors(d, c) ==
  IF c = 0 /\ ~IsFat32(Layout) THEN <<dirbase(Layout)>>
  ELSE SectorsOf(ChainFrom(d, IF c = 0 THEN dirbase(Layout) ELSE c))

\* The sectors of a directory are behind the FATs.
LEMMA DirSectorsPlain ==
  ASSUME NEW L \in Geometries, NEW F, Sound(L, F, Volume),
         NEW d, NEW f, Links(f), Reads(d, f), NEW c \in Nat
  PROVE  DirSectors(d, c) \in Seq(PlainSectors(L))
<1>1. /\ IsFat32(Layout) => dirbase(Layout) = 2
      /\ ~IsFat32(Layout) => dirbase(Layout) \in PlainSectors(L)
  BY ReadLayout, ClusterSectors
<1>2. CASE c = 0 /\ ~IsFat32(Layout)
  <2>1. dirbase(Layout) \in PlainSectors(L)
    BY <1>1, <1>2
  <2>2. <<dirbase(Layout)>> \in Seq(PlainSectors(L))
    BY <2>1
  <2> QED
    BY <1>2, <2>2 DEF DirSectors
<1>3. CASE ~(c = 0 /\ ~IsFat32(Layout))
  <2> DEFINE x == IF c = 0 THEN dirbase(Layout) ELSE c
  <2>1. x \in Nat
    BY <1>1, <1>3
  <2>2. DirSectors(d, c) = SectorsOf(ChainFrom(d, x))
    BY <1>3 DEF DirSectors
  <2> HIDE DEF x
  <2>3. ChainFrom(d, x) \in Seq(ClusterSet)
    BY <2>1, ChainIs
  <2> QED
    BY <2>2, <2>3, SectorsPlain
<1> QED
  BY <1>2, <1>3

\* What the card has or the library sees of a sector is a version of it.
IsView(d) == d = OnCard \/ d = InLibrary

\* What is seen of a sector is one of its versions, and has a table.
LEMMA SeenVersions ==
  ASSUME NEW L \in Geometries, NEW F, Sound(L, F, Volume), NEW d, IsView(d),
         NEW s \in PlainSectors(L)
  PROVE  d[s] \in Versions(Volume, s) /\ IsTable(AsDir(d[s]))
<1>1. /\ DOMAIN disk = Sectors(L)
      /\ fs.winsect \in Sectors(L) \cup {NoSector}
      /\ Volume.disk = disk /\ Volume.fs = fs
  BY DEF Sound, Shape, IsFatFs, Volume
<1>2. s \in Sectors(L) /\ s # NoSector
  BY Regions
<1>3. d[s] = disk[s] \/ (fs.winsect = s /\ d[s] = fs.win)
  BY <1>1, <1>2 DEF IsView, OnCard, InLibrary, WithWindow
<1>4. d[s] \in Versions(Volume, s)
  BY <1>1, <1>3 DEF Versions
<1>5. Fits(L, s, d[s])
  BY <1>1, <1>2, <1>3 DEF Sound, Contents
<1>6. IsTable(AsDir(d[s]))
  BY <1>5, Tables
<1> QED
  BY <1>4, <1>6

\* An entry with a cluster that a reader finds is held.
LEMMA EntriesHeld ==
  ASSUME NEW L \in Geometries, NEW F, Sound(L, F, Volume), NEW d, IsView(d),
         NEW f, Links(f), Reads(d, f), NEW c \in Nat, NEW e \in EntriesIn(d, c)
  PROVE  /\ e.clst \in Nat
         /\ e.clst # 0 /\ e.name \notin {"dot", "dotdot", "junk"} =>
              \E h \in Held(L, Volume) : h.e = e
<1> DEFINE sects == DirSectors(d, c)
           At(i) == AsDir(d[sects[i \div DirEntries + 1]])[i % DirEntries]
           all == 0 .. DirEntries * Len(sects) - 1
           ends == {i \in all : At(i).name = "end"}
<1>1. EntriesIn(d, c) = {At(i) : i \in {j \in all : \A k \in ends : j < k}}
  BY DEF EntriesIn, DirSectors
<1>2. PICK i \in all : e = At(i) /\ \A k \in ends : i < k
  BY <1>1
<1>3. sects \in Seq(PlainSectors(L))
  BY DirSectorsPlain
<1> HIDE DEF sects
<1>4. i \in Nat /\ Len(sects) \in Nat /\ DirEntries \in Nat \ {0}
  BY <1>3, Constants
<1>5. e.name # "end"
  <2> HIDE DEF At, all
  <2>1. At(i).name = "end" => i \in ends
    BY <1>2
  <2> HIDE DEF ends
  <2>2. ~(i < i)
    BY <1>4
  <2> QED
    BY <1>2, <2>1, <2>2
<1> DEFINE q == i \div DirEntries
           r == i % DirEntries
<1>6. q \in Nat /\ r \in 0 .. DirEntries - 1 /\ i = DirEntries * q + r
  BY <1>4, Division
<1>7. e = AsDir(d[sects[q + 1]])[r]
  BY <1>2
<1>8. i < DirEntries * Len(sects)
  BY <1>2, <1>4
<1> HIDE DEF q, r, At, all, ends
<1>9. DirEntries * q < DirEntries * Len(sects)
  BY <1>4, <1>6, <1>8
<1>10. q < Len(sects)
  BY <1>4, <1>6, <1>9, Monotone
<1> DEFINE s == sects[q + 1]
<1>11. s \in PlainSectors(L)
  BY <1>3, <1>4, <1>6, <1>10
<1> HIDE DEF s
<1>12. e = AsDir(d[s])[r] /\ r \in Slots
  BY <1>6, <1>7 DEF s, Slots
<1>13. d[s] \in Versions(Volume, s) /\ IsTable(AsDir(d[s]))
  BY <1>11, SeenVersions
<1>14. IsEntry(e)
  BY <1>12, <1>13 DEF IsTable, Slots
<1>15. e.clst \in Nat
  BY <1>14 DEF IsEntry
<1>16. ASSUME e.clst # 0, e.name \notin {"dot", "dotdot", "junk"}
       PROVE  \E h \in Held(L, Volume) : h.e = e
  <2>1. Live(e)
    BY <1>5, <1>16 DEF Live
  <2>2. [sect |-> s, slot |-> r, e |-> e] \in Held(L, Volume)
    BY <1>11, <1>12, <1>13, <2>1, HeldIs
  <2> QED
    BY <2>2
<1> QED
  BY <1>15, <1>16

\* A reader finds every file and directory at the head of a chain, each at its own.
Owns(f, S) ==
  /\ \A o \in S : o = <<o[1], o[2]>> /\ IsHead(f, o[2])
  /\ \A o, p \in S : o[2] = p[2] => o = p

\* So is each of those it finds in the two directories.
LEMMA EntryObjects ==
  ASSUME NEW L \in Geometries, NEW F, Sound(L, F, Volume), NEW d, IsView(d),
         NEW f, Links(f), Reads(d, f), NEW e \in Root(d) \cup Logs(d),
         e.clst # 0, e.name \notin {"dot", "dotdot", "junk"}
  PROVE  \E h \in Held(L, Volume) : h.e = e
<1>1. CASE e \in Root(d)
  BY <1>1, EntriesHeld DEF Root
<1>2. CASE e \in Logs(d)
  <2>1. PICK x \in Root(d) : e \in EntriesIn(d, x.clst)
    BY <1>2 DEF Logs
  <2>2. x.clst \in Nat
    BY <2>1, EntriesHeld DEF Root
  <2> QED
    BY <2>1, <2>2, EntriesHeld
<1> QED
  BY <1>1, <1>2

\* The chains of all files and directories, each its own.
LEMMA ObjectsOwn ==
  ASSUME NEW L \in Geometries, L.name = Name, NEW F, Sound(L, F, Volume), NEW d, IsView(d),
         NEW f, Reads(d, f), HeadsIn(L, f, Held(L, Volume)), Apart(L, Held(L, Volume)),
         d = InLibrary => OwnFile(L, f, Held(L, Volume), fp)
  PROVE  Owns(f, Objects(d))
<1> DEFINE H == Held(L, Volume)
           A == {<<e.name, e.clst>> : e \in {x \in Root(d) \cup Logs(d) :
                   x.clst # 0 /\ x.name \notin {"dot", "dotdot", "junk"}}}
           B == IF IsFat32(Layout) THEN {<<"root", 2>>} ELSE {}
           C == IF d = InLibrary /\ fp.sclust # 0 THEN {<<Name, fp.sclust>>} ELSE {}
<1>1. Objects(d) = A \cup B \cup C
  BY DEF Objects
<1>2. /\ Links(f) /\ \A h \in H : IsHead(f, h.e.clst) /\ ~IsRoot(L, h.e.clst)
      /\ \A h, k \in H : h.e.clst = k.e.clst => h.e.name = k.e.name
  BY DEF HeadsIn, Apart
<1>3. ASSUME NEW o \in A
      PROVE  \E h \in H : o = <<h.e.name, h.e.clst>>
  BY <1>2, EntryObjects
<1>4. ASSUME NEW o \in B
      PROVE  o = <<"root", 2>> /\ IsHead(f, 2) /\ IsRoot(L, 2)
  <2>1. o = <<"root", 2>> /\ IsFat32(Layout)
    OBVIOUS
  <2>2. L.fs_type = "FAT32"
    BY <2>1, ReadLayout DEF IsFat32, Mounted
  <2> QED
    BY <2>1, <2>2 DEF HeadsIn, IsRoot
<1>5. ASSUME NEW o \in C
      PROVE  /\ o = <<L.name, fp.sclust>>
             /\ IsHead(f, fp.sclust) /\ ~IsRoot(L, fp.sclust)
             /\ \A h \in H : h.e.clst = fp.sclust => h.e.name = L.name
  <2>1. d = InLibrary /\ fp.sclust # 0 /\ o = <<Name, fp.sclust>>
    OBVIOUS
  <2> QED
    BY <2>1 DEF OwnFile
<1> HIDE DEF A, B, C, H
<1>6. ASSUME NEW o \in A \cup B \cup C
      PROVE  o = <<o[1], o[2]>> /\ IsHead(f, o[2])
  <2>1. CASE o \in A
    <3>1. PICK h \in H : o = <<h.e.name, h.e.clst>>
      BY <1>3, <2>1
    <3>2. o[1] = h.e.name /\ o[2] = h.e.clst
      BY <3>1
    <3> QED
      BY <1>2, <3>1, <3>2
  <2>2. CASE o \in B
    <3>1. o = <<"root", 2>> /\ IsHead(f, 2)
      BY <1>4, <2>2
    <3>2. o[1] = "root" /\ o[2] = 2
      BY <3>1
    <3> QED
      BY <3>1, <3>2
  <2>3. CASE o \in C
    <3>1. o = <<L.name, fp.sclust>> /\ IsHead(f, fp.sclust)
      BY <1>5, <2>3
    <3>2. o[1] = L.name /\ o[2] = fp.sclust
      BY <3>1
    <3> QED
      BY <3>1, <3>2
  <2> QED
    BY <2>1, <2>2, <2>3
<1>7. /\ \A o \in A : ~IsRoot(L, o[2]) /\ \E h \in H : o[1] = h.e.name /\ o[2] = h.e.clst
      /\ \A o \in B : IsRoot(L, o[2]) /\ o[1] = "root"
      /\ \A o \in C : /\ ~IsRoot(L, o[2]) /\ o[1] = L.name
                      /\ \A h \in H : h.e.clst = o[2] => h.e.name = L.name
  <2>1. ASSUME NEW o \in A
        PROVE  ~IsRoot(L, o[2]) /\ \E h \in H : o[1] = h.e.name /\ o[2] = h.e.clst
    <3>1. PICK h \in H : o = <<h.e.name, h.e.clst>>
      BY <1>3
    <3>2. o[1] = h.e.name /\ o[2] = h.e.clst
      BY <3>1
    <3> QED
      BY <1>2, <3>2
  <2>2. ASSUME NEW o \in B
        PROVE  IsRoot(L, o[2]) /\ o[1] = "root"
    <3>1. o = <<"root", 2>> /\ IsRoot(L, 2)
      BY <1>4
    <3>2. o[1] = "root" /\ o[2] = 2
      BY <3>1
    <3> QED
      BY <3>1, <3>2
  <2>3. ASSUME NEW o \in C
        PROVE  /\ ~IsRoot(L, o[2]) /\ o[1] = L.name
               /\ \A h \in H : h.e.clst = o[2] => h.e.name = L.name
    <3>1. o = <<L.name, fp.sclust>>
      BY <1>5
    <3>2. o[1] = L.name /\ o[2] = fp.sclust
      BY <3>1
    <3> QED
      BY <1>5, <3>2
  <2> QED
    BY <2>1, <2>2, <2>3
<1>8. ASSUME NEW o \in A \cup B \cup C, NEW p \in A \cup B \cup C, o[2] = p[2]
      PROVE  o = p
  <2>1. CASE IsRoot(L, o[2])
    BY <1>6, <1>7, <1>8, <2>1
  <2>2. CASE ~IsRoot(L, o[2])
    <3>1. o[1] = p[1]
      BY <1>2, <1>7, <1>8, <2>2
    <3> QED
      BY <1>6, <1>8, <3>1
  <2> QED
    BY <2>1, <2>2
<1> QED
  BY <1>1, <1>6, <1>8 DEF Owns

\* What that is worth: as many chains as objects, each allocated to its end, no two of
\* which have a cluster in common.
LEMMA OwnsSound ==
  ASSUME NEW d, NEW f, Links(f), Reads(d, f), Owns(f, Objects(d))
  PROVE  SoundIn(d)
<1> DEFINE O == Objects(d)
           From(o) == ChainFrom(d, o[2])
           heads == [o \in O |-> o[2]]
           tails == [o \in O |-> From(o)]
<1>1. Chains(d) = {From(o) : o \in O}
  BY DEF Chains
<1>2. /\ \A o \in O : IsHead(f, o[2])
      /\ \A o, p \in O : o[2] = p[2] => o = p
  BY DEF Owns
<1>3. ASSUME NEW o \in O
      PROVE  /\ Path(f, o[2], From(o)) /\ From(o) # <<>> /\ From(o)[1] = o[2]
             /\ Len(From(o)) = Cardinality(ClustersOf(From(o)))
             /\ FatEntry(d, From(o)[Len(From(o))]) = EOC
  <2>1. IsHead(f, o[2]) /\ o[2] \in Nat
    BY <1>2, Sizes DEF IsHead, ClusterSet
  <2>2. Path(f, o[2], From(o)) /\ FatEntry(d, From(o)[Len(From(o))]) = EOC
    BY <2>1, ChainIs
  <2> HIDE DEF From
  <2>3. From(o) # <<>> /\ From(o)[1] = o[2]
    BY <2>2 DEF Path
  <2> QED
    BY <2>1, <2>2, <2>3, PathLength
<1> HIDE DEF From
<1>4. ASSUME NEW o \in O, NEW p \in O,
             ClustersOf(From(o)) \cap ClustersOf(From(p)) # {}
      PROVE  o = p
  <2>1. PICK i \in DOMAIN From(o), j \in DOMAIN From(p) : From(o)[i] = From(p)[j]
    BY <1>4 DEF ClustersOf
  <2>2. o[2] = p[2]
    BY <1>2, <1>3, <2>1, PathsApart
  <2> QED
    BY <1>2, <2>2
<1> HIDE DEF O
<1>5. IsFiniteSet(O)
  <2>1. heads \in [O -> ClusterSet]
    BY <1>2 DEF IsHead
  <2>2. heads \in Injection(O, ClusterSet)
    BY <1>2, <2>1 DEF Injection, IsInjective
  <2> HIDE DEF heads
  <2> QED
    BY <2>2, FreeClustersCounted, FS_Injection
<1>6. Cardinality(Chains(d)) = Cardinality(O)
  <2>1. tails \in [O -> Chains(d)]
    BY <1>1
  <2>2. \A o, p \in O : From(o) = From(p) => o = p
    BY <1>2, <1>3
  <2>3. tails \in Injection(O, Chains(d))
    BY <2>1, <2>2 DEF Injection, IsInjective
  <2>4. tails \in Surjection(O, Chains(d))
    BY <1>1, <2>1 DEF Surjection
  <2> HIDE DEF tails
  <2> QED
    BY <1>5, <2>3, <2>4, FS_Surjection
<1>7. ASSUME NEW chain \in Chains(d)
      PROVE  /\ chain # <<>>
             /\ Len(chain) = Cardinality(ClustersOf(chain))
             /\ FatEntry(d, chain[Len(chain)]) = EOC
  BY <1>1, <1>3
<1>8. ASSUME NEW a \in Chains(d), NEW b \in Chains(d), a # b
      PROVE  ClustersOf(a) \cap ClustersOf(b) = {}
  BY <1>1, <1>4, <1>8
<1> QED
  BY <1>6, <1>7, <1>8 DEF SoundIn, O

\* The types of FatVolume, and that the FIL object is at the end of its file.
THEOREM TypeCorrect == Spec => []TypeOK
<1>1. VolumeInv => TypeOK
  <2> SUFFICES ASSUME VolumeInv PROVE TypeOK
    OBVIOUS
  <2>1. PICK L \in Geometries : VolumeHolds(L, Volume, phase, content)
    BY DEF VolumeInv
  <2>2. Volume.fp = fp /\ Volume.fs = fs /\ Volume.disk = disk
    BY DEF Volume
  <2>3. PICK F : Sound(L, F, Volume)
    BY <2>1 DEF VolumeHolds, SomeSound
  <2>4. IsVolume(Volume) /\ IsFatFs(L, fs) /\ DOMAIN disk = Sectors(L)
    BY <2>2, <2>3 DEF Sound, Shape
  <2>5. faults \in 0 .. MaxFaults /\ resets \in 0 .. MaxResets
    BY <2>4 DEF IsVolume, Volume
  <2>6. DOMAIN fs = DOMAIN Unmounted /\ fs.winsect \in DOMAIN disk \cup {NoSector}
    BY <2>4 DEF IsFatFs, Unmounted
  <2>7. IsFile(fp) /\ fp.objsize = fp.fptr
    BY <2>1, <2>2 DEF VolumeHolds, FpFits
  <2>8. DOMAIN fp = DOMAIN Closed
    BY <2>7 DEF IsFile, Closed
  <2>9. /\ phase \in Phases
        /\ phase \in InUsePhases => fp.open /\ fp.objsize = Len(content)
    BY <2>1, <2>2 DEF VolumeHolds
  <2> QED
    BY <2>5, <2>6, <2>7, <2>8, <2>9 DEF TypeOK, Phases, InUsePhases
<1> QED
  BY <1>1, VolumeSound, PTL

\* The search for a free cluster is never skipped for nothing: neither the count in the
\* FATFS object nor the one in FSInfo is below the number of free clusters (create_chain,
\* remove_chain, sync_fs, mount_volume).
THEOREM FreeCountCorrect == Spec => []FreeCountNeverShort
<1>1. VolumeInv => FreeCountNeverShort
  <2> SUFFICES ASSUME VolumeInv PROVE FreeCountNeverShort
    OBVIOUS
  <2>1. PICK L \in Geometries : VolumeHolds(L, Volume, phase, content)
    BY DEF VolumeInv
  <2>2. PICK F : Sound(L, F, Volume)
    BY <2>1 DEF VolumeHolds, SomeSound
  <2>3. FreeClusters(InLibrary) = LibFree(L, Volume)
    BY <2>2, ReadFat DEF FreeClusters, LibFree, ClusterSet
  <2>4. Volume.fs = fs /\ Volume.disk = disk
    BY DEF Volume
  <2>5. CountCovers(fs.free_clst, InLibrary)
    BY <2>1, <2>3, <2>4 DEF VolumeHolds, Counted, Free, CountCovers
  <2>6. FreeClusters(OnCard) \subseteq F
    <3>1. \A c \in ClusterSet : Card(L, Volume, c) = 0 => c \in F
      BY <2>2 DEF Sound, Covered
    <3> QED
      BY <2>2, <3>1, ReadFat DEF FreeClusters, ClusterSet
  <2>7. OnCard[BootSector + 1].free = InfoFree(L, Volume)
    BY <2>2, <2>4, ReadLayout DEF OnCard, InfoFree
  <2>8. CountCovers(OnCard[BootSector + 1].free, OnCard)
    <3>1. F \in SUBSET ClusterSet /\ FreeClusters(OnCard) \in SUBSET F
      BY <2>2, <2>6 DEF Sound, Covered
    <3>2. /\ Cardinality(FreeClusters(OnCard)) <= Cardinality(F)
          /\ Cardinality(F) \in Nat /\ Cardinality(FreeClusters(OnCard)) \in Nat
      BY <3>1, FreeClustersCounted
    <3>3. InfoFree(L, Volume) <= Clusters => InfoFree(L, Volume) >= Cardinality(F)
      BY <2>2 DEF Sound, Covered
    <3>4. InfoFree(L, Volume) \in Nat
      <4>1. L.volbase + 1 \in Sectors(L) /\ L.volbase \in Nat
        BY Regions, Places
      <4>2. Fits(L, L.volbase + 1, Volume.disk[L.volbase + 1])
        BY <2>2, <4>1 DEF Sound, Contents
      <4> QED
        BY <4>1, <4>2 DEF Fits, InfoFree
    <3> QED
      BY <2>7, <3>2, <3>3, <3>4 DEF CountCovers
  <2> QED
    BY <2>5, <2>8 DEF FreeCountNeverShort
<1> QED
  BY <1>1, VolumeSound, PTL

\* A line is cut short without an error only when no cluster is free (create_chain as
\* f_write calls it, wherever the search begins).
THEOREM FullCorrect == Spec => []FullOnlyWhenFull
<1>1. VolumeInv => FullOnlyWhenFull
  <2> SUFFICES ASSUME VolumeInv, stuck, fp.err = "FR_OK" PROVE FreeClusters(InLibrary) = {}
    BY DEF FullOnlyWhenFull
  <2>1. PICK L \in Geometries : VolumeHolds(L, Volume, phase, content)
                                /\ CutShort(L, Volume, phase)
    BY DEF VolumeInv
  <2>2. PICK F : Sound(L, F, Volume)
    BY <2>1 DEF VolumeHolds, SomeSound
  <2>3. FreeClusters(InLibrary) = LibFree(L, Volume)
    BY <2>2, ReadFat DEF FreeClusters, LibFree, ClusterSet
  <2>4. Volume.fp = fp
    BY DEF Volume
  <2> QED
    BY <2>1, <2>3, <2>4 DEF CutShort
<1> QED
  BY <1>1, VolumeSound, PTL

\* On the card at any time and as the library has it, the chain of every file and
\* directory is allocated to its end and no cluster is in two of them, whatever is refused
\* and whenever the power goes (the order in which create_chain, dir_clear, f_mkdir,
\* f_sync and remove_chain write sectors of the FAT and of directories).
THEOREM ChainsCorrect == Spec => []ChainsSound
<1>1. VolumeInv => ChainsSound
  <2> SUFFICES ASSUME VolumeInv PROVE ChainsSound
    OBVIOUS
  <2>1. PICK L \in Geometries : L.name = Name /\ VolumeHolds(L, Volume, phase, content)
    BY DEF VolumeInv
  <2>2. PICK F : Sound(L, F, Volume)
    BY <2>1 DEF VolumeHolds, SomeSound
  <2> DEFINE f == LibFat(L, Volume)
             g == CardFat(L, Volume)
             H == Held(L, Volume)
  <2>3. HeadsIn(L, f, H) /\ HeadsIn(L, g, H) /\ Apart(L, H) /\ OwnFile(L, f, H, fp)
    <3>1. Volume.fp = fp
      BY DEF Volume
    <3> QED
      BY <2>2, <3>1 DEF Sound, Linked, Owned
  <2>4. Reads(InLibrary, f) /\ Reads(OnCard, g)
    BY <2>2, ReadFat DEF Reads, LibFat, CardFat
  <2>5. Links(f) /\ Links(g)
    BY <2>3 DEF HeadsIn
  <2> HIDE DEF f, g
  <2>6. SoundIn(InLibrary)
    <3> DEFINE d == InLibrary
    <3>1. IsView(d) /\ Reads(d, f) /\ (d = InLibrary => OwnFile(L, f, H, fp))
      BY <2>3, <2>4 DEF IsView
    <3> HIDE DEF d
    <3>2. Owns(f, Objects(d))
      BY <2>1, <2>2, <2>3, <3>1, ObjectsOwn
    <3>3. SoundIn(d)
      BY <2>5, <3>1, <3>2, OwnsSound
    <3> QED
      BY <3>3 DEF d
  <2>7. SoundIn(OnCard)
    <3>1. CASE OnCard = InLibrary
      BY <2>6, <3>1
    <3>2. CASE OnCard # InLibrary
      <4> DEFINE d == OnCard
      <4>1. IsView(d) /\ Reads(d, g) /\ (d = InLibrary => OwnFile(L, g, H, fp))
        BY <2>4, <3>2 DEF IsView
      <4> HIDE DEF d
      <4>2. Owns(g, Objects(d))
        BY <2>1, <2>2, <2>3, <4>1, ObjectsOwn
      <4>3. SoundIn(d)
        BY <2>5, <4>1, <4>2, OwnsSound
      <4> QED
        BY <4>3 DEF d
    <3> QED
      BY <3>1, <3>2
  <2> QED
    BY <2>6, <2>7 DEF ChainsSound
<1> QED
  BY <1>1, VolumeSound, PTL

================================================================================
