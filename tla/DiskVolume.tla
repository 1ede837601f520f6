----------------------------- MODULE DiskVolume -----------------------------
(***************************************************************************)
(* A TI-99/4A sector-dump volume served through FUSE: the allocation       *)
(* bitmap (DiskSector), the files and their sector chains (DiskFile), the  *)
(* sorted directory (DiskVolume) and the table of open files               *)
(* (mltt-fuse).                                                            *)
(*                                                                         *)
(* A FUSE handler changes memory in one step and leaves the image-file     *)
(* writes it makes, in order, in pend: the images the disk goes through.   *)
(* DiskWrite performs the next one.  DiskFile::write, whose loop writes    *)
(* one sector per iteration, takes one step per iteration.  Handlers are   *)
(* serialised: none starts before the previous one has done its last       *)
(* write.                                                                  *)
(***************************************************************************)
EXTENDS Integers, Sequences, FiniteSets, SequencesExt

CONSTANTS
  SectorCount,      \* sectors of the volume; 0 is the header, 1 the directory
  FirstDataSector,  \* FIRST_DATA_SECTOR
  SectorBytes,      \* DISK_BYTES_PER_SECTOR
  HdrChains,        \* chains encodeChain and decodeChain handle (23)
  MaxFileChains,    \* MAX_FILE_CHAINS: bound on the chains of a file
  Names,            \* file names as the operating system gives them
  TIName,           \* Linux2TI on those names: a number in TI sort order
  LinuxName,        \* TI2Linux on the TI names
  Attrs,            \* values of the flags and recLen header fields
  MaxObjs,          \* bound on the DiskFile objects alive at once
  Handles,          \* entries of fuseFileInfo
  Requests,         \* the <<offset, length>> of the writes clients make
  MaxRef,           \* bound on the references renames add to a file
  MidSectorAppend   \* may a write that starts in an allocated sector extend
                    \* the file?

Sectors == 0 .. SectorCount - 1
Objs == 1 .. MaxObjs
TINames == {TIName[n] : n \in Names}

ASSUME SizeAssumption ==
  /\ SectorCount \in Nat /\ FirstDataSector \in Nat /\ SectorBytes \in Nat
  /\ 2 <= FirstDataSector /\ FirstDataSector < SectorCount /\ 0 < SectorBytes
ASSUME BoundAssumption ==
  /\ HdrChains \in Nat /\ MaxFileChains \in Nat
  /\ MaxObjs \in Nat /\ MaxRef \in Nat
  /\ Requests \subseteq Nat \X (Nat \ {0})
ASSUME NameAssumption ==
  /\ TIName \in [Names -> Nat \ {0}]
  /\ LinuxName \in [TINames -> Names]
ASSUME AttrAssumption == 0 \in Attrs
ASSUME HandleAssumption == IsFiniteSet(Handles)
ASSUME SwitchAssumption == MidSectorAppend \in BOOLEAN

VARIABLES
  fat,       \* _bitmap: the sectors marked allocated
  fatDirty,  \* _bitmapChanged
  files,     \* _files, in directory order
  obj,       \* the DiskFile objects (deleted ones are NilFile)
  fd,        \* fuseFileInfo: the object an open handle refers to, 0 if free
  io,        \* the DiskFile::write in progress
  img,       \* the image file
  pend       \* the images the writes still to come of a handler produce

memory == <<fat, fatDirty, files, obj, fd, io>>
disk == <<img, pend>>
vars == <<memory, disk>>

-----------------------------------------------------------------------------
(* Types                                                                   *)

Chain == [start : Sectors, end : Sectors]

File == [os : Names, ti : TINames, attr : Attrs, dirSec : Sectors,
         chains : Seq(Chain), secCount : Nat, eof : Nat, len : Int,
         ref : Int, unlinked : BOOLEAN]

NilFile == [os |-> 0]

(* A sector of the image that holds no directory entry. *)
NoEnt == [ti |-> 0]

Dirent == [ti : TINames, attr : Attrs, chains : Seq(Nat \X Nat),
           secCount : Nat, eof : Nat]

Image == [fat : SUBSET Sectors, dir : Seq(Sectors),
          ent : [Sectors -> Dirent \cup {NoEnt}]]

(* No write in progress. *)
NoIO == [file |-> 0, chain |-> 0, sector |-> 0, avail |-> 0, off |-> 0,
         len |-> 0, newLen |-> 0]

MemoryTypeOK ==
  /\ fat \in SUBSET Sectors
  /\ fatDirty \in BOOLEAN
  /\ files \in Seq(Objs)
  /\ obj \in [Objs -> File \cup {NilFile}]
  /\ \A i \in DOMAIN files : obj[files[i]] \in File
  /\ fd \in [Handles -> Objs \cup {0}]
  /\ io \in [file : Objs \cup {0}, chain : Nat, sector : Nat, avail : Int,
             off : Nat, len : Nat, newLen : Nat]

ImageTypeOK == img \in Image /\ pend \in Seq(Image)

(* Every variable has its type. *)
TypeOK == MemoryTypeOK /\ ImageTypeOK

-----------------------------------------------------------------------------
(* The bitmap                                                              *)

(* s is what DiskSector::findFree (from) returns: the first free sector at *)
(* or after from.                                                          *)
FindFree(from, s) ==
  /\ s \in from .. SectorCount - 1
  /\ s \notin fat
  /\ \A t \in from .. s - 1 : t \in fat

(* findFree (from) returns -1. *)
NoneFree(from) == \A t \in from .. SectorCount - 1 : t \in fat

-----------------------------------------------------------------------------
(* Lists                                                                   *)

(* The elements of s at the places in I, in the order of s. *)
Pick(s, I) ==
  [k \in 1 .. Cardinality(I) |-> s[CHOOSE i \in I : Cardinality({j \in I : j <= i}) = k]]

-----------------------------------------------------------------------------
(* Sector chains                                                           *)

ChainSectors(c) == c.start .. c.end

DataSectors(f) == UNION {ChainSectors(f.chains[i]) : i \in DOMAIN f.chains}

(* The sectors freeResources frees. *)
FileSectors(f) == {f.dirSec} \cup DataSectors(f)

(* Sectors in the chains before the c-th. *)
SectorsBefore(chains, c) ==
  Cardinality({p \in (1 .. c - 1) \X Sectors : p[2] \in ChainSectors(chains[p[1]])})

(* A chain is stored as a start and a length of 12 bits each. *)
EncodeChains(chains) ==
  [i \in 1 .. (IF Len(chains) < HdrChains THEN Len(chains) ELSE HdrChains) |->
     <<chains[i].start % 4096, (chains[i].end - chains[i].start) % 4096>>]

(* Mutant: the stored length is read as a count of sectors. *)
DecodeChainsCount(enc) ==
  LET used == Pick(enc, {i \in DOMAIN enc : enc[i] # <<0, 0>>})
  IN [i \in DOMAIN used |-> [start |-> used[i][1], end |-> used[i][1] + used[i][2] - 1]]

DecodeChains(enc) ==
  LET used == Pick(enc, {i \in DOMAIN enc : enc[i] # <<0, 0>>})
  IN [i \in DOMAIN used |-> [start |-> used[i][1], end |-> used[i][1] + used[i][2]]]

EntOf(f) == [ti |-> f.ti, attr |-> f.attr, chains |-> EncodeChains(f.chains),
             secCount |-> f.secCount, eof |-> f.eof]

(* DiskFile::readDirEnt: the file a directory entry describes. *)
ReadDirEnt(s, e) ==
  [os |-> LinuxName[e.ti], ti |-> e.ti, attr |-> e.attr, dirSec |-> s,
   chains |-> DecodeChains(e.chains), secCount |-> e.secCount, eof |-> e.eof,
   len |-> e.secCount * SectorBytes - (IF e.eof = 0 THEN 0 ELSE SectorBytes - e.eof),
   ref |-> 0, unlinked |-> FALSE]

-----------------------------------------------------------------------------
(* The file list.  A file is in _files once, so that removeFileFromList,   *)
(* which drops every pointer to it, is RemoveAt its place.                 *)

(* Mutant: the file goes to the end of the list. *)
InsertPlacesLast(fs, o, t) == {Len(fs) + 1}

(* The place addFileToList gives a file of TI name t in the list fs: *)
(* before the first file with a larger name. *)
InsertPlaces(fs, o, t) ==
  {p \in 1 .. Len(fs) + 1 :
     /\ \A i \in 1 .. p - 1 : o[fs[i]].ti <= t
     /\ p <= Len(fs) => t < o[fs[p]].ti}

(* f is the file fileAccess (n) finds: the first in the list of that name. *)
FileAccess(n, i) ==
  /\ i \in DOMAIN files
  /\ obj[files[i]].os = n
  /\ \A j \in 1 .. i - 1 : obj[files[j]].os # n

NoSuchFile(n) == \A i \in DOMAIN files : obj[files[i]].os # n

Listed == {files[i] : i \in DOMAIN files}

(* The first unused object: what the next allocation returns. *)
NewObject(o) == o \in Objs \ Listed /\ \A p \in Objs \ Listed : o <= p

Linked(fs, o) == Pick(fs, {i \in DOMAIN fs : ~o[fs[i]].unlinked})

(* The directory sector updateDirectory fills in. *)
DirOf(fs, o) ==
  LET linked == Linked(fs, o) IN [i \in DOMAIN linked |-> o[linked[i]].dirSec]

-----------------------------------------------------------------------------
(* The writes of a handler                                                 *)

PutEnt(im, f) == [im EXCEPT !.ent[f.dirSec] = EntOf(f)]

(* Mutant: the bitmap is never written. *)
PutFatNever(im, dirty, sectors) == im

PutFat(im, dirty, sectors) == IF dirty THEN [im EXCEPT !.fat = sectors] ELSE im
PutDir(im, fs, o) == [im EXCEPT !.dir = DirOf(fs, o)]

(* Mutant: the directory is written first. *)
DirEntFat(f, dirty, sectors, fs, o) ==
  LET i1 == PutDir(img, fs, o)
      i2 == PutEnt(i1, f)
  IN <<i1, i2, PutFat(i2, dirty, sectors)>>

(* The successive images of "directory entry, bitmap, directory". *)
EntFatDir(f, dirty, sectors, fs, o) ==
  LET i1 == PutEnt(img, f)
      i2 == PutFat(i1, dirty, sectors)
  IN <<i1, i2, PutDir(i2, fs, o)>>

(* Mutant: a directory without the file is written between its removal     *)
(* from the list and its insertion.                                        *)
FatDirEntDir(f, dirty, sectors, fs, o) ==
  LET i1 == PutFat(img, dirty, sectors)
      i2 == PutDir(i1, SelectSeq(fs, LAMBDA x : o[x] # f), o)
      i3 == PutEnt(i2, f)
  IN <<i1, i2, i3, PutDir(i3, fs, o)>>

FatEntDir(f, dirty, sectors, fs, o) ==
  LET i1 == PutFat(img, dirty, sectors)
      i2 == PutEnt(i1, f)
  IN <<i1, i2, PutDir(i2, fs, o)>>

(* Mutant: the header is not marked as changed. *)
FatOnly(f, dirty, sectors) == <<PutFat(img, dirty, sectors)>>

(* DiskFile::sync of a file whose header changed. *)
EntFat(f, dirty, sectors) ==
  LET i1 == PutEnt(img, f) IN <<i1, PutFat(i1, dirty, sectors)>>

(* A handler may start. *)
Idle == pend = <<>> /\ io = NoIO

-----------------------------------------------------------------------------
(* Init: a volume just formatted and mounted                               *)

Init ==
  /\ fat = {0, 1}
  /\ fatDirty = FALSE
  /\ files = <<>>
  /\ obj = [o \in Objs |-> NilFile]
  /\ fd = [h \in Handles |-> 0]
  /\ io = NoIO
  /\ img = [fat |-> {0, 1}, dir |-> <<>>, ent |-> [s \in Sectors |-> NoEnt]]
  /\ pend = <<>>

-----------------------------------------------------------------------------
(* Opening, creating and closing files                                     *)

(* tidsk_create: the name must be new, a handle and a sector free.  The    *)
(* entry, the bitmap and, once the file is listed, the directory are       *)
(* written in that order.                                                  *)
Create(n, h) ==
  /\ Idle
  /\ NoSuchFile(n)
  /\ fd[h] = 0
  /\ \E o \in Objs, d \in Sectors :
       /\ NewObject(o)
       /\ FindFree(0, d)
       /\ LET f == [os |-> n, ti |-> TIName[n], attr |-> 0, dirSec |-> d,
                    chains |-> <<>>, secCount |-> 0, eof |-> 0, len |-> 0,
                    ref |-> 1, unlinked |-> FALSE]
          IN  /\ obj' = [obj EXCEPT ![o] = f]
              /\ fat' = fat \cup {d}
              /\ \E p \in InsertPlaces(files, obj, f.ti) : files' = InsertAt(files, p, o)
              /\ pend' = EntFatDir(f, TRUE, fat', files', obj')
       /\ fd' = [fd EXCEPT ![h] = o]
  /\ fatDirty' = FALSE
  /\ UNCHANGED <<io, img>>

(* Mutant: the reference is not counted. *)
OpenUncounted(n, h) ==
  /\ Idle
  /\ fd[h] = 0
  /\ \E i \in DOMAIN files : FileAccess(n, i) /\ fd' = [fd EXCEPT ![h] = files[i]]
  /\ UNCHANGED <<fat, fatDirty, files, obj, io, disk>>

(* tidsk_open *)
Open(n, h) ==
  /\ Idle
  /\ fd[h] = 0
  /\ \E i \in DOMAIN files :
       /\ FileAccess(n, i)
       /\ obj' = [obj EXCEPT ![files[i]].ref = @ + 1]
       /\ fd' = [fd EXCEPT ![h] = files[i]]
  /\ UNCHANGED <<fat, fatDirty, files, io, disk>>

(* Mutant: the sector of the directory entry is not freed. *)
DeleteAtData(i) ==
  /\ fat' = fat \ DataSectors(obj[files[i]])
  /\ files' = RemoveAt(files, i)
  /\ obj' = [obj EXCEPT ![files[i]] = NilFile]

(* freeResources, removeFileFromList and the deletion of the i-th file. *)
DeleteAt(i) ==
  /\ fat' = fat \ FileSectors(obj[files[i]])
  /\ files' = RemoveAt(files, i)
  /\ obj' = [obj EXCEPT ![files[i]] = NilFile]

(* tidsk_release: the last close of an unlinked file frees its sectors and *)
(* deletes it, in memory only.                                             *)
Release(h) ==
  /\ Idle
  /\ fd[h] # 0
  /\ LET o == fd[h]
         f == obj[o]
     IN  \/ /\ f.ref = 1 /\ f.unlinked
            /\ \E i \in DOMAIN files : files[i] = o /\ DeleteAt(i)
            /\ fatDirty' = TRUE
         \/ /\ ~(f.ref = 1 /\ f.unlinked)
            /\ obj' = [obj EXCEPT ![o].ref = @ - 1]
            /\ UNCHANGED <<fat, fatDirty, files>>
  /\ fd' = [fd EXCEPT ![h] = 0]
  /\ UNCHANGED <<io, disk>>

(* tidsk_unlink: a file nobody has open loses its sectors, an open one is  *)
(* marked.  If a listed file remains, updateDirectory syncs it, and with   *)
(* it the bitmap, before the directory is written.                         *)
Unlink(n) ==
  /\ Idle
  /\ \E i \in DOMAIN files :
       /\ FileAccess(n, i)
       /\ LET o == files[i]
              f == obj[o]
          IN  \/ f.ref = 0 /\ DeleteAt(i)
              \/ /\ f.ref # 0
                 /\ obj' = [obj EXCEPT ![o].unlinked = TRUE]
                 /\ UNCHANGED <<fat, files>>
       /\ LET dirty == fatDirty \/ obj[files[i]].ref = 0
          IN  pend' = IF Linked(files', obj') # <<>>
                      THEN LET i1 == PutFat(img, dirty, fat')
                           IN <<i1, PutDir(i1, files', obj')>>
                      ELSE LET i1 == PutDir(img, files', obj')
                           IN <<i1, PutFat(i1, dirty, fat')>>
  /\ fatDirty' = FALSE
  /\ UNCHANGED <<fd, io, img>>

(* tidsk_rename: fileOpen takes a reference to the file, and nothing gives *)
(* it back.  The file moves to its new place in the list; the entry is     *)
(* written when updateDirectory reaches it, after the bitmap unless it is  *)
(* the first.                                                              *)
Rename(n, m) ==
  /\ Idle
  /\ \E i \in DOMAIN files :
       /\ FileAccess(n, i)
       /\ obj[files[i]].ref < MaxRef
       /\ LET o == files[i]
              f == [obj[o] EXCEPT !.os = m, !.ti = TIName[m], !.ref = @ + 1]
              rest == RemoveAt(files, i)
          IN  /\ obj' = [obj EXCEPT ![o] = f]
              /\ \E p \in InsertPlaces(rest, obj, f.ti) : files' = InsertAt(rest, p, o)
              /\ LET linked == Linked(files', obj')
                 IN pend' = IF linked # <<>> /\ linked[1] # o
                            THEN FatEntDir(f, fatDirty, fat, files', obj')
                            ELSE EntFatDir(f, fatDirty, fat, files', obj')
  /\ fatDirty' = FALSE
  /\ UNCHANGED <<fat, fd, io, img>>

(* tidsk_setxattr, on the flags or the record length *)
SetXattr(n, a) ==
  /\ Idle
  /\ \E i \in DOMAIN files :
       /\ FileAccess(n, i)
       /\ LET f == [obj[files[i]] EXCEPT !.attr = a]
          IN  /\ obj' = [obj EXCEPT ![files[i]] = f]
              /\ pend' = EntFat(f, fatDirty, fat)
  /\ fatDirty' = FALSE
  /\ UNCHANGED <<fat, files, fd, io, img>>

-----------------------------------------------------------------------------
(* DiskFile::write                                                         *)

(* Find the sector of the chains that holds offset off; beyond the last,   *)
(* the write continues at the end of the file.  Offsets beyond the end of  *)
(* file, which the loop below gives negative counts, are left out.         *)
WriteStart(h, off, len) ==
  /\ Idle
  /\ fd[h] # 0
  /\ LET f == obj[fd[h]]
         skip == off \div SectorBytes
         total == SectorsBefore(f.chains, Len(f.chains) + 1)
         at(c, s, n) == [file |-> fd[h], chain |-> c, sector |-> s,
                         avail |-> f.secCount - n, off |-> off - n * SectorBytes,
                         len |-> len, newLen |-> off + len]
     IN  /\ off <= f.len /\ off <= total * SectorBytes
         /\ \/ \E c \in DOMAIN f.chains :
                 \E s \in ChainSectors(f.chains[c]) :
                   /\ SectorsBefore(f.chains, c) + s - f.chains[c].start = skip
                   /\ MidSectorAppend \/ off + len <= f.secCount * SectorBytes
                   /\ io' = at(c, s, skip)
            \/ /\ skip >= total
               /\ io' = at(Len(f.chains) + 1, 0, total)
  /\ UNCHANGED <<fat, fatDirty, files, obj, fd, disk>>

(* Bytes the current iteration writes, and the request once it has. *)
StepBytes == IF io.off + io.len > SectorBytes THEN SectorBytes - io.off ELSE io.len

PutData(s) == img' = [img EXCEPT !.ent[s] = NoEnt]

(* Mutant: one sector too many is written in a chain. *)
PastChainLate(sector, c) == sector > c.end + 1

(* The loop leaves chain c for the next one. *)
PastChain(sector, c) == sector > c.end

(* An iteration that writes to a sector the file has.  The chain it goes   *)
(* on to must exist: there is no step, and TLC reports a deadlock, if the  *)
(* code would read past _chains.                                           *)
WriteExisting ==
  /\ io.len # 0 /\ io.avail # 0
  /\ PutData(io.sector)
  /\ LET chains == obj[io.file].chains
         rest == [io EXCEPT !.off = 0, !.len = @ - StepBytes,
                            !.avail = @ - 1, !.sector = @ + 1]
     IN  IF rest.len # 0 /\ rest.avail # 0 /\ PastChain(rest.sector, chains[io.chain])
         THEN /\ io.chain + 1 \in DOMAIN chains
              /\ io' = [rest EXCEPT !.chain = @ + 1,
                                    !.sector = chains[io.chain + 1].start]
         ELSE io' = rest
  /\ UNCHANGED <<fat, fatDirty, files, obj, fd, pend>>

(* Mutant: the new sector need not be contiguous. *)
JoinsAlways(chains, c, s) == c > 1

(* The new sector s is contiguous to the chain before the current one. *)
Joins(chains, c, s) == c > 1 /\ chains[c - 1].end + 1 = s

(* An iteration that allocates a sector: it joins the chain before the     *)
(* current one, or becomes the current chain.  If that is the last chain   *)
(* of the file and not one past it, _chainCount then counts an element of  *)
(* _chains that was never written.                                         *)
WriteExtend ==
  /\ io.len # 0 /\ io.avail = 0
  /\ \E s \in Sectors :
       /\ FindFree(FirstDataSector, s)
       /\ fat' = fat \cup {s}
       /\ PutData(s)
       /\ LET c == io.chain
              chains == obj[io.file].chains
              own == [start |-> s, end |-> s]
              rest == [io EXCEPT !.off = 0, !.len = @ - StepBytes, !.sector = s + 1]
          IN  \/ /\ Joins(chains, c, s)
                 /\ obj' = [obj EXCEPT ![io.file].chains[c - 1].end = s,
                                       ![io.file].secCount = @ + 1]
                 /\ io' = rest
              \/ /\ ~Joins(chains, c, s)
                 /\ Len(chains) < MaxFileChains
                 /\ \/ /\ c = Len(chains) + 1
                       /\ obj' = [obj EXCEPT ![io.file].chains = Append(chains, own),
                                             ![io.file].secCount = @ + 1]
                    \/ /\ c <= Len(chains)
                       /\ \E garbage \in Chain :
                            obj' = [obj EXCEPT
                                      ![io.file].chains = Append([chains EXCEPT ![c] = own], garbage),
                                      ![io.file].secCount = @ + 1]
                 /\ io' = [rest EXCEPT !.chain = @ + 1]
  /\ fatDirty' = TRUE
  /\ UNCHANGED <<files, fd, pend>>

(* No free sector: the loop is left. *)
WriteFull ==
  /\ io.len # 0 /\ io.avail = 0
  /\ NoneFree(FirstDataSector)
  /\ io' = [io EXCEPT !.len = 0]
  /\ UNCHANGED <<fat, fatDirty, files, obj, fd, disk>>

(* The new length, also when the disk filled up; the entry is synced. *)
WriteEnd ==
  /\ io.file # 0 /\ io.len = 0
  /\ LET f == obj[io.file]
         g == IF io.newLen > f.len
              THEN [f EXCEPT !.len = io.newLen, !.eof = io.newLen % SectorBytes]
              ELSE f
     IN  /\ obj' = [obj EXCEPT ![io.file] = g]
         /\ pend' = EntFat(g, fatDirty, fat)
  /\ io' = NoIO
  /\ fatDirty' = FALSE
  /\ UNCHANGED <<fat, files, fd, img>>

-----------------------------------------------------------------------------
(* The image file                                                          *)

(* The next write of the handler reaches the image. *)
DiskWrite ==
  /\ pend # <<>>
  /\ img' = Head(pend)
  /\ pend' = Tail(pend)
  /\ UNCHANGED memory

(* DiskVolume::open and readDirectory: entry i of the directory becomes    *)
(* object i, and the list is built by insertion.                           *)
MountedObjs(im) ==
  [o \in Objs |-> IF o \in DOMAIN im.dir THEN ReadDirEnt(im.dir[o], im.ent[im.dir[o]])
                  ELSE NilFile]

MountedFiles(im) ==
  LET o == MountedObjs(im)
      add(i, fs) == InsertAt(fs, CHOOSE p \in InsertPlaces(fs, o, o[i].ti) : TRUE, i)
  IN FoldLeft(LAMBDA fs, i : add(i, fs), <<>>, [i \in DOMAIN im.dir |-> i])

(* The volume is unmounted, or the driver killed, while no handler runs,   *)
(* and mounted again.  tidsk has no destroy handler: memory, and with it   *)
(* a bitmap change that no later handler wrote, is lost.                   *)
Remount ==
  /\ Idle
  /\ fat' = img.fat
  /\ fatDirty' = FALSE
  /\ obj' = MountedObjs(img)
  /\ files' = MountedFiles(img)
  /\ fd' = [h \in Handles |-> 0]
  /\ UNCHANGED <<io, disk>>

-----------------------------------------------------------------------------

Handler ==
  \/ \E n \in Names, h \in Handles : Create(n, h)
  \/ \E n \in Names, h \in Handles : Open(n, h)
  \/ \E h \in Handles : Release(h)
  \/ \E n \in Names : Unlink(n)
  \/ \E n, m \in Names : Rename(n, m)
  \/ \E n \in Names, a \in Attrs : SetXattr(n, a)
  \/ \E h \in Handles, r \in Requests : WriteStart(h, r[1], r[2])

WriteLoop == WriteExisting \/ WriteExtend \/ WriteFull \/ WriteEnd

Next == Handler \/ WriteLoop \/ DiskWrite

(* One mounted session *)
Spec == Init /\ [][Next]_vars

(* Any number of mounted sessions *)
SessionsSpec == Init /\ [][Next \/ Remount]_vars

-----------------------------------------------------------------------------
(* Invariants of a mounted session                                         *)

HandlesOf(o) == {h \in Handles : fd[h] = o}

(* No handle of fuseFileInfo, and no write in progress, refers to a        *)
(* deleted DiskFile: a file stays in _files, once, while it is open, and   *)
(* its _refCount is never below the number of its open handles, so that    *)
(* close and unlink delete it only after the last release.                 *)
HandlesLive ==
  /\ \A i, j \in DOMAIN files : files[i] = files[j] => i = j
  /\ \A h \in Handles : fd[h] # 0 => fd[h] \in Listed
  /\ \A o \in Listed : Cardinality(HandlesOf(o)) <= obj[o].ref
  /\ io.file # 0 => io.file \in {fd[h] : h \in Handles}

(* The bitmap and the files agree on who owns a sector: the directory      *)
(* entry and the chains of a file are allocated, are not the volume        *)
(* header or the directory, and belong to no other file - whatever         *)
(* creates, writes, unlinks and late closes came before.                   *)
OwnedSectors ==
  /\ \A o \in Listed : /\ FileSectors(obj[o]) \subseteq fat \ {0, 1}
                       /\ obj[o].dirSec \notin DataSectors(obj[o])
  /\ \A o, p \in Listed : o # p => FileSectors(obj[o]) \cap FileSectors(obj[p]) = {}

(* Every allocated sector has an owner: freeResources gives back all a     *)
(* file had, at unlink or at the last close, and write keeps in the chains *)
(* every sector it allocates.                                              *)
NoLeak == fat = {0, 1} \cup UNION {FileSectors(obj[o]) : o \in Listed}

(* The chains of a file hold as many sectors as secCount in its header     *)
(* says, which is what write uses to tell overwriting from extending.      *)
ChainsMatchHeader ==
  \A o \in Listed :
    SectorsBefore(obj[o].chains, Len(obj[o].chains) + 1) = obj[o].secCount

(* The sector the write loop is about to fill is the one that holds the    *)
(* byte it has come to, counting sectors along the chains, also where a    *)
(* chain ends and the next begins.                                         *)
WriteLandsInPlace ==
  io.len # 0 /\ io.avail # 0 =>
    LET chains == obj[io.file].chains
    IN  /\ io.chain \in DOMAIN chains
        /\ io.sector \in ChainSectors(chains[io.chain])
        /\ SectorsBefore(chains, io.chain) + io.sector - chains[io.chain].start
             = (io.newLen - io.len) \div SectorBytes

(* The list addFileToList keeps is in TI name order, through renames and   *)
(* for a list read back from disk.                                         *)
DirectorySorted ==
  \A i, j \in DOMAIN files : i < j => obj[files[i]].ti <= obj[files[j]].ti

-----------------------------------------------------------------------------
(* The image file                                                          *)

(* What mounting an image shows of its files. *)
Header(f) == [ti |-> f.ti, attr |-> f.attr, chains |-> f.chains,
              secCount |-> f.secCount, eof |-> f.eof, dirSec |-> f.dirSec]

Mountable(im) == \A i \in DOMAIN im.dir : im.ent[im.dir[i]] # NoEnt

(* Every entry of the directory sector, at every moment, names a sector    *)
(* that holds a directory entry: create writes the entry before the        *)
(* directory, unlink the directory before the sector is used again.        *)
ImageMountable == Mountable(img)

(* When no handler is running, mounting the image would give the files     *)
(* memory has, in the same order, except those unlinked: no change waits   *)
(* in memory for a later sync.  (Files within the 23 chains an entry can   *)
(* carry.)                                                                 *)
ImageCurrent ==
  Idle /\ (\A o \in Listed : Len(obj[o].chains) <= HdrChains) =>
    LET linked == Linked(files, obj)
        mounted == MountedFiles(img)
    IN  /\ Len(mounted) = Len(linked)
        /\ \A i \in DOMAIN linked :
             Header(MountedObjs(img)[mounted[i]]) = Header(obj[linked[i]])

(* The names a directory gives its entries. *)
View(im) == [i \in DOMAIN im.dir |-> <<im.dir[i], im.ent[im.dir[i]].ti>>]

Entries(im) == {View(im)[i] : i \in DOMAIN im.dir}

(* A handler changes the names on disk in a single write: stopped anywhere *)
(* between its writes, a mount finds the names from before or from after.  *)
NamesChangeAtOnce ==
  \A i \in DOMAIN pend : Entries(pend[i]) \in {Entries(img), Entries(Last(pend))}

(* The sectors the i-th directory entry of an image accounts for. *)
EntrySectors(im, i) == FileSectors(ReadDirEnt(im.dir[i], im.ent[im.dir[i]]))

(* The entry of a file reaches the disk before the bitmap, so an image may *)
(* call free a sector of a file.  At any moment those sectors belong to a  *)
(* single file, and no two files of the image share a sector.              *)
CrashExposesOneFile ==
  /\ \E i \in DOMAIN img.dir \cup {0} :
       \A j \in DOMAIN img.dir \ {i} : EntrySectors(img, j) \subseteq img.fat
  /\ \A i, j \in DOMAIN img.dir :
       i # j => EntrySectors(img, i) \cap EntrySectors(img, j) = {}

-----------------------------------------------------------------------------
(* What comments of the source say                                         *)

(* "File is still open somewhere": a file marked as unlinked is referred   *)
(* to by a handle, whose release will free it.                             *)
UnlinkedIsOpen == \A o \in Listed : obj[o].unlinked => HandlesOf(o) # {}

=============================================================================
