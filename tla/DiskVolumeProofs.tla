-------------------------- MODULE DiskVolumeProofs --------------------------
(***************************************************************************)
(* For a volume of any size, any number of handles and any file names:     *)
(* open handles refer to live files, the bitmap and the files agree, and   *)
(* no sector is lost, as long as no write extends a file from inside a     *)
(* sector.                                                                 *)
(***************************************************************************)
EXTENDS DiskVolume, FiniteSetTheorems, SequenceTheorems, TLAPS

-----------------------------------------------------------------------------
(* Insertion into and removal from a sequence                              *)

(* Removing the element at i leaves the others, in order. *)
LEMMA RemoveAtFacts ==
  ASSUME NEW S, NEW s \in Seq(S), NEW i \in DOMAIN s
  PROVE  /\ RemoveAt(s, i) \in Seq(S)
         /\ Len(RemoveAt(s, i)) = Len(s) - 1
         /\ DOMAIN RemoveAt(s, i) = 1 .. Len(s) - 1
         /\ \A j \in 1 .. Len(s) - 1 :
              RemoveAt(s, i)[j] = IF j < i THEN s[j] ELSE s[j + 1]
<1> DEFINE a == SubSeq(s, 1, i - 1)
           b == SubSeq(s, i + 1, Len(s))
<1>0. Len(s) \in Nat /\ i \in 1 .. Len(s)
  BY LenProperties
<1>1. /\ a \in Seq(S) /\ Len(a) = i - 1
      /\ \A j \in 1 .. i - 1 : a[j] = s[j]
  BY SubSeqProperties
<1>2. /\ b \in Seq(S) /\ Len(b) = Len(s) - i
      /\ \A j \in 1 .. Len(s) - i : b[j] = s[i + j]
  BY SubSeqProperties
<1>3. RemoveAt(s, i) = a \o b
  BY DEF RemoveAt
<1>4. /\ a \o b \in Seq(S) /\ Len(a \o b) = Len(s) - 1
      /\ \A j \in 1 .. Len(s) - 1 : (a \o b)[j] = IF j < i THEN s[j] ELSE s[j + 1]
  <2>. HIDE DEF a, b
  <2>1. /\ a \o b \in Seq(S) /\ Len(a \o b) = Len(a) + Len(b)
        /\ \A j \in 1 .. Len(a) + Len(b) :
             (a \o b)[j] = IF j <= Len(a) THEN a[j] ELSE b[j - Len(a)]
    BY <1>1, <1>2, ConcatProperties
  <2>2. Len(a) + Len(b) = Len(s) - 1
    BY <1>1, <1>2
  <2>3. ASSUME NEW j \in 1 .. Len(s) - 1
        PROVE  (a \o b)[j] = IF j < i THEN s[j] ELSE s[j + 1]
    <3>1. CASE j < i
      BY <3>1, <2>1, <2>2, <1>1, <1>2
    <3>2. CASE i <= j
      <4>1. (a \o b)[j] = b[j - (i - 1)]
        BY <3>2, <2>1, <2>2, <1>1, <1>2, SMTT(40)
      <4>2. j - (i - 1) \in 1 .. Len(s) - i /\ i + (j - (i - 1)) = j + 1
        BY <3>2
      <4>3. QED
        BY <3>2, <4>1, <4>2, <1>2, SMTT(40)
    <3>3. j < i \/ i <= j
      BY <1>0
    <3>4. QED
      BY <3>1, <3>2, <3>3
  <2>4. QED
    BY <2>1, <2>2, <2>3
<1>5. QED
  BY <1>3, <1>4, LenProperties

(* Inserting e at p shifts the elements from p on. *)
LEMMA InsertAtFacts ==
  ASSUME NEW S, NEW s \in Seq(S), NEW p \in 1 .. Len(s) + 1, NEW e \in S
  PROVE  /\ InsertAt(s, p, e) \in Seq(S)
         /\ Len(InsertAt(s, p, e)) = Len(s) + 1
         /\ DOMAIN InsertAt(s, p, e) = 1 .. Len(s) + 1
         /\ \A j \in 1 .. Len(s) + 1 :
              InsertAt(s, p, e)[j] = IF j < p THEN s[j] ELSE IF j = p THEN e ELSE s[j - 1]
<1> DEFINE a == SubSeq(s, 1, p - 1)
           b == SubSeq(s, p, Len(s))
           c == a \o <<e>>
<1>0. Len(s) \in Nat /\ p \in 1 .. Len(s) + 1
  BY LenProperties
<1>1. /\ a \in Seq(S) /\ Len(a) = p - 1
      /\ \A j \in 1 .. p - 1 : a[j] = s[j]
  BY SubSeqProperties
<1>2. /\ b \in Seq(S) /\ Len(b) = Len(s) - p + 1
      /\ \A j \in 1 .. Len(s) - p + 1 : b[j] = s[p + j - 1]
  BY SubSeqProperties
<1>3. /\ c \in Seq(S) /\ Len(c) = p
      /\ \A j \in 1 .. p : c[j] = IF j < p THEN s[j] ELSE e
  <2>. HIDE DEF a
  <2>1. /\ <<e>> \in Seq(S) /\ Len(<<e>>) = 1 /\ <<e>>[1] = e
    OBVIOUS
  <2>2. QED
    BY <1>1, <2>1, ConcatProperties
<1>4. /\ c \o b \in Seq(S) /\ Len(c \o b) = Len(s) + 1
      /\ \A j \in 1 .. Len(s) + 1 :
           (c \o b)[j] = IF j < p THEN s[j] ELSE IF j = p THEN e ELSE s[j - 1]
  <2>. HIDE DEF b, c
  <2>1. /\ c \o b \in Seq(S) /\ Len(c \o b) = Len(c) + Len(b)
        /\ \A j \in 1 .. Len(c) + Len(b) :
             (c \o b)[j] = IF j <= Len(c) THEN c[j] ELSE b[j - Len(c)]
    BY <1>2, <1>3, ConcatProperties
  <2>2. Len(c) + Len(b) = Len(s) + 1
    BY <1>2, <1>3
  <2>3. ASSUME NEW j \in 1 .. Len(s) + 1
        PROVE  (c \o b)[j] = IF j < p THEN s[j] ELSE IF j = p THEN e ELSE s[j - 1]
    <3>1. CASE j <= p
      BY <3>1, <2>1, <2>2, <1>2, <1>3
    <3>2. CASE p < j
      <4>1. (c \o b)[j] = b[j - p]
        BY <3>2, <2>1, <2>2, <1>2, <1>3
      <4>2. j - p \in 1 .. Len(s) - p + 1 /\ p + (j - p) - 1 = j - 1
        BY <3>2
      <4>3. QED
        BY <3>2, <4>1, <4>2, <1>2
    <3>3. j <= p \/ p < j
      BY <1>0
    <3>4. QED
      BY <3>1, <3>2, <3>3
  <2>4. QED
    BY <2>1, <2>2, <2>3
<1>5. InsertAt(s, p, e) = c \o b
  BY DEF InsertAt
<1>6. QED
  BY <1>4, <1>5, LenProperties

(* r is s with e at the place p. *)
Inserted(r, s, p, e) ==
  /\ DOMAIN r = 1 .. Len(s) + 1
  /\ \A j \in 1 .. Len(s) + 1 : r[j] = IF j < p THEN s[j] ELSE IF j = p THEN e ELSE s[j - 1]

LEMMA InsertAtInserts ==
  ASSUME NEW S, NEW s \in Seq(S), NEW p \in 1 .. Len(s) + 1, NEW e \in S
  PROVE  InsertAt(s, p, e) \in Seq(S) /\ Inserted(InsertAt(s, p, e), s, p, e)
<1> DEFINE r == InsertAt(s, p, e)
<1>1. DOMAIN r = 1 .. Len(s) + 1
  BY InsertAtFacts
<1>2. \A j \in 1 .. Len(s) + 1 : r[j] = IF j < p THEN s[j] ELSE IF j = p THEN e ELSE s[j - 1]
  BY InsertAtFacts
<1>3. r \in Seq(S)
  BY InsertAtFacts
<1> HIDE DEF r
<1>4. Inserted(r, s, p, e)
  BY <1>1, <1>2 DEF Inserted
<1> QED BY <1>3, <1>4 DEF r

-----------------------------------------------------------------------------
(* Lists without repetition                                                *)

Elems(s) == {s[i] : i \in DOMAIN s}
NoRepeat(s) == \A i, j \in DOMAIN s : s[i] = s[j] => i = j

(* Removing the element at i removes it from the set of elements. *)
LEMMA RemoveFromList ==
  ASSUME NEW S, NEW s \in Seq(S), NEW i \in DOMAIN s, NoRepeat(s)
  PROVE  /\ RemoveAt(s, i) \in Seq(S)
         /\ NoRepeat(RemoveAt(s, i))
         /\ Elems(RemoveAt(s, i)) = Elems(s) \ {s[i]}
<1> DEFINE r == RemoveAt(s, i)
<1>1. /\ r \in Seq(S) /\ DOMAIN r = 1 .. Len(s) - 1
      /\ \A j \in 1 .. Len(s) - 1 : r[j] = IF j < i THEN s[j] ELSE s[j + 1]
  BY RemoveAtFacts
<1>2. Len(s) \in Nat /\ DOMAIN s = 1 .. Len(s) /\ i \in 1 .. Len(s)
  BY LenProperties
<1>. HIDE DEF r
<1>0. \A j, k \in 1 .. Len(s) : s[j] = s[k] => j = k
  BY <1>2 DEF NoRepeat
<1>3. NoRepeat(r)
  <2>1. PICK n \in Nat : n = Len(s)
    BY <1>2
  <2> DEFINE at(j) == IF j < i THEN j ELSE j + 1
  <2>2. \A j, k \in 1 .. n - 1 : at(j) \in 1 .. n /\ (at(j) = at(k) => j = k)
    BY <1>2, <2>1
  <2>3. \A j \in 1 .. n - 1 : r[j] = s[at(j)]
    BY <1>1, <2>1
  <2> HIDE DEF at
  <2>4. \A j, k \in 1 .. n - 1 : r[j] = r[k] => j = k
    BY <1>0, <2>1, <2>2, <2>3
  <2> QED BY <1>1, <2>1, <2>4 DEF NoRepeat
<1>4. ASSUME NEW x \in Elems(r)
      PROVE  x \in Elems(s) \ {s[i]}
  <2>1. PICK j \in 1 .. Len(s) - 1 : x = r[j]
    BY <1>1 DEF Elems
  <2>2. PICK k \in 1 .. Len(s) : k # i /\ x = s[k]
    BY <2>1, <1>1, <1>2
  <2>3. QED
    BY <2>2, <1>2 DEF Elems, NoRepeat
<1>5. ASSUME NEW x \in Elems(s) \ {s[i]}
      PROVE  x \in Elems(r)
  <2>1. PICK k \in 1 .. Len(s) : k # i /\ x = s[k]
    BY <1>2 DEF Elems
  <2>2. CASE k < i
    <3>1. k \in 1 .. Len(s) - 1 /\ r[k] = x
      BY <2>1, <2>2, <1>1, <1>2
    <3>2. QED
      BY <3>1, <1>1 DEF Elems
  <2>3. CASE i < k
    <3>1. k - 1 \in 1 .. Len(s) - 1 /\ ~(k - 1 < i) /\ (k - 1) + 1 = k
      BY <2>1, <2>3, <1>2
    <3>2. r[k - 1] = x
      BY <3>1, <2>1, <1>1
    <3>3. QED
      BY <3>1, <3>2, <1>1 DEF Elems
  <2>4. k < i \/ i < k
    BY <2>1, <1>2
  <2>5. QED
    BY <2>2, <2>3, <2>4
<1>6. QED
  BY <1>1, <1>3, <1>4, <1>5 DEF r

(* Inserting a new element adds it to the set of elements. *)
LEMMA InsertIntoList ==
  ASSUME NEW S, NEW s \in Seq(S), NEW p \in 1 .. Len(s) + 1, NEW e \in S,
         NoRepeat(s), e \notin Elems(s)
  PROVE  /\ InsertAt(s, p, e) \in Seq(S)
         /\ NoRepeat(InsertAt(s, p, e))
         /\ Elems(InsertAt(s, p, e)) = Elems(s) \cup {e}
<1>0. /\ InsertAt(s, p, e) \in Seq(S)
      /\ DOMAIN InsertAt(s, p, e) = 1 .. Len(s) + 1
  BY InsertAtFacts
<1>a. ASSUME NEW j \in 1 .. Len(s) + 1
      PROVE  InsertAt(s, p, e)[j] = IF j < p THEN s[j] ELSE IF j = p THEN e ELSE s[j - 1]
  BY InsertAtFacts
<1> DEFINE r == InsertAt(s, p, e)
<1>1. /\ r \in Seq(S) /\ DOMAIN r = 1 .. Len(s) + 1
      /\ \A j \in 1 .. Len(s) + 1 :
           r[j] = IF j < p THEN s[j] ELSE IF j = p THEN e ELSE s[j - 1]
  BY <1>0, <1>a
<1>2. Len(s) \in Nat /\ DOMAIN s = 1 .. Len(s)
  BY LenProperties
<1>. HIDE DEF r
<1>3. \A j \in 1 .. Len(s) : s[j] # e
  BY <1>2 DEF Elems
<1>4. NoRepeat(r)
  <2> SUFFICES ASSUME NEW j \in 1 .. Len(s) + 1, NEW k \in 1 .. Len(s) + 1, j < k
               PROVE  r[j] # r[k]
    BY <1>1, <1>2 DEF NoRepeat
  <2>1. CASE k < p
    BY <2>1, <1>1, <1>2 DEF NoRepeat
  <2>2. CASE k = p
    BY <2>2, <1>1, <1>2, <1>3
  <2>3. CASE p < k /\ j = p
    BY <2>3, <1>1, <1>2, <1>3
  <2>4. CASE p < k /\ j < p
    <3>1. r[j] = s[j] /\ r[k] = s[k - 1]
      BY <2>4, <1>1, <1>2
    <3>2. j \in DOMAIN s /\ k - 1 \in DOMAIN s /\ j # k - 1
      BY <2>4, <1>2
    <3>3. QED
      BY <3>1, <3>2 DEF NoRepeat
  <2>5. CASE p < j
    BY <2>5, <1>1, <1>2 DEF NoRepeat
  <2>6. k < p \/ k = p \/ (p < k /\ j = p) \/ (p < k /\ j < p) \/ p < j
    BY <1>2
  <2>7. QED
    BY <2>1, <2>2, <2>3, <2>4, <2>5, <2>6
<1>5. ASSUME NEW x \in Elems(r)
      PROVE  x \in Elems(s) \cup {e}
  <2>1. PICK j \in 1 .. Len(s) + 1 : x = r[j]
    BY <1>1 DEF Elems
  <2>2. x = e \/ \E k \in 1 .. Len(s) : x = s[k]
    BY <2>1, <1>1, <1>2
  <2>3. QED
    BY <2>2, <1>2 DEF Elems
<1>6. e \in Elems(r)
  BY <1>1, <1>2 DEF Elems
<1>7. ASSUME NEW x \in Elems(s)
      PROVE  x \in Elems(r)
  <2>1. PICK k \in 1 .. Len(s) : x = s[k]
    BY <1>2 DEF Elems
  <2>2. CASE k < p
    BY <2>1, <2>2, <1>1, <1>2 DEF Elems
  <2>3. CASE p <= k
    <3>1. k + 1 \in 1 .. Len(s) + 1 /\ ~(k + 1 < p) /\ k + 1 # p /\ (k + 1) - 1 = k
      BY <2>3, <1>2
    <3>2. r[k + 1] = x
      BY <3>1, <2>1, <1>1
    <3>3. QED
      BY <3>1, <3>2, <1>1 DEF Elems
  <2>4. k < p \/ p <= k
    BY <1>2
  <2>5. QED
    BY <2>2, <2>3, <2>4
<1>8. QED
  BY <1>1, <1>4, <1>5, <1>6, <1>7 DEF r

-----------------------------------------------------------------------------
(* The inductive invariant                                                 *)

(* A chain is never empty: its last sector can be extended. *)
ChainsOrdered ==
  \A o \in Listed : \A i \in DOMAIN obj[o].chains :
    obj[o].chains[i].start <= obj[o].chains[i].end

(* A write in progress either lies within the sectors the file has left or *)
(* continues past its last chain, so that the sectors it allocates are     *)
(* added and replace no chain. *)
WriteWithinOrAtEnd ==
  /\ io.file = 0 => io = NoIO
  /\ io.len # 0 => \/ io.chain = Len(obj[io.file].chains) + 1
                   \/ io.off + io.len <= io.avail * SectorBytes

(* The header and the directory of the volume are allocated. *)
Reserved == {0, 1} \subseteq fat

(* The allocated sectors that nothing has, and a step that adds none. *)
Lost == fat \ ({0, 1} \cup UNION {FileSectors(obj[o]) : o \in Listed})
NothingLost == Lost' \subseteq Lost

IInv ==
  /\ MemoryTypeOK
  /\ HandlesLive
  /\ OwnedSectors
  /\ Reserved
  /\ ChainsOrdered
  /\ WriteWithinOrAtEnd

LEMMA ListedIsElems == Listed = Elems(files) /\ Listed' = Elems(files')
  BY DEF Listed, Elems

LEMMA HandlesLiveNoRepeat == HandlesLive => NoRepeat(files)
  BY DEF HandlesLive, NoRepeat

(* The type of a listed file. *)
LEMMA ListedTyped ==
  ASSUME MemoryTypeOK
  PROVE  Listed \subseteq Objs /\ \A o \in Listed : obj[o] \in File
  BY DEF MemoryTypeOK, Listed

LEMMA NilIsNoFile == NilFile \notin File
  BY DEF NilFile, File

(* The formatted volume. *)
LEMMA InitInv == Init => IInv
<1> SUFFICES ASSUME Init PROVE IInv
  OBVIOUS
<1>1. DOMAIN files = {} /\ Listed = {}
  BY DEF Init, Listed
<1>2. MemoryTypeOK
  <2>1. fat \in SUBSET Sectors
    <3>1. 0 \in Sectors /\ 1 \in Sectors
      BY SizeAssumption, SMT DEF Sectors
    <3>2. QED
      BY <3>1 DEF Init
  <2>2. fatDirty \in BOOLEAN /\ files \in Seq(Objs)
    <3>1. fatDirty = FALSE /\ files = <<>>
      BY DEF Init
    <3>2. <<>> \in Seq(Objs)
      OBVIOUS
    <3>3. QED
      BY <3>1, <3>2
  <2>3. obj \in [Objs -> File \cup {NilFile}] /\ fd \in [Handles -> Objs \cup {0}]
    BY DEF Init
  <2>4. io \in [file : Objs \cup {0}, chain : Nat, sector : Nat, avail : Int,
               off : Nat, len : Nat, newLen : Nat]
    BY DEF Init, NoIO
  <2>5. QED
    BY <1>1, <2>1, <2>2, <2>3, <2>4 DEF MemoryTypeOK
<1>3. HandlesLive
  BY <1>1 DEF Init, HandlesLive, NoIO
<1>4. OwnedSectors /\ Reserved /\ ChainsOrdered
  BY <1>1 DEF Init, OwnedSectors, Reserved, ChainsOrdered
<1>5. WriteWithinOrAtEnd
  BY DEF Init, WriteWithinOrAtEnd, NoIO
<1>6. QED
  BY <1>2, <1>3, <1>4, <1>5 DEF IInv

-----------------------------------------------------------------------------
(* Sectors                                                                 *)

(* Files that keep their entry and their chains keep their sectors. *)
LEMMA SameSectors ==
  ASSUME OwnedSectors, Reserved, ChainsOrdered,
         Listed' = Listed, fat' = fat,
         \A o \in Listed : /\ obj'[o].dirSec = obj[o].dirSec
                           /\ obj'[o].chains = obj[o].chains
  PROVE  (OwnedSectors /\ Reserved /\ ChainsOrdered)' /\ NothingLost
<1>1. \A o \in Listed : /\ DataSectors(obj'[o]) = DataSectors(obj[o])
                        /\ FileSectors(obj'[o]) = FileSectors(obj[o])
  BY DEF DataSectors, FileSectors
<1>2. OwnedSectors'
  BY <1>1 DEF OwnedSectors
<1>3. Reserved' /\ NothingLost
  BY <1>1 DEF Reserved, NothingLost, Lost
<1>4. ChainsOrdered'
  BY DEF ChainsOrdered
<1>5. QED
  BY <1>2, <1>3, <1>4

(* A new file with one free sector, not the header's or the directory's. *)
LEMMA NewFileSectors ==
  ASSUME OwnedSectors, Reserved, ChainsOrdered,
         NEW o, o \notin Listed, NEW d \in Sectors, d \notin fat,
         Listed' = Listed \cup {o}, fat' = fat \cup {d},
         \A p \in Listed : obj'[p] = obj[p],
         obj'[o].dirSec = d, obj'[o].chains = <<>>
  PROVE  (OwnedSectors /\ Reserved /\ ChainsOrdered)' /\ NothingLost
<1>1. DataSectors(obj'[o]) = {} /\ FileSectors(obj'[o]) = {d}
  BY DEF DataSectors, FileSectors
<1>2. \A p \in Listed : /\ DataSectors(obj'[p]) = DataSectors(obj[p])
                        /\ FileSectors(obj'[p]) = FileSectors(obj[p])
  OBVIOUS
<1>3. d \notin {0, 1}
  BY DEF Reserved
<1>4. \A p \in Listed : FileSectors(obj[p]) \subseteq fat
  BY DEF OwnedSectors
<1>5. OwnedSectors'
  <2>1. \A p \in Listed' : /\ FileSectors(obj'[p]) \subseteq fat' \ {0, 1}
                           /\ obj'[p].dirSec \notin DataSectors(obj'[p])
    BY <1>1, <1>2, <1>3 DEF OwnedSectors
  <2>2. \A p, q \in Listed' : p # q => FileSectors(obj'[p]) \cap FileSectors(obj'[q]) = {}
    BY <1>1, <1>2, <1>4, SMTT(40) DEF OwnedSectors
  <2>3. QED
    BY <2>1, <2>2 DEF OwnedSectors
<1>6. Reserved' /\ NothingLost
  BY <1>1, <1>2 DEF Reserved, NothingLost, Lost
<1>7. ChainsOrdered'
  BY DEF ChainsOrdered
<1>8. QED
  BY <1>5, <1>6, <1>7

(* A file that goes gives back exactly its sectors. *)
LEMMA FreedSectors ==
  ASSUME OwnedSectors, Reserved, ChainsOrdered,
         NEW o \in Listed,
         Listed' = Listed \ {o}, fat' = fat \ FileSectors(obj[o]),
         \A p \in Listed \ {o} : obj'[p] = obj[p]
  PROVE  (OwnedSectors /\ Reserved /\ ChainsOrdered)' /\ NothingLost
<1>1. \A p \in Listed \ {o} : /\ DataSectors(obj'[p]) = DataSectors(obj[p])
                              /\ FileSectors(obj'[p]) = FileSectors(obj[p])
  OBVIOUS
<1>2. \A p \in Listed \ {o} : FileSectors(obj[p]) \cap FileSectors(obj[o]) = {}
  BY DEF OwnedSectors
<1>3. OwnedSectors'
  BY <1>1, <1>2 DEF OwnedSectors
<1>4. Reserved' /\ NothingLost
  <2>1. FileSectors(obj[o]) \cap {0, 1} = {}
    BY DEF OwnedSectors
  <2>2. QED
    BY <1>1, <1>2, <2>1 DEF Reserved, NothingLost, Lost
<1>5. ChainsOrdered'
  BY DEF ChainsOrdered
<1>6. QED
  BY <1>3, <1>4, <1>5

(* A file that gains a free sector. *)
LEMMA ExtendedSectors ==
  ASSUME OwnedSectors, Reserved,
         NEW o \in Listed, NEW s \in Sectors, s \notin fat,
         Listed' = Listed, fat' = fat \cup {s},
         \A p \in Listed \ {o} : obj'[p] = obj[p],
         obj'[o].dirSec = obj[o].dirSec,
         DataSectors(obj'[o]) = DataSectors(obj[o]) \cup {s}
  PROVE  (OwnedSectors /\ Reserved)' /\ NothingLost
<1>1. FileSectors(obj'[o]) = FileSectors(obj[o]) \cup {s}
  BY DEF FileSectors
<1>2. \A p \in Listed \ {o} : /\ DataSectors(obj'[p]) = DataSectors(obj[p])
                              /\ FileSectors(obj'[p]) = FileSectors(obj[p])
  OBVIOUS
<1>3. s \notin {0, 1} /\ \A p \in Listed : s \notin FileSectors(obj[p])
  BY DEF Reserved, OwnedSectors
<1>4. OwnedSectors'
  <2>1. \A p \in Listed' : /\ FileSectors(obj'[p]) \subseteq fat' \ {0, 1}
                           /\ obj'[p].dirSec \notin DataSectors(obj'[p])
    BY <1>1, <1>2, <1>3 DEF OwnedSectors, FileSectors
  <2>2. \A p, q \in Listed' : p # q => FileSectors(obj'[p]) \cap FileSectors(obj'[q]) = {}
    BY <1>1, <1>2, <1>3 DEF OwnedSectors
  <2>3. QED
    BY <2>1, <2>2 DEF OwnedSectors
<1>5. Reserved' /\ NothingLost
  BY <1>1, <1>2 DEF Reserved, NothingLost, Lost
<1>6. QED
  BY <1>4, <1>5

-----------------------------------------------------------------------------
(* Handles and types                                                       *)

(* An object has finitely many handles. *)
LEMMA HandlesFinite ==
  ASSUME NEW o
  PROVE  IsFiniteSet(HandlesOf(o)) /\ Cardinality(HandlesOf(o)) \in Nat
<1>1. HandlesOf(o) \in SUBSET Handles
  BY DEF HandlesOf
<1>2. IsFiniteSet(HandlesOf(o))
  BY <1>1, HandleAssumption, FS_Subset
<1>3. QED
  BY <1>2, FS_CardinalityType

LEMMA IdleFacts ==
  ASSUME Idle, WriteWithinOrAtEnd
  PROVE  io = NoIO /\ io.file = 0 /\ io.len = 0
  BY DEF Idle, NoIO

(* A step that leaves a file or its deletion in the place of an object. *)
LEMMA ObjectTyped ==
  ASSUME MemoryTypeOK, NEW o \in Objs, NEW f \in File,
         obj' = [obj EXCEPT ![o] = f]
  PROVE  /\ obj' \in [Objs -> File \cup {NilFile}]
         /\ obj'[o] = f
         /\ \A p \in Objs \ {o} : obj'[p] = obj[p]
  BY DEF MemoryTypeOK

(* When nothing but objects and handles of the list changes. *)
LEMMA FilesTyped ==
  ASSUME files' \in Seq(Objs), \A o \in Listed' : obj'[o] \in File
  PROVE  \A i \in DOMAIN files' : obj'[files'[i]] \in File
  BY DEF Listed

(* What the invariant says of the file list. *)
LEMMA ListFacts ==
  ASSUME IInv
  PROVE  /\ files \in Seq(Objs) /\ NoRepeat(files)
         /\ Listed \subseteq Objs /\ \A p \in Listed : obj[p] \in File
         /\ Listed = Elems(files) /\ Listed' = Elems(files')
  BY HandlesLiveNoRepeat, ListedTyped, ListedIsElems DEF IInv, MemoryTypeOK

(* A step that changes fields of one file other than its sectors. *)
LEMMA UpdateInv ==
  ASSUME IInv, NEW o \in Listed, NEW f \in File,
         f.dirSec = obj[o].dirSec, f.chains = obj[o].chains,
         obj' = [obj EXCEPT ![o] = f], fat' = fat,
         files' \in Seq(Objs), Listed' = Listed
  PROVE  /\ obj' \in [Objs -> File \cup {NilFile}] /\ obj'[o] = f
         /\ \A p \in Objs \ {o} : obj'[p] = obj[p]
         /\ \A i \in DOMAIN files' : obj'[files'[i]] \in File
         /\ (OwnedSectors /\ Reserved /\ ChainsOrdered)' /\ NothingLost
<1>1. Listed \subseteq Objs /\ \A p \in Listed : obj[p] \in File
  BY ListFacts
<1>2. /\ obj' \in [Objs -> File \cup {NilFile}] /\ obj'[o] = f
      /\ \A p \in Objs \ {o} : obj'[p] = obj[p]
  BY <1>1, ObjectTyped DEF IInv
<1>3. \A i \in DOMAIN files' : obj'[files'[i]] \in File
  <2>1. \A p \in Listed' : obj'[p] \in File
    BY <1>1, <1>2
  <2>2. QED
    BY <2>1, FilesTyped
<1>4. \A p \in Listed : obj'[p].dirSec = obj[p].dirSec /\ obj'[p].chains = obj[p].chains
  BY <1>1, <1>2
<1>5. (OwnedSectors /\ Reserved /\ ChainsOrdered)' /\ NothingLost
  BY <1>4, SameSectors DEF IInv
<1>6. QED
  BY <1>2, <1>3, <1>5

(* A step that deletes the i-th file and frees its sectors. *)
LEMMA DeleteInv ==
  ASSUME IInv, NEW i \in DOMAIN files, DeleteAt(i)
  PROVE  /\ fat' \in SUBSET Sectors
         /\ files' \in Seq(Objs) /\ NoRepeat(files') /\ Listed' = Listed \ {files[i]}
         /\ obj' \in [Objs -> File \cup {NilFile}]
         /\ \A p \in Listed' : obj'[p] = obj[p]
         /\ \A j \in DOMAIN files' : obj'[files'[j]] \in File
         /\ (OwnedSectors /\ Reserved /\ ChainsOrdered)' /\ NothingLost
<1> DEFINE o == files[i]
<1>0. /\ fat' = fat \ FileSectors(obj[o]) /\ files' = RemoveAt(files, i)
      /\ obj' = [obj EXCEPT ![o] = NilFile]
  BY DEF DeleteAt
<1>1. /\ files \in Seq(Objs) /\ NoRepeat(files)
      /\ Listed \subseteq Objs /\ \A p \in Listed : obj[p] \in File
      /\ Listed = Elems(files) /\ Listed' = Elems(files')
  BY ListFacts
<1>2. o \in Listed
  BY DEF Listed
<1>3. files' \in Seq(Objs) /\ NoRepeat(files') /\ Listed' = Listed \ {o}
  BY <1>0, <1>1, RemoveFromList
<1>4. fat' \in SUBSET Sectors
  BY <1>0 DEF IInv, MemoryTypeOK
<1>5. obj' \in [Objs -> File \cup {NilFile}] /\ \A p \in Objs \ {o} : obj'[p] = obj[p]
  BY <1>0 DEF IInv, MemoryTypeOK
<1>. HIDE DEF o
<1>6. \A p \in Listed' : obj'[p] = obj[p]
  BY <1>1, <1>3, <1>5
<1>7. \A j \in DOMAIN files' : obj'[files'[j]] \in File
  <2>1. \A p \in Listed' : obj'[p] \in File
    BY <1>1, <1>3, <1>6
  <2>2. QED
    BY <2>1, <1>3, FilesTyped
<1>8. (OwnedSectors /\ Reserved /\ ChainsOrdered)' /\ NothingLost
  <2>1. fat' = fat \ FileSectors(obj[o])
    BY <1>0
  <2>2. QED
    BY <2>1, <1>2, <1>3, <1>6, FreedSectors DEF IInv
<1>9. QED
  BY <1>3, <1>4, <1>5, <1>6, <1>7, <1>8 DEF o

-----------------------------------------------------------------------------
(* The handlers preserve the invariant                                     *)

LEMMA CreateInv ==
  ASSUME IInv, NEW n \in Names, NEW h \in Handles, Create(n, h)
  PROVE  IInv' /\ NothingLost
<1> USE DEF IInv
<1>0. /\ files \in Seq(Objs) /\ NoRepeat(files)
      /\ Listed \subseteq Objs /\ \A p \in Listed : obj[p] \in File
      /\ Listed = Elems(files) /\ Listed' = Elems(files')
  BY ListFacts
<1>1. PICK o \in Objs, d \in Sectors :
        /\ NewObject(o)
        /\ FindFree(0, d)
        /\ LET f == [os |-> n, ti |-> TIName[n], attr |-> 0, dirSec |-> d,
                     chains |-> <<>>, secCount |-> 0, eof |-> 0, len |-> 0,
                     ref |-> 1, unlinked |-> FALSE]
           IN  /\ obj' = [obj EXCEPT ![o] = f]
               /\ fat' = fat \cup {d}
               /\ \E p \in InsertPlaces(files, obj, f.ti) : files' = InsertAt(files, p, o)
        /\ fd' = [fd EXCEPT ![h] = o]
  BY DEF Create
<1> DEFINE f == [os |-> n, ti |-> TIName[n], attr |-> 0, dirSec |-> d,
                 chains |-> <<>>, secCount |-> 0, eof |-> 0, len |-> 0,
                 ref |-> 1, unlinked |-> FALSE]
<1>2. Idle /\ fd[h] = 0 /\ fatDirty' = FALSE /\ UNCHANGED <<io, img>>
  BY DEF Create
<1>3. o \notin Listed /\ d \notin fat /\ o # 0
  BY <1>1 DEF NewObject, FindFree, Objs
<1>4. f \in File
  <2>1. TIName[n] \in TINames
    BY DEF TINames
  <2>2. <<>> \in Seq(Chain)
    OBVIOUS
  <2>3. QED
    BY <2>1, <2>2, AttrAssumption DEF File
<1>5. /\ obj' \in [Objs -> File \cup {NilFile}] /\ obj'[o] = f
      /\ \A p \in Objs \ {o} : obj'[p] = obj[p]
  <2>1. obj' = [obj EXCEPT ![o] = f]
    BY <1>1
  <2>. HIDE DEF f
  <2>2. QED
    BY <2>1, <1>4, ObjectTyped
<1>6. PICK p \in 1 .. Len(files) + 1 : files' = InsertAt(files, p, o)
  BY <1>1 DEF InsertPlaces
<1>7. /\ files' \in Seq(Objs) /\ NoRepeat(files')
      /\ Listed' = Listed \cup {o}
  <2>1. o \notin Elems(files)
    BY <1>0, <1>3
  <2>2. QED
    BY <1>0, <1>6, <2>1, InsertIntoList
<1>8. MemoryTypeOK'
  <2>1. fat' \in SUBSET Sectors
    BY <1>1 DEF MemoryTypeOK
  <2>2. fatDirty' \in BOOLEAN
    BY <1>2
  <2>3. fd' \in [Handles -> Objs \cup {0}]
    BY <1>1 DEF MemoryTypeOK
  <2>4. \A i \in DOMAIN files' : obj'[files'[i]] \in File
    <3>. HIDE DEF f
    <3>1. \A q \in Listed' : obj'[q] \in File
      BY <1>0, <1>3, <1>4, <1>5, <1>7
    <3>2. QED
      BY <3>1, <1>7, FilesTyped
  <2>5. io' = io
    BY <1>2
  <2>. HIDE DEF f
  <2>6. QED
    BY <1>5, <1>7, <2>1, <2>2, <2>3, <2>4, <2>5 DEF MemoryTypeOK
<1>9. HandlesLive'
  <2>1. fd' = [fd EXCEPT ![h] = o] /\ fd \in [Handles -> Objs \cup {0}]
    BY <1>1 DEF MemoryTypeOK
  <2>2. \A k \in Handles : fd'[k] # 0 => fd'[k] \in Listed'
    BY <2>1, <1>7 DEF HandlesLive
  <2>3. \A q \in Listed : HandlesOf(q)' = HandlesOf(q)
    BY <2>1, <1>0, <1>2, <1>3 DEF HandlesOf, Objs
  <2>4. HandlesOf(o)' = {h}
    BY <2>1, <1>3 DEF HandlesOf, HandlesLive
  <2>5. Cardinality(HandlesOf(o)') = 1 /\ obj'[o].ref = 1
    <3>1. Cardinality({h}) = 1
      BY FS_Singleton
    <3>2. obj'[o].ref = 1
      BY <1>5
    <3>. HIDE DEF f
    <3>3. QED
      BY <2>4, <3>1, <3>2
  <2>6. \A q \in Listed' : Cardinality(HandlesOf(q)') <= obj'[q].ref
    <3>. HIDE DEF f
    <3>1. \A q \in Listed : obj'[q].ref = obj[q].ref
      BY <1>0, <1>3, <1>5
    <3>2. \A q \in Listed : Cardinality(HandlesOf(q)') <= obj'[q].ref
      BY <3>1, <2>3 DEF HandlesLive
    <3>3. QED
      BY <3>2, <2>5, <1>7
  <2>7. io'.file = 0
    BY <1>2, IdleFacts
  <2>8. \A i, j \in DOMAIN files' : files'[i] = files'[j] => i = j
    BY <1>7 DEF NoRepeat
  <2>9. QED
    BY <2>2, <2>6, <2>7, <2>8 DEF HandlesLive
<1>10. (OwnedSectors /\ Reserved /\ ChainsOrdered)' /\ NothingLost
  <2>1. fat' = fat \cup {d}
    BY <1>1
  <2>2. obj'[o].dirSec = d /\ obj'[o].chains = <<>>
    BY <1>5
  <2>3. \A p_1 \in Listed : obj'[p_1] = obj[p_1]
    <3>. HIDE DEF f
    <3>1. QED
      BY <1>0, <1>3, <1>5
  <2>. HIDE DEF f
  <2>4. QED
    BY <2>1, <2>2, <2>3, <1>3, <1>7, NewFileSectors
<1>11. WriteWithinOrAtEnd'
  BY <1>2, IdleFacts DEF WriteWithinOrAtEnd
<1>12. QED
  BY <1>8, <1>9, <1>10, <1>11

LEMMA OpenInv ==
  ASSUME IInv, NEW n \in Names, NEW h \in Handles, Open(n, h)
  PROVE  IInv' /\ NothingLost
<1>1. PICK o \in Listed :
        /\ obj' = [obj EXCEPT ![o].ref = @ + 1]
        /\ fd' = [fd EXCEPT ![h] = o]
  BY DEF Open, Listed
<1> DEFINE f == [obj[o] EXCEPT !.ref = @ + 1]
<1>2. /\ Idle /\ fd[h] = 0
      /\ fat' = fat /\ fatDirty' = fatDirty /\ files' = files /\ io' = io
  BY DEF Open
<1>3. /\ files \in Seq(Objs) /\ NoRepeat(files)
      /\ Listed \subseteq Objs /\ \A p \in Listed : obj[p] \in File
  BY ListFacts
<1>4. Listed' = Listed
  BY <1>2 DEF Listed
<1>5. o \in Objs /\ o # 0
  BY <1>3 DEF Objs
<1>6. f \in File /\ f.dirSec = obj[o].dirSec /\ f.chains = obj[o].chains
      /\ f.ref = obj[o].ref + 1 /\ obj[o].ref \in Int
  <2>1. obj[o] \in File
    BY <1>3
  <2>2. QED
    BY <2>1, SMTT(40) DEF File
<1>7. obj' = [obj EXCEPT ![o] = f]
  BY <1>1
<1>8. fd' = [fd EXCEPT ![h] = o] /\ fd \in [Handles -> Objs \cup {0}]
  BY <1>1 DEF IInv, MemoryTypeOK
<1>. HIDE DEF f
<1>9. /\ obj' \in [Objs -> File \cup {NilFile}] /\ obj'[o] = f
      /\ \A p \in Objs \ {o} : obj'[p] = obj[p]
      /\ \A j \in DOMAIN files' : obj'[files'[j]] \in File
      /\ (OwnedSectors /\ Reserved /\ ChainsOrdered)' /\ NothingLost
  BY <1>2, <1>3, <1>4, <1>6, <1>7, UpdateInv
<1>10. MemoryTypeOK'
  BY <1>2, <1>3, <1>5, <1>8, <1>9 DEF IInv, MemoryTypeOK
<1>11. HandlesLive'
  <2>1. \A k \in Handles : fd'[k] # 0 => fd'[k] \in Listed'
    BY <1>4, <1>8 DEF IInv, HandlesLive
  <2>2. \A q \in Listed \ {o} : HandlesOf(q)' = HandlesOf(q)
    BY <1>2, <1>3, <1>8 DEF HandlesOf, Objs
  <2>3. Cardinality(HandlesOf(o)') = Cardinality(HandlesOf(o)) + 1
    <3>1. HandlesOf(o)' = HandlesOf(o) \cup {h} /\ h \notin HandlesOf(o)
      BY <1>2, <1>5, <1>8 DEF HandlesOf
    <3>2. QED
      BY <3>1, HandlesFinite, FS_AddElement
  <2>4. \A q \in Listed' : Cardinality(HandlesOf(q)') <= obj'[q].ref
    <3>1. ASSUME NEW q \in Listed \ {o}
          PROVE  Cardinality(HandlesOf(q)') <= obj'[q].ref
      BY <2>2, <1>3, <1>9 DEF IInv, HandlesLive
    <3>2. Cardinality(HandlesOf(o)') <= obj'[o].ref
      <4>1. Cardinality(HandlesOf(o)) <= obj[o].ref /\ Cardinality(HandlesOf(o)) \in Nat
        BY <1>4, HandlesFinite DEF IInv, HandlesLive
      <4>2. QED
        BY <4>1, <2>3, <1>6, <1>9
    <3>3. QED
      BY <3>1, <3>2, <1>4
  <2>5. io'.file = 0
    BY <1>2, IdleFacts DEF IInv
  <2>6. \A k, j \in DOMAIN files' : files'[k] = files'[j] => k = j
    BY <1>2, <1>3 DEF NoRepeat
  <2>7. QED
    BY <2>1, <2>4, <2>5, <2>6 DEF HandlesLive
<1>12. WriteWithinOrAtEnd'
  BY <1>2, IdleFacts DEF IInv, WriteWithinOrAtEnd
<1>13. QED
  BY <1>9, <1>10, <1>11, <1>12 DEF IInv

(* The last close of an unlinked file *)
LEMMA ReleaseLastInv ==
  ASSUME IInv, NEW h \in Handles, Release(h),
         obj[fd[h]].ref = 1, obj[fd[h]].unlinked
  PROVE  IInv' /\ NothingLost
<1>1. PICK o \in Objs : o = fd[h]
  BY DEF Release, IInv, MemoryTypeOK
<1>2. PICK i \in DOMAIN files : files[i] = o /\ DeleteAt(i)
  BY <1>1 DEF Release
<1>3. /\ fatDirty' = TRUE
      /\ fd' = [fd EXCEPT ![h] = 0] /\ io' = io /\ Idle /\ obj[o].ref = 1
  BY <1>1 DEF Release
<1>4. o \in Listed
  BY <1>2 DEF Listed
<1>5. /\ fat' \in SUBSET Sectors
      /\ files' \in Seq(Objs) /\ NoRepeat(files') /\ Listed' = Listed \ {o}
      /\ obj' \in [Objs -> File \cup {NilFile}]
      /\ \A p \in Listed' : obj'[p] = obj[p]
      /\ \A j \in DOMAIN files' : obj'[files'[j]] \in File
      /\ (OwnedSectors /\ Reserved /\ ChainsOrdered)' /\ NothingLost
  BY <1>2, <1>3, DeleteInv
<1>6. fd \in [Handles -> Objs \cup {0}]
  BY DEF IInv, MemoryTypeOK
<1>7. MemoryTypeOK'
  BY <1>3, <1>5, <1>6 DEF IInv, MemoryTypeOK
<1>8. HandlesOf(o) = {h}
  <2>1. /\ Cardinality(HandlesOf(o)) <= 1 /\ Cardinality(HandlesOf(o)) \in Nat
        /\ IsFiniteSet(HandlesOf(o))
    BY <1>3, <1>4, HandlesFinite DEF IInv, HandlesLive
  <2>2. h \in HandlesOf(o)
    BY <1>1 DEF HandlesOf
  <2>3. Cardinality(HandlesOf(o)) # 0
    BY <2>1, <2>2, FS_EmptySet
  <2>4. Cardinality(HandlesOf(o)) = 1
    BY <2>1, <2>3
  <2>5. \E x : HandlesOf(o) = {x}
    BY <2>1, <2>4, FS_Singleton
  <2>6. QED
    BY <2>2, <2>5
<1>9. HandlesLive'
  <2>1. \A k \in Handles : fd'[k] # 0 => fd'[k] \in Listed'
    <3>1. \A k \in Handles : fd'[k] # 0 => k # h /\ fd'[k] = fd[k]
      BY <1>3, <1>6
    <3>2. \A k \in Handles : fd[k] = o => k = h
      BY <1>8 DEF HandlesOf
    <3>3. QED
      BY <3>1, <3>2, <1>5 DEF IInv, HandlesLive
  <2>2. \A q \in Listed' : HandlesOf(q)' = HandlesOf(q)
    <3>1. 0 \notin Objs /\ Listed \subseteq Objs
      BY ListFacts DEF Objs
    <3>2. QED
      BY <3>1, <1>1, <1>3, <1>5, <1>6 DEF HandlesOf
  <2>3. \A q \in Listed' : Cardinality(HandlesOf(q)') <= obj'[q].ref
    BY <2>2, <1>5 DEF IInv, HandlesLive
  <2>4. io'.file = 0
    BY <1>3, IdleFacts DEF IInv
  <2>5. \A k, j \in DOMAIN files' : files'[k] = files'[j] => k = j
    BY <1>5 DEF NoRepeat
  <2>6. QED
    BY <2>1, <2>3, <2>4, <2>5 DEF HandlesLive
<1>10. WriteWithinOrAtEnd'
  BY <1>3, IdleFacts DEF IInv, WriteWithinOrAtEnd
<1>11. QED
  BY <1>5, <1>7, <1>9, <1>10 DEF IInv

(* Any other close *)
LEMMA ReleaseKeepInv ==
  ASSUME IInv, NEW h \in Handles, Release(h),
         ~(obj[fd[h]].ref = 1 /\ obj[fd[h]].unlinked)
  PROVE  IInv' /\ NothingLost
<1>1. PICK o \in Listed : o = fd[h]
  BY DEF Release, IInv, HandlesLive
<1> DEFINE f == [obj[o] EXCEPT !.ref = @ - 1]
<1>2. /\ obj' = [obj EXCEPT ![o] = f]
      /\ fd' = [fd EXCEPT ![h] = 0]
      /\ fat' = fat /\ fatDirty' = fatDirty /\ files' = files /\ io' = io /\ Idle
  BY <1>1 DEF Release
<1>3. /\ files \in Seq(Objs) /\ NoRepeat(files)
      /\ Listed \subseteq Objs /\ \A p \in Listed : obj[p] \in File
  BY ListFacts
<1>4. Listed' = Listed
  BY <1>2 DEF Listed
<1>5. f \in File /\ f.dirSec = obj[o].dirSec /\ f.chains = obj[o].chains
      /\ f.ref = obj[o].ref - 1 /\ obj[o].ref \in Int
  <2>1. obj[o] \in File
    BY <1>3
  <2>2. QED
    BY <2>1, SMTT(40) DEF File
<1>6. fd \in [Handles -> Objs \cup {0}]
  BY DEF IInv, MemoryTypeOK
<1>. HIDE DEF f
<1>7. /\ obj' \in [Objs -> File \cup {NilFile}] /\ obj'[o] = f
      /\ \A p \in Objs \ {o} : obj'[p] = obj[p]
      /\ \A j \in DOMAIN files' : obj'[files'[j]] \in File
      /\ (OwnedSectors /\ Reserved /\ ChainsOrdered)' /\ NothingLost
  BY <1>2, <1>3, <1>4, <1>5, UpdateInv
<1>8. MemoryTypeOK'
  BY <1>2, <1>3, <1>6, <1>7 DEF IInv, MemoryTypeOK
<1>9. HandlesLive'
  <2>0. 0 \notin Objs
    BY DEF Objs
  <2>1. \A k \in Handles : fd'[k] # 0 => fd'[k] \in Listed'
    BY <1>2, <1>4, <1>6 DEF IInv, HandlesLive
  <2>2. \A q \in Listed \ {o} : HandlesOf(q)' = HandlesOf(q)
    BY <2>0, <1>1, <1>2, <1>3, <1>6 DEF HandlesOf
  <2>3. Cardinality(HandlesOf(o)') = Cardinality(HandlesOf(o)) - 1
    <3>1. HandlesOf(o)' = HandlesOf(o) \ {h} /\ h \in HandlesOf(o)
      BY <2>0, <1>1, <1>2, <1>3, <1>6 DEF HandlesOf
    <3>2. QED
      BY <3>1, HandlesFinite, FS_RemoveElement
  <2>4. \A q \in Listed' : Cardinality(HandlesOf(q)') <= obj'[q].ref
    <3>1. ASSUME NEW q \in Listed \ {o}
          PROVE  Cardinality(HandlesOf(q)') <= obj'[q].ref
      BY <2>2, <1>3, <1>7 DEF IInv, HandlesLive
    <3>2. Cardinality(HandlesOf(o)') <= obj'[o].ref
      <4>1. Cardinality(HandlesOf(o)) <= obj[o].ref /\ Cardinality(HandlesOf(o)) \in Nat
        BY HandlesFinite DEF IInv, HandlesLive
      <4>2. QED
        BY <4>1, <2>3, <1>5, <1>7
    <3>3. QED
      BY <3>1, <3>2, <1>4
  <2>5. io'.file = 0
    BY <1>2, IdleFacts DEF IInv
  <2>6. \A k, j \in DOMAIN files' : files'[k] = files'[j] => k = j
    BY <1>2, <1>3 DEF NoRepeat
  <2>7. QED
    BY <2>1, <2>4, <2>5, <2>6 DEF HandlesLive
<1>10. WriteWithinOrAtEnd'
  BY <1>2, IdleFacts DEF IInv, WriteWithinOrAtEnd
<1>11. QED
  BY <1>7, <1>8, <1>9, <1>10 DEF IInv

LEMMA ReleaseInv ==
  ASSUME IInv, NEW h \in Handles, Release(h)
  PROVE  IInv' /\ NothingLost
  BY ReleaseLastInv, ReleaseKeepInv

(* A step that leaves the handles and the set of files. *)
LEMMA SameHandles ==
  ASSUME IInv, fd' = fd, Listed' \subseteq Listed, NoRepeat(files'),
         \A h \in Handles : fd[h] # 0 => fd[h] \in Listed',
         \A q \in Listed' : obj'[q].ref \in Int /\ obj[q].ref \in Int
                            /\ obj[q].ref <= obj'[q].ref,
         io'.file # 0 => io'.file \in {fd[h] : h \in Handles}
  PROVE  HandlesLive'
<1>1. \A q \in Listed' : HandlesOf(q)' = HandlesOf(q)
  BY DEF HandlesOf
<1>2. ASSUME NEW q \in Listed'
      PROVE  Cardinality(HandlesOf(q)') <= obj'[q].ref
  <2>1. Cardinality(HandlesOf(q)) <= obj[q].ref /\ Cardinality(HandlesOf(q)) \in Nat
    BY HandlesFinite DEF IInv, HandlesLive
  <2>2. HandlesOf(q)' = HandlesOf(q)
    BY <1>1
  <2>3. QED
    BY <2>1, <2>2
<1>3. \A q \in Listed' : Cardinality(HandlesOf(q)') <= obj'[q].ref
  BY <1>2
<1>4. QED
  BY <1>3 DEF HandlesLive, NoRepeat

LEMMA UnlinkInv ==
  ASSUME IInv, NEW n \in Names, Unlink(n)
  PROVE  IInv' /\ NothingLost
<1>1. PICK i \in DOMAIN files :
        LET o == files[i]
            f == obj[o]
        IN  \/ f.ref = 0 /\ DeleteAt(i)
            \/ /\ f.ref # 0
               /\ obj' = [obj EXCEPT ![o].unlinked = TRUE]
               /\ UNCHANGED <<fat, files>>
  BY DEF Unlink
<1>2. PICK o \in Listed : o = files[i]
  BY DEF Listed
<1>3. Idle /\ fatDirty' = FALSE /\ fd' = fd /\ io' = io
  BY DEF Unlink
<1>4. /\ files \in Seq(Objs) /\ NoRepeat(files)
      /\ Listed \subseteq Objs /\ \A p \in Listed : obj[p] \in File
  BY ListFacts
<1>5. io'.file = 0
  BY <1>3, IdleFacts DEF IInv
<1>6. WriteWithinOrAtEnd'
  BY <1>3, IdleFacts DEF IInv, WriteWithinOrAtEnd
<1>7. ASSUME obj[o].ref = 0, DeleteAt(i)
      PROVE  IInv' /\ NothingLost
  <2>1. /\ fat' \in SUBSET Sectors
        /\ files' \in Seq(Objs) /\ NoRepeat(files') /\ Listed' = Listed \ {o}
        /\ obj' \in [Objs -> File \cup {NilFile}]
        /\ \A p \in Listed' : obj'[p] = obj[p]
        /\ \A j \in DOMAIN files' : obj'[files'[j]] \in File
        /\ (OwnedSectors /\ Reserved /\ ChainsOrdered)' /\ NothingLost
    BY <1>2, <1>7, DeleteInv
  <2>2. HandlesOf(o) = {}
    <3>1. Cardinality(HandlesOf(o)) <= 0 /\ Cardinality(HandlesOf(o)) \in Nat
      BY <1>7, HandlesFinite DEF IInv, HandlesLive
    <3>2. Cardinality(HandlesOf(o)) = 0
      BY <3>1
    <3>3. QED
      BY <3>2, HandlesFinite, FS_EmptySet
  <2>3. HandlesLive'
    <3>1. \A h \in Handles : fd[h] # 0 => fd[h] \in Listed'
      BY <2>1, <2>2 DEF IInv, HandlesLive, HandlesOf
    <3>2. \A q \in Listed' : obj'[q].ref \in Int /\ obj[q].ref \in Int
                             /\ obj[q].ref <= obj'[q].ref
      BY <2>1, <1>4 DEF File
    <3>3. QED
      BY <3>1, <3>2, <2>1, <1>3, <1>5, SameHandles
  <2>4. MemoryTypeOK'
    BY <2>1, <1>3 DEF IInv, MemoryTypeOK
  <2>5. QED
    BY <2>1, <2>3, <2>4, <1>6 DEF IInv
<1>8. ASSUME obj' = [obj EXCEPT ![o].unlinked = TRUE], fat' = fat, files' = files
      PROVE  IInv' /\ NothingLost
  <2> DEFINE f == [obj[o] EXCEPT !.unlinked = TRUE]
  <2>1. f \in File /\ f.dirSec = obj[o].dirSec /\ f.chains = obj[o].chains
        /\ f.ref = obj[o].ref /\ obj[o].ref \in Int
    BY <1>4 DEF File
  <2>2. obj' = [obj EXCEPT ![o] = f] /\ Listed' = Listed
    BY <1>8 DEF Listed
  <2>. HIDE DEF f
  <2>3. /\ obj' \in [Objs -> File \cup {NilFile}] /\ obj'[o] = f
        /\ \A p \in Objs \ {o} : obj'[p] = obj[p]
        /\ \A j \in DOMAIN files' : obj'[files'[j]] \in File
        /\ (OwnedSectors /\ Reserved /\ ChainsOrdered)' /\ NothingLost
    BY <1>4, <1>8, <2>1, <2>2, UpdateInv
  <2>4. HandlesLive'
    <3>1. \A q \in Listed' : obj'[q].ref \in Int /\ obj[q].ref \in Int
                             /\ obj[q].ref <= obj'[q].ref
      BY <2>1, <2>2, <2>3, <1>4, SMTT(40) DEF File
    <3>2. \A h \in Handles : fd[h] # 0 => fd[h] \in Listed'
      BY <2>2 DEF IInv, HandlesLive
    <3>3. NoRepeat(files')
      BY <1>4, <1>8
    <3>4. QED
      BY <3>1, <3>2, <3>3, <2>2, <1>3, <1>5, SameHandles
  <2>5. MemoryTypeOK'
    BY <2>3, <1>3, <1>4, <1>8 DEF IInv, MemoryTypeOK
  <2>6. QED
    BY <2>3, <2>4, <2>5, <1>6 DEF IInv
<1>9. QED
  BY <1>1, <1>2, <1>7, <1>8

LEMMA SetXattrInv ==
  ASSUME IInv, NEW n \in Names, NEW a \in Attrs, SetXattr(n, a)
  PROVE  IInv' /\ NothingLost
<1>1. PICK o \in Listed : obj' = [obj EXCEPT ![o] = [obj[o] EXCEPT !.attr = a]]
  BY DEF SetXattr, Listed
<1>2. Idle /\ fatDirty' = FALSE /\ fat' = fat /\ files' = files /\ fd' = fd /\ io' = io
  BY DEF SetXattr
<1>3. /\ files \in Seq(Objs) /\ NoRepeat(files)
      /\ Listed \subseteq Objs /\ \A p \in Listed : obj[p] \in File
  BY ListFacts
<1> DEFINE f == [obj[o] EXCEPT !.attr = a]
<1>4. f \in File /\ f.dirSec = obj[o].dirSec /\ f.chains = obj[o].chains
      /\ f.ref = obj[o].ref /\ obj[o].ref \in Int
  BY <1>3 DEF File
<1>5. obj' = [obj EXCEPT ![o] = f] /\ Listed' = Listed
  BY <1>1, <1>2 DEF Listed
<1>. HIDE DEF f
<1>6. /\ obj' \in [Objs -> File \cup {NilFile}] /\ obj'[o] = f
      /\ \A p \in Objs \ {o} : obj'[p] = obj[p]
      /\ \A j \in DOMAIN files' : obj'[files'[j]] \in File
      /\ (OwnedSectors /\ Reserved /\ ChainsOrdered)' /\ NothingLost
  BY <1>2, <1>3, <1>4, <1>5, UpdateInv
<1>7. HandlesLive'
  <2>1. \A q \in Listed' : obj'[q].ref \in Int /\ obj[q].ref \in Int
                           /\ obj[q].ref <= obj'[q].ref
    BY <1>3, <1>4, <1>5, <1>6, SMTT(40) DEF File
  <2>2. \A h \in Handles : fd[h] # 0 => fd[h] \in Listed'
    BY <1>5 DEF IInv, HandlesLive
  <2>3. NoRepeat(files') /\ io'.file = 0
    BY <1>2, <1>3, IdleFacts DEF IInv
  <2>4. QED
    BY <2>1, <2>2, <2>3, <1>2, <1>5, SameHandles
<1>8. MemoryTypeOK'
  BY <1>2, <1>3, <1>6 DEF IInv, MemoryTypeOK
<1>9. WriteWithinOrAtEnd'
  BY <1>2, IdleFacts DEF IInv, WriteWithinOrAtEnd
<1>10. QED
  BY <1>6, <1>7, <1>8, <1>9 DEF IInv

LEMMA RenameInv ==
  ASSUME IInv, NEW n \in Names, NEW m \in Names, Rename(n, m)
  PROVE  IInv' /\ NothingLost
<1>1. PICK i \in DOMAIN files :
        LET o == files[i]
            f == [obj[o] EXCEPT !.os = m, !.ti = TIName[m], !.ref = @ + 1]
            rest == RemoveAt(files, i)
        IN  /\ obj' = [obj EXCEPT ![o] = f]
            /\ \E p \in InsertPlaces(rest, obj, f.ti) : files' = InsertAt(rest, p, o)
  BY DEF Rename
<1>2. PICK o \in Listed : o = files[i]
  BY DEF Listed
<1> DEFINE f == [obj[o] EXCEPT !.os = m, !.ti = TIName[m], !.ref = @ + 1]
           rest == RemoveAt(files, i)
<1>3. Idle /\ fatDirty' = FALSE /\ fat' = fat /\ fd' = fd /\ io' = io
  BY DEF Rename
<1>4. /\ files \in Seq(Objs) /\ NoRepeat(files)
      /\ Listed \subseteq Objs /\ \A p \in Listed : obj[p] \in File
      /\ Listed = Elems(files) /\ Listed' = Elems(files')
  BY ListFacts
<1>5. f \in File /\ f.dirSec = obj[o].dirSec /\ f.chains = obj[o].chains
      /\ f.ref = obj[o].ref + 1 /\ obj[o].ref \in Int
  <2>1. obj[o] \in File
    BY <1>4
  <2>2. PICK t \in TINames : t = TIName[m]
    BY DEF TINames
  <2>3. f = [obj[o] EXCEPT !.os = m, !.ti = t, !.ref = @ + 1]
    BY <2>2
  <2>4. obj[o].ref \in Int
    BY <2>1 DEF File
  <2>. HIDE DEF f
  <2>5. f \in File
    <3>1. PICK g \in File : g = obj[o]
      BY <2>1
    <3>2. PICK r \in Int : r = g.ref + 1
      BY <2>4, <3>1
    <3>3. f = [g EXCEPT !.os = m, !.ti = t, !.ref = r]
      BY <2>3, <3>1, <3>2
    <3>4. QED
      BY <3>3 DEF File
  <2>6. f.dirSec = obj[o].dirSec /\ f.chains = obj[o].chains
    BY <2>1, <2>3 DEF File
  <2>7. f.ref = obj[o].ref + 1
    BY <2>1, <2>3 DEF File
  <2>8. QED
    BY <2>4, <2>5, <2>6, <2>7
<1>6. obj' = [obj EXCEPT ![o] = f]
  BY <1>1, <1>2
<1>7. PICK p \in 1 .. Len(rest) + 1 : files' = InsertAt(rest, p, o)
  BY <1>1, <1>2 DEF InsertPlaces
<1>. HIDE DEF f
<1>8. files' \in Seq(Objs) /\ NoRepeat(files') /\ Listed' = Listed
  <2>1. rest \in Seq(Objs) /\ NoRepeat(rest) /\ Elems(rest) = Listed \ {o}
    BY <1>2, <1>4, RemoveFromList
  <2>. HIDE DEF rest
  <2>2. /\ InsertAt(rest, p, o) \in Seq(Objs) /\ NoRepeat(InsertAt(rest, p, o))
        /\ Elems(InsertAt(rest, p, o)) = Elems(rest) \cup {o}
    BY <2>1, <1>4, InsertIntoList
  <2>3. QED
    BY <2>1, <2>2, <1>4, <1>7
<1>9. /\ obj' \in [Objs -> File \cup {NilFile}] /\ obj'[o] = f
      /\ \A q \in Objs \ {o} : obj'[q] = obj[q]
      /\ \A j \in DOMAIN files' : obj'[files'[j]] \in File
      /\ (OwnedSectors /\ Reserved /\ ChainsOrdered)' /\ NothingLost
  BY <1>3, <1>5, <1>6, <1>8, UpdateInv
<1>10. HandlesLive'
  <2>1. \A q \in Listed' : obj'[q].ref \in Int /\ obj[q].ref \in Int
                           /\ obj[q].ref <= obj'[q].ref
    <3>1. \A q \in Listed : obj[q].ref \in Int
      BY <1>4 DEF File
    <3>2. \A q \in Listed \ {o} : obj'[q].ref = obj[q].ref
      BY <1>4, <1>9
    <3>3. obj'[o].ref = obj[o].ref + 1
      BY <1>5, <1>9
    <3>4. QED
      BY <3>1, <3>2, <3>3, <1>8
  <2>2. \A h \in Handles : fd[h] # 0 => fd[h] \in Listed'
    BY <1>8 DEF IInv, HandlesLive
  <2>3. io'.file = 0
    BY <1>3, IdleFacts DEF IInv
  <2>4. QED
    BY <2>1, <2>2, <2>3, <1>3, <1>8, SameHandles
<1>11. MemoryTypeOK'
  BY <1>3, <1>8, <1>9 DEF IInv, MemoryTypeOK
<1>12. WriteWithinOrAtEnd'
  BY <1>3, IdleFacts DEF IInv, WriteWithinOrAtEnd
<1>13. QED
  BY <1>9, <1>10, <1>11, <1>12 DEF IInv

-----------------------------------------------------------------------------
(* The write loop preserves the invariant                                  *)

(* The values of io. *)
IOType == [file : Objs \cup {0}, chain : Nat, sector : Nat, avail : Int,
           off : Nat, len : Nat, newLen : Nat]

(* A write in progress is on a listed file. *)
LEMMA WritingListed ==
  ASSUME IInv, io.file # 0 \/ io.len # 0
  PROVE  io.file # 0 /\ io.file \in Listed /\ io.file \in Objs
<1>1. io.file # 0
  BY DEF IInv, WriteWithinOrAtEnd, NoIO
<1>2. io.file \in Listed
  BY <1>1 DEF IInv, HandlesLive
<1>3. QED
  BY <1>1, <1>2, ListFacts

(* Finitely many sectors come before a chain. *)
LEMMA SectorsBeforeNat ==
  ASSUME NEW chains, NEW c \in Nat
  PROVE  SectorsBefore(chains, c) \in Nat
<1> DEFINE all == (1 .. c - 1) \X Sectors
           before == {p \in all : p[2] \in ChainSectors(chains[p[1]])}
<1>1. IsFiniteSet(1 .. c - 1) /\ IsFiniteSet(Sectors)
  BY FS_Interval, SizeAssumption DEF Sectors
<1>2. IsFiniteSet(all)
  BY <1>1, FS_Product
<1>3. IsFiniteSet(before)
  BY <1>2, FS_Subset
<1>4. Cardinality(before) \in Nat
  BY <1>3, FS_CardinalityType
<1>5. QED
  BY <1>4 DEF SectorsBefore

(* An iteration writes at least a byte and at most what is asked for, and  *)
(* what is left of a write within the file is within it.                   *)
LEMMA StepFacts ==
  ASSUME IInv
  PROVE  /\ io \in IOType
         /\ io.len - StepBytes \in Nat
         /\ io.off + io.len <= io.avail * SectorBytes /\ io.len - StepBytes # 0
              => io.len - StepBytes <= (io.avail - 1) * SectorBytes
<1>1. io \in IOType
  BY DEF IInv, MemoryTypeOK, IOType
<1>2. io.off \in Nat /\ io.len \in Nat /\ io.avail \in Int /\ SectorBytes \in Nat
  BY <1>1, SizeAssumption DEF IOType
<1>3. io.len - StepBytes \in Nat
  BY <1>2 DEF StepBytes
<1>4. ASSUME io.off + io.len <= io.avail * SectorBytes, io.len - StepBytes # 0
      PROVE  io.len - StepBytes <= (io.avail - 1) * SectorBytes
  <2>1. io.len - StepBytes = io.off + io.len - SectorBytes
    BY <1>2, <1>4 DEF StepBytes
  <2>2. (io.avail - 1) * SectorBytes = io.avail * SectorBytes - SectorBytes
    BY <1>2
  <2>3. io.avail * SectorBytes \in Int
    BY <1>2
  <2>4. QED
    BY <1>2, <1>4, <2>1, <2>2, <2>3
<1>5. QED
  BY <1>1, <1>3, <1>4

(* A step of a write that leaves the files alone. *)
LEMMA SameFilesInv ==
  ASSUME IInv, io' \in IOType, fatDirty' \in BOOLEAN,
         fat' = fat, files' = files, obj' = obj, fd' = fd,
         io'.file # 0 => io'.file \in {fd[h] : h \in Handles},
         WriteWithinOrAtEnd'
  PROVE  IInv' /\ NothingLost
<1>1. Listed' = Listed
  BY DEF Listed
<1>2. (OwnedSectors /\ Reserved /\ ChainsOrdered)' /\ NothingLost
  BY <1>1, SameSectors DEF IInv
<1>3. MemoryTypeOK'
  BY DEF IInv, MemoryTypeOK, IOType
<1>4. HandlesLive'
  <2>1. \A q \in Listed' : obj'[q].ref \in Int /\ obj[q].ref \in Int
                           /\ obj[q].ref <= obj'[q].ref
    BY <1>1, ListFacts DEF File
  <2>2. \A h \in Handles : fd[h] # 0 => fd[h] \in Listed'
    BY <1>1 DEF IInv, HandlesLive
  <2>3. NoRepeat(files')
    BY ListFacts
  <2>4. QED
    BY <2>1, <2>2, <2>3, <1>1, SameHandles
<1>5. QED
  BY <1>2, <1>3, <1>4 DEF IInv

(* What an iteration does to io. *)
LEMMA IterationTyped ==
  ASSUME NEW g \in IOType, NEW n, g.len - n \in Nat
  PROVE  LET rest == [g EXCEPT !.off = 0, !.len = @ - n, !.avail = @ - 1, !.sector = @ + 1]
         IN  /\ rest \in IOType
             /\ rest.file = g.file /\ rest.chain = g.chain /\ rest.off = 0
             /\ rest.len = g.len - n /\ rest.avail = g.avail - 1
<1>1. PICK l \in Nat : l = g.len - n
  OBVIOUS
<1>2. PICK a \in Int : a = g.avail - 1
  BY DEF IOType
<1>3. PICK s \in Nat : s = g.sector + 1
  BY DEF IOType
<1>4. QED
  BY <1>1, <1>2, <1>3 DEF IOType

(* The ends of a chain are sectors, which are numbers. *)
LEMMA ChainEnds ==
  ASSUME NEW chains \in Seq(Chain), NEW c \in DOMAIN chains
  PROVE  /\ chains[c] \in Chain
         /\ chains[c].start \in Sectors /\ chains[c].start \in Nat
         /\ chains[c].end \in Sectors /\ chains[c].end \in Nat
<1>1. chains[c] \in Chain
  BY ElementOfSeq, LenProperties
<1>2. Sectors \subseteq Nat
  BY SizeAssumption DEF Sectors
<1>3. QED
  BY <1>1, <1>2 DEF Chain

LEMMA WriteExistingInv ==
  ASSUME IInv, WriteExisting
  PROVE  IInv' /\ NothingLost
<1>1. /\ io.len # 0 /\ io.avail # 0
      /\ fat' = fat /\ fatDirty' = fatDirty /\ files' = files /\ obj' = obj /\ fd' = fd
  BY DEF WriteExisting
<1>2. /\ io \in IOType
      /\ io.len - StepBytes \in Nat
      /\ io.off + io.len <= io.avail * SectorBytes /\ io.len - StepBytes # 0
           => io.len - StepBytes <= (io.avail - 1) * SectorBytes
  BY StepFacts
<1>3. io.file # 0 /\ io.file \in Listed /\ io.file \in Objs
  BY <1>1, WritingListed
<1>4. PICK chains \in Seq(Chain) : chains = obj[io.file].chains
  BY <1>3, ListFacts DEF File
<1>5. io.file \in {fd[h] : h \in Handles}
  BY <1>3 DEF IInv, HandlesLive
<1>6. \A c \in DOMAIN chains : chains[c].start \in Nat
  BY <1>4, ChainEnds
<1> DEFINE rest == [io EXCEPT !.off = 0, !.len = @ - StepBytes,
                              !.avail = @ - 1, !.sector = @ + 1]
<1>7. \/ io' = rest
      \/ /\ io.chain + 1 \in DOMAIN chains
         /\ io' = [rest EXCEPT !.chain = @ + 1, !.sector = chains[io.chain + 1].start]
  BY <1>4 DEF WriteExisting
<1>8. /\ rest \in IOType
      /\ rest.file = io.file /\ rest.chain = io.chain /\ rest.off = 0
      /\ rest.len = io.len - StepBytes /\ rest.avail = io.avail - 1
  BY <1>2, IterationTyped
<1>. HIDE DEF rest
<1>9. /\ io' \in IOType /\ io'.file = io.file /\ io'.off = 0
      /\ io'.len = io.len - StepBytes /\ io'.avail = io.avail - 1
      /\ io'.chain = io.chain \/ io.chain + 1 \in DOMAIN chains
  <2>1. CASE io' = rest
    BY <2>1, <1>8
  <2>2. ASSUME io.chain + 1 \in DOMAIN chains,
               io' = [rest EXCEPT !.chain = @ + 1, !.sector = chains[io.chain + 1].start]
        PROVE  /\ io' \in IOType /\ io'.file = io.file /\ io'.off = 0
               /\ io'.len = io.len - StepBytes /\ io'.avail = io.avail - 1
    <3>1. PICK s \in Nat : s = chains[io.chain + 1].start
      BY <2>2, <1>6
    <3>2. io' = [rest EXCEPT !.chain = @ + 1, !.sector = s]
      BY <2>2, <3>1
    <3>3. PICK g \in IOType : g = rest
      BY <1>8
    <3>4. PICK c \in Nat : c = g.chain + 1
      BY DEF IOType
    <3>5. io' = [g EXCEPT !.chain = c, !.sector = s]
      BY <3>2, <3>3, <3>4
    <3>6. io' \in IOType /\ io'.file = g.file /\ io'.off = g.off /\ io'.len = g.len
          /\ io'.avail = g.avail
      BY <3>5 DEF IOType
    <3>7. QED
      BY <3>3, <3>6, <1>8
  <2>3. QED
    BY <2>1, <2>2, <1>7
<1>10. WriteWithinOrAtEnd'
  <2>1. io'.file # 0
    BY <1>3, <1>9
  <2>2. ASSUME io'.len # 0
        PROVE  \/ io'.chain = Len(obj'[io'.file].chains) + 1
               \/ io'.off + io'.len <= io'.avail * SectorBytes
    <3>1. CASE io.off + io.len <= io.avail * SectorBytes
      BY <3>1, <2>2, <1>2, <1>9 DEF IOType
    <3>2. CASE io.chain = Len(chains) + 1
      <4>1. io.chain + 1 \notin DOMAIN chains
        <5>1. DOMAIN chains = 1 .. Len(chains) /\ Len(chains) \in Nat
          BY <1>4, LenProperties
        <5>2. QED
          BY <5>1, <3>2
      <4>2. io'.chain = io.chain /\ obj'[io'.file].chains = chains
        BY <4>1, <1>1, <1>4, <1>9
      <4>3. QED
        BY <4>2, <3>2
    <3>3. QED
      BY <3>1, <3>2, <1>1, <1>4 DEF IInv, WriteWithinOrAtEnd
  <2>3. QED
    BY <2>1, <2>2 DEF WriteWithinOrAtEnd
<1>11. fatDirty' \in BOOLEAN
  BY <1>1 DEF IInv, MemoryTypeOK
<1>12. QED
  BY <1>1, <1>5, <1>9, <1>10, <1>11, SameFilesInv

LEMMA WriteFullInv ==
  ASSUME IInv, WriteFull
  PROVE  IInv' /\ NothingLost
<1>1. /\ io' = [io EXCEPT !.len = 0]
      /\ io.len # 0
      /\ fat' = fat /\ fatDirty' = fatDirty /\ files' = files /\ obj' = obj /\ fd' = fd
  BY DEF WriteFull
<1>2. io \in IOType
  BY DEF IInv, MemoryTypeOK, IOType
<1>3. io' \in IOType /\ io'.file = io.file /\ io'.len = 0
  BY <1>1, <1>2 DEF IOType
<1>4. io.file # 0 /\ io.file \in {fd[h] : h \in Handles}
  BY <1>1, WritingListed DEF IInv, HandlesLive
<1>5. WriteWithinOrAtEnd'
  BY <1>3, <1>4 DEF WriteWithinOrAtEnd
<1>6. fatDirty' \in BOOLEAN
  BY <1>1 DEF IInv, MemoryTypeOK
<1>7. QED
  BY <1>1, <1>3, <1>4, <1>5, <1>6, SameFilesInv

(* Whole sectors before an offset *)
LEMMA DivFacts ==
  ASSUME NEW off \in Nat
  PROVE  /\ off \div SectorBytes \in Nat
         /\ off - (off \div SectorBytes) * SectorBytes \in Nat
<1>1. SectorBytes \in Nat /\ 0 < SectorBytes
  BY SizeAssumption
<1>2. off \div SectorBytes \in Nat
  BY <1>1
<1>3. (off \div SectorBytes) * SectorBytes <= off
  BY <1>1
<1>4. (off \div SectorBytes) * SectorBytes \in Nat
  BY <1>1, <1>2
<1>5. QED
  BY <1>2, <1>3, <1>4

LEMMA WriteStartInv ==
  ASSUME IInv, MidSectorAppend = FALSE,
         NEW h \in Handles, NEW r \in Requests, WriteStart(h, r[1], r[2])
  PROVE  IInv' /\ NothingLost
<1>1. PICK off \in Nat, len \in Nat : off = r[1] /\ len = r[2]
  BY BoundAssumption
<1>2. /\ Idle /\ fd[h] # 0
      /\ fat' = fat /\ fatDirty' = fatDirty /\ files' = files /\ obj' = obj /\ fd' = fd
  BY DEF WriteStart
<1>3. PICK o \in Listed : o = fd[h]
  BY <1>2 DEF IInv, HandlesLive
<1>4. PICK f \in File : f = obj[o]
  BY ListFacts
<1> DEFINE skip == off \div SectorBytes
           total == SectorsBefore(f.chains, Len(f.chains) + 1)
           at(c, s, n) == [file |-> o, chain |-> c, sector |-> s,
                           avail |-> f.secCount - n, off |-> off - n * SectorBytes,
                           len |-> len, newLen |-> off + len]
<1>5. /\ off <= total * SectorBytes
      /\ \/ \E c \in DOMAIN f.chains : \E s \in ChainSectors(f.chains[c]) :
              off + len <= f.secCount * SectorBytes /\ io' = at(c, s, skip)
         \/ skip >= total /\ io' = at(Len(f.chains) + 1, 0, total)
  BY <1>1, <1>3, <1>4, SwitchAssumption DEF WriteStart
<1>6. f.secCount \in Nat /\ f.chains \in Seq(Chain) /\ Len(f.chains) \in Nat
  <2>1. f.secCount \in Nat /\ f.chains \in Seq(Chain)
    BY DEF File
  <2>2. QED
    BY <2>1, LenProperties
<1>7. skip \in Nat /\ off - skip * SectorBytes \in Nat
  BY DivFacts
<1>8. total \in Nat
  BY <1>6, SectorsBeforeNat
<1>9. o \in Objs /\ o # 0
  BY ListFacts DEF Objs
<1>. HIDE DEF skip, total
<1>10. ASSUME NEW c \in Nat, NEW s \in Nat, NEW n \in Nat, off - n * SectorBytes \in Nat
       PROVE  at(c, s, n) \in IOType
  <2>1. f.secCount - n \in Int /\ off + len \in Nat
    BY <1>6
  <2>2. QED
    BY <1>9, <1>10, <2>1 DEF IOType
<1>11. ASSUME NEW c \in DOMAIN f.chains, NEW s \in ChainSectors(f.chains[c]),
              off + len <= f.secCount * SectorBytes, io' = at(c, s, skip)
       PROVE  io' \in IOType /\ io'.file = o /\ WriteWithinOrAtEnd'
  <2>1. c \in Nat /\ s \in Nat
    <3>1. f.chains[c].start \in Nat /\ f.chains[c].end \in Nat
      BY <1>6, ChainEnds
    <3>2. DOMAIN f.chains = 1 .. Len(f.chains)
      BY <1>6, LenProperties
    <3>3. QED
      BY <3>1, <3>2, <1>6 DEF ChainSectors
  <2>2. io' \in IOType
    BY <2>1, <1>7, <1>10, <1>11
  <2>3. (off - skip * SectorBytes) + len <= (f.secCount - skip) * SectorBytes
    BY <1>6, <1>7, <1>11, SizeAssumption
  <2>4. /\ io'.file = o /\ io'.off = off - skip * SectorBytes
        /\ io'.len = len /\ io'.avail = f.secCount - skip
    BY <1>11
  <2>5. QED
    BY <2>2, <2>3, <2>4, <1>9 DEF WriteWithinOrAtEnd
<1>12. ASSUME skip >= total, io' = at(Len(f.chains) + 1, 0, total)
       PROVE  io' \in IOType /\ io'.file = o /\ WriteWithinOrAtEnd'
  <2>1. off - total * SectorBytes \in Nat
    <3>1. PICK d \in Nat : skip = total + d
      <4>1. skip - total \in Nat /\ skip = total + (skip - total)
        BY <1>7, <1>8, <1>12
      <4>2. QED
        BY <4>1
    <3>2. skip * SectorBytes = total * SectorBytes + d * SectorBytes
      BY <3>1, <1>8, SizeAssumption
    <3>3. d * SectorBytes \in Nat /\ total * SectorBytes \in Nat
      BY <1>8, SizeAssumption
    <3>4. QED
      BY <3>2, <3>3, <1>7
  <2>2. io' \in IOType
    BY <2>1, <1>6, <1>8, <1>10, <1>12, SMTT(40)
  <2>3. io'.file = o /\ io'.chain = Len(f.chains) + 1
    BY <1>12
  <2>4. obj'[o].chains = f.chains
    BY <1>2, <1>4
  <2>5. QED
    BY <2>2, <2>3, <2>4, <1>9 DEF WriteWithinOrAtEnd
<1>13. io' \in IOType /\ io'.file = o /\ WriteWithinOrAtEnd'
  BY <1>5, <1>11, <1>12
<1>14. fatDirty' \in BOOLEAN
  BY <1>2 DEF IInv, MemoryTypeOK
<1>15. io'.file \in {fd[k] : k \in Handles}
  BY <1>3, <1>13
<1>16. QED
  BY <1>2, <1>13, <1>14, <1>15, SameFilesInv

LEMMA WriteEndInv ==
  ASSUME IInv, WriteEnd
  PROVE  IInv' /\ NothingLost
<1>1. io.file # 0 /\ io.file \in Listed
  BY WritingListed DEF WriteEnd
<1>2. PICK o \in Listed : o = io.file
  BY <1>1
<1>3. PICK f \in File : f = obj[o]
  BY ListFacts
<1> DEFINE g == IF io.newLen > f.len
                THEN [f EXCEPT !.len = io.newLen, !.eof = io.newLen % SectorBytes]
                ELSE f
<1>4. /\ obj' = [obj EXCEPT ![o] = g]
      /\ io' = NoIO /\ fatDirty' = FALSE
      /\ fat' = fat /\ files' = files /\ fd' = fd
  BY <1>2, <1>3 DEF WriteEnd
<1>5. g \in File /\ g.dirSec = f.dirSec /\ g.chains = f.chains /\ g.ref = f.ref
  <2>1. PICK n \in Nat : n = io.newLen
    BY DEF IInv, MemoryTypeOK
  <2>2. PICK e \in Nat : e = n % SectorBytes
    BY <2>1, SizeAssumption
  <2>3. g = IF n > f.len THEN [f EXCEPT !.len = n, !.eof = e] ELSE f
    BY <2>1, <2>2
  <2>. HIDE DEF g
  <2>4. CASE n > f.len
    <3>1. g = [f EXCEPT !.len = n, !.eof = e]
      BY <2>3, <2>4
    <3>2. [f EXCEPT !.len = n] \in File
      BY DEF File
    <3>3. PICK k \in File : k = [f EXCEPT !.len = n]
      BY <3>2
    <3>4. g = [k EXCEPT !.eof = e]
      BY <3>1, <3>3
    <3>5. g \in File
      BY <3>4 DEF File
    <3>6. g.dirSec = f.dirSec /\ g.chains = f.chains /\ g.ref = f.ref
      BY <3>1 DEF File
    <3>7. QED
      BY <3>5, <3>6
  <2>5. CASE ~(n > f.len)
    BY <2>3, <2>5
  <2>6. QED
    BY <2>4, <2>5
<1>6. Listed' = Listed
  BY <1>4 DEF Listed
<1>7. files \in Seq(Objs) /\ NoRepeat(files)
  BY ListFacts
<1>. HIDE DEF g
<1>8. /\ obj' \in [Objs -> File \cup {NilFile}] /\ obj'[o] = g
      /\ \A p \in Objs \ {o} : obj'[p] = obj[p]
      /\ \A j \in DOMAIN files' : obj'[files'[j]] \in File
      /\ (OwnedSectors /\ Reserved /\ ChainsOrdered)' /\ NothingLost
  BY <1>3, <1>4, <1>5, <1>6, <1>7, UpdateInv
<1>9. io' \in IOType /\ io'.file = 0
  <2>1. io'.file = 0
    BY <1>4 DEF NoIO
  <2>2. QED
    BY <2>1, <1>4 DEF NoIO, IOType
<1>10. MemoryTypeOK'
  BY <1>4, <1>7, <1>8, <1>9 DEF IInv, MemoryTypeOK, IOType
<1>11. HandlesLive'
  <2>1. \A q \in Listed' : obj'[q].ref \in Int /\ obj[q].ref \in Int
                           /\ obj[q].ref <= obj'[q].ref
    <3>1. \A q \in Listed : obj[q].ref \in Int
      BY ListFacts DEF File
    <3>2. \A q \in Listed : obj'[q].ref = obj[q].ref
      BY <1>3, <1>5, <1>8, ListFacts
    <3>3. QED
      BY <3>1, <3>2, <1>6
  <2>2. \A h \in Handles : fd[h] # 0 => fd[h] \in Listed'
    BY <1>6 DEF IInv, HandlesLive
  <2>3. NoRepeat(files')
    BY <1>4, <1>7
  <2>4. QED
    BY <2>1, <2>2, <2>3, <1>4, <1>6, <1>9, SameHandles
<1>12. WriteWithinOrAtEnd'
  BY <1>4 DEF WriteWithinOrAtEnd, NoIO
<1>13. QED
  BY <1>8, <1>10, <1>11, <1>12 DEF IInv

(* The sectors of a list of chains, and that no chain of it is empty. *)
SectorsOf(chains) == UNION {ChainSectors(chains[i]) : i \in DOMAIN chains}
Ordered(chains) == \A i \in DOMAIN chains : chains[i].start <= chains[i].end

(* A chain that the next sector joins. *)
LEMMA JoinChain ==
  ASSUME NEW chains \in Seq(Chain), Ordered(chains),
         NEW k \in DOMAIN chains, NEW s \in Sectors, chains[k].end + 1 = s
  PROVE  LET new == [chains EXCEPT ![k].end = s]
         IN  /\ new \in Seq(Chain) /\ Len(new) = Len(chains) /\ Ordered(new)
             /\ SectorsOf(new) = SectorsOf(chains) \cup {s}
<1> DEFINE new == [chains EXCEPT ![k].end = s]
<1>1. /\ chains[k] \in Chain
      /\ chains[k].start \in Nat /\ chains[k].end \in Nat /\ s \in Nat
  BY ChainEnds, SizeAssumption DEF Sectors
<1>2. PICK c \in Chain : c = [chains[k] EXCEPT !.end = s]
                         /\ c.start = chains[k].start /\ c.end = s
  <2>1. PICK a \in Chain : a = chains[k]
    BY <1>1
  <2>2. [a EXCEPT !.end = s] \in Chain
    BY DEF Chain
  <2>3. [a EXCEPT !.end = s].start = a.start /\ [a EXCEPT !.end = s].end = s
    BY DEF Chain
  <2>4. QED
    BY <2>1, <2>2, <2>3
<1>3. new = [chains EXCEPT ![k] = c]
  BY <1>2
<1>4. /\ new \in Seq(Chain) /\ Len(new) = Len(chains) /\ DOMAIN new = DOMAIN chains
      /\ new[k] = c /\ \A i \in DOMAIN chains \ {k} : new[i] = chains[i]
  BY <1>3, ExceptSeq
<1>. HIDE DEF new
<1>5. Ordered(new)
  <2>1. c.start <= c.end
    BY <1>1, <1>2 DEF Ordered
  <2>2. QED
    BY <2>1, <1>4 DEF Ordered
<1>6. ChainSectors(c) = ChainSectors(chains[k]) \cup {s}
  <2>1. chains[k].start <= chains[k].end
    BY DEF Ordered
  <2>2. QED
    BY <2>1, <1>1, <1>2 DEF ChainSectors
<1>7. SectorsOf(new) = SectorsOf(chains) \cup {s}
  BY <1>4, <1>6 DEF SectorsOf
<1>8. QED
  BY <1>4, <1>5, <1>7 DEF new

(* A chain of one sector at the end. *)
LEMMA AppendChain ==
  ASSUME NEW chains \in Seq(Chain), Ordered(chains), NEW s \in Sectors
  PROVE  LET new == Append(chains, [start |-> s, end |-> s])
         IN  /\ new \in Seq(Chain) /\ Len(new) = Len(chains) + 1 /\ Ordered(new)
             /\ SectorsOf(new) = SectorsOf(chains) \cup {s}
<1> DEFINE c == [start |-> s, end |-> s]
           new == Append(chains, c)
<1>1. c \in Chain /\ s \in Int /\ ChainSectors(c) = {s} /\ c.start <= c.end
  <2>1. s \in Int
    BY SizeAssumption DEF Sectors
  <2>2. c \in Chain /\ c.start = s /\ c.end = s
    BY DEF Chain
  <2>. HIDE DEF c
  <2>3. QED
    BY <2>1, <2>2 DEF ChainSectors
<1>. HIDE DEF c
<1>2. Len(chains) \in Nat /\ DOMAIN chains = 1 .. Len(chains)
  BY LenProperties
<1>3. /\ new \in Seq(Chain) /\ Len(new) = Len(chains) + 1
      /\ \A i \in 1 .. Len(chains) : new[i] = chains[i]
      /\ new[Len(chains) + 1] = c
  BY <1>1, AppendProperties
<1>4. DOMAIN new = 1 .. Len(chains) + 1
  BY <1>3, LenProperties
<1>. HIDE DEF new
<1>5. \A i \in DOMAIN new : i = Len(chains) + 1 \/ i \in DOMAIN chains
  BY <1>2, <1>4
<1>6. Len(chains) + 1 \in DOMAIN new /\ DOMAIN chains \subseteq DOMAIN new
  BY <1>2, <1>4
<1>7. \A i \in DOMAIN chains : new[i] = chains[i]
  BY <1>2, <1>3
<1>8. Ordered(new)
  BY <1>1, <1>3, <1>5, <1>7 DEF Ordered
<1>9. SectorsOf(new) = SectorsOf(chains) \cup {s}
  BY <1>1, <1>3, <1>5, <1>6, <1>7 DEF SectorsOf
<1>10. QED
  BY <1>3, <1>8, <1>9 DEF new, c

(* A file with other chains and one more sector. *)
LEMMA GrownFile ==
  ASSUME NEW f \in File, NEW new \in Seq(Chain)
  PROVE  \E g \in File : /\ g = [f EXCEPT !.chains = new, !.secCount = @ + 1]
                         /\ g.dirSec = f.dirSec /\ g.chains = new /\ g.ref = f.ref
<1> DEFINE g == [f EXCEPT !.chains = new, !.secCount = @ + 1]
<1>1. PICK n \in Nat : n = f.secCount + 1
  BY DEF File
<1>2. g = [f EXCEPT !.chains = new, !.secCount = n]
  BY <1>1
<1>. HIDE DEF g
<1>3. g \in File
  BY <1>2 DEF File
<1>4. g.dirSec = f.dirSec /\ g.chains = new /\ g.ref = f.ref
  BY <1>2 DEF File
<1>5. QED
  BY <1>3, <1>4 DEF g

(* The state after an iteration that allocated sector s. *)
LEMMA ExtendFile ==
  ASSUME IInv, NEW o \in Listed, NEW s \in Sectors, s \notin fat,
         NEW g \in File, Ordered(g.chains),
         SectorsOf(g.chains) = SectorsOf(obj[o].chains) \cup {s},
         g.dirSec = obj[o].dirSec, g.ref = obj[o].ref,
         obj' = [obj EXCEPT ![o] = g],
         fat' = fat \cup {s}, fatDirty' = TRUE, files' = files, fd' = fd,
         io' \in IOType, io'.file = o, o \in {fd[h] : h \in Handles},
         io'.len # 0 => io'.chain = Len(g.chains) + 1
  PROVE  IInv' /\ NothingLost
<1>4. /\ files \in Seq(Objs) /\ NoRepeat(files)
      /\ Listed \subseteq Objs /\ \A p \in Listed : obj[p] \in File
  BY ListFacts
<1>5. /\ obj' \in [Objs -> File \cup {NilFile}] /\ obj'[o] = g
      /\ \A p \in Objs \ {o} : obj'[p] = obj[p]
  BY <1>4, ObjectTyped DEF IInv
<1>6. Listed' = Listed
  BY DEF Listed
<1>7. \A p \in Listed \ {o} : obj'[p] = obj[p]
  BY <1>4, <1>5
<1>8. (OwnedSectors /\ Reserved)' /\ NothingLost
  <2>1. DataSectors(obj'[o]) = DataSectors(obj[o]) \cup {s}
    <3>1. \A x : DataSectors(x) = SectorsOf(x.chains)
      BY DEF DataSectors, SectorsOf
    <3>2. obj'[o] = g
      BY <1>5
    <3>3. DataSectors(g) = SectorsOf(obj[o].chains) \cup {s}
      BY <3>1
    <3>4. QED
      BY <3>1, <3>2, <3>3
  <2>2. obj'[o].dirSec = obj[o].dirSec
    BY <1>5
  <2>3. QED
    BY <2>1, <2>2, <1>6, <1>7, ExtendedSectors DEF IInv
<1>9. ChainsOrdered'
  BY <1>5, <1>6, <1>7 DEF IInv, ChainsOrdered, Ordered
<1>10. MemoryTypeOK'
  <2>1. \A i \in DOMAIN files' : obj'[files'[i]] \in File
    BY <1>4, <1>5, <1>6, <1>7, FilesTyped
  <2>2. fat' \in SUBSET Sectors
    BY DEF IInv, MemoryTypeOK
  <2>3. QED
    BY <2>1, <2>2, <1>4, <1>5 DEF IInv, MemoryTypeOK, IOType
<1>11. HandlesLive'
  <2>1. \A q \in Listed' : obj'[q].ref \in Int /\ obj[q].ref \in Int
                           /\ obj[q].ref <= obj'[q].ref
    <3>1. \A q \in Listed : obj[q].ref \in Int
      BY <1>4 DEF File
    <3>2. obj'[o].ref = obj[o].ref
      BY <1>5
    <3>3. QED
      BY <3>1, <3>2, <1>6, <1>7
  <2>2. \A h \in Handles : fd[h] # 0 => fd[h] \in Listed'
    BY <1>6 DEF IInv, HandlesLive
  <2>3. NoRepeat(files')
    BY <1>4
  <2>4. QED
    BY <2>1, <2>2, <2>3, <1>6, SameHandles
<1>12. WriteWithinOrAtEnd'
  <2>1. o # 0
    BY <1>4 DEF Objs
  <2>2. QED
    BY <2>1, <1>5 DEF WriteWithinOrAtEnd
<1>13. QED
  BY <1>8, <1>9, <1>10, <1>11, <1>12 DEF IInv

LEMMA AdvancedIO ==
  ASSUME NEW g \in IOType, NEW l \in Nat, NEW t \in Nat
  PROVE  LET rest == [g EXCEPT !.off = 0, !.len = l, !.sector = t]
         IN  rest \in IOType /\ rest.file = g.file /\ rest.chain = g.chain
  BY DEF IOType

LEMMA WriteExtendInv ==
  ASSUME IInv, WriteExtend
  PROVE  IInv' /\ NothingLost
<1>1. /\ io.file # 0 /\ io.file \in Listed /\ io.len # 0 /\ io.avail = 0
      /\ fatDirty' = TRUE /\ files' = files /\ fd' = fd
  BY WritingListed DEF WriteExtend
<1>2. PICK o \in Listed : o = io.file
  BY <1>1
<1>3. PICK f \in File : f = obj[o]
  BY ListFacts
<1>4. PICK chains \in Seq(Chain) : chains = f.chains
  BY DEF File
<1>5. PICK c \in Nat : c = io.chain
  BY DEF IInv, MemoryTypeOK
<1> DEFINE rest(s) == [io EXCEPT !.off = 0, !.len = @ - StepBytes, !.sector = s + 1]
<1>6. PICK s \in Sectors :
        /\ s \notin fat /\ fat' = fat \cup {s}
        /\ \/ /\ c > 1 /\ chains[c - 1].end + 1 = s
              /\ obj' = [obj EXCEPT ![o].chains[c - 1].end = s, ![o].secCount = @ + 1]
              /\ io' = rest(s)
           \/ /\ io' = [rest(s) EXCEPT !.chain = @ + 1]
              /\ c = Len(chains) + 1
              /\ obj' = [obj EXCEPT ![o].chains = Append(chains, [start |-> s, end |-> s]),
                                    ![o].secCount = @ + 1]
           \/ c <= Len(chains)
  BY <1>2, <1>3, <1>4, <1>5, ZenonT(60) DEF WriteExtend, FindFree, Joins
<1>7. io \in IOType /\ io.len - StepBytes \in Nat /\ s \in Nat
  BY StepFacts, SizeAssumption DEF Sectors
<1>8. Len(chains) \in Nat /\ DOMAIN chains = 1 .. Len(chains)
  BY LenProperties
<1>9. c = Len(chains) + 1
  <2>1. io.off \in Nat /\ io.len \in Nat /\ io.avail * SectorBytes = 0
    BY <1>1, <1>7, SizeAssumption DEF IOType
  <2>2. ~(io.off + io.len <= io.avail * SectorBytes)
    BY <2>1, <1>1
  <2>3. QED
    BY <2>2, <1>1, <1>2, <1>3, <1>4, <1>5 DEF IInv, WriteWithinOrAtEnd
<1>10. o \in {fd[h] : h \in Handles}
  BY <1>1, <1>2 DEF IInv, HandlesLive
<1>11. Ordered(chains)
  BY <1>3, <1>4 DEF IInv, ChainsOrdered, Ordered
<1>12. /\ rest(s) \in IOType /\ rest(s).file = o /\ rest(s).chain = c
  <2>1. PICK g \in IOType : g = io
    BY <1>7
  <2>2. PICK l \in Nat, t \in Nat : l = io.len - StepBytes /\ t = s + 1
    BY <1>7
  <2>3. rest(s) = [g EXCEPT !.off = 0, !.len = l, !.sector = t]
    BY <2>1, <2>2
  <2>4. g.file = o /\ g.chain = c
    BY <2>1, <1>2, <1>5
  <2>5. /\ [g EXCEPT !.off = 0, !.len = l, !.sector = t] \in IOType
        /\ [g EXCEPT !.off = 0, !.len = l, !.sector = t].file = g.file
        /\ [g EXCEPT !.off = 0, !.len = l, !.sector = t].chain = g.chain
    BY AdvancedIO, ZenonT(60)
  <2>. HIDE DEF rest
  <2>6. QED
    BY <2>3, <2>4, <2>5
<1>. HIDE DEF rest
<1>13. ASSUME c > 1, chains[c - 1].end + 1 = s,
              obj' = [obj EXCEPT ![o].chains[c - 1].end = s, ![o].secCount = @ + 1],
              io' = rest(s)
       PROVE  IInv' /\ NothingLost
  <2>1. PICK k \in DOMAIN chains : k = c - 1
    BY <1>8, <1>9, <1>13
  <2>2. PICK new \in Seq(Chain) :
          /\ new = [chains EXCEPT ![k].end = s]
          /\ Len(new) = Len(chains) /\ Ordered(new)
          /\ SectorsOf(new) = SectorsOf(chains) \cup {s}
    BY <2>1, <1>11, <1>13, JoinChain, ZenonT(60)
  <2>3. PICK g \in File : /\ g = [f EXCEPT !.chains = new, !.secCount = @ + 1]
                          /\ g.dirSec = f.dirSec /\ g.chains = new /\ g.ref = f.ref
    BY GrownFile
  <2>4. obj' = [obj EXCEPT ![o] = g]
    BY <1>3, <1>4, <1>13, <2>1, <2>2, <2>3, ZenonT(60)
  <2>5. io' \in IOType /\ io'.file = o /\ io'.chain = Len(new) + 1
    BY <1>9, <1>12, <1>13, <2>2
  <2>6. /\ Ordered(g.chains) /\ SectorsOf(g.chains) = SectorsOf(obj[o].chains) \cup {s}
        /\ g.dirSec = obj[o].dirSec /\ g.ref = obj[o].ref
        /\ io'.chain = Len(g.chains) + 1
    BY <1>3, <1>4, <2>2, <2>3, <2>5
  <2>7. s \notin fat /\ fat' = fat \cup {s} /\ fatDirty' = TRUE /\ files' = files /\ fd' = fd
    BY <1>1, <1>6
  <2>8. QED
    BY <1>10, <2>4, <2>5, <2>6, <2>7, ExtendFile
<1>14. ASSUME io' = [rest(s) EXCEPT !.chain = @ + 1],
              obj' = [obj EXCEPT ![o].chains = Append(chains, [start |-> s, end |-> s]),
                                 ![o].secCount = @ + 1]
       PROVE  IInv' /\ NothingLost
  <2>1. PICK new \in Seq(Chain) :
          /\ new = Append(chains, [start |-> s, end |-> s])
          /\ Len(new) = Len(chains) + 1 /\ Ordered(new)
          /\ SectorsOf(new) = SectorsOf(chains) \cup {s}
    BY <1>11, AppendChain
  <2>2. PICK g \in File : /\ g = [f EXCEPT !.chains = new, !.secCount = @ + 1]
                          /\ g.dirSec = f.dirSec /\ g.chains = new /\ g.ref = f.ref
    BY GrownFile
  <2>3. obj' = [obj EXCEPT ![o] = g]
    BY <1>3, <1>14, <2>1, <2>2
  <2>4. io' \in IOType /\ io'.file = o /\ io'.chain = Len(new) + 1
    <3>1. PICK g_1 \in IOType : g_1 = rest(s)
      BY <1>12
    <3>2. PICK d \in Nat : d = c + 1
      OBVIOUS
    <3>3. io' = [g_1 EXCEPT !.chain = d]
      BY <1>12, <1>14, <3>1, <3>2
    <3>4. io' \in IOType /\ io'.file = g_1.file /\ io'.chain = d
      BY <3>3 DEF IOType
    <3>5. QED
      BY <3>1, <3>2, <3>4, <1>9, <1>12, <2>1
  <2>5. /\ Ordered(g.chains) /\ SectorsOf(g.chains) = SectorsOf(obj[o].chains) \cup {s}
        /\ g.dirSec = obj[o].dirSec /\ g.ref = obj[o].ref
        /\ io'.chain = Len(g.chains) + 1
    BY <1>3, <1>4, <2>1, <2>2, <2>4
  <2>6. s \notin fat /\ fat' = fat \cup {s} /\ fatDirty' = TRUE /\ files' = files /\ fd' = fd
    BY <1>1, <1>6
  <2>7. QED
    BY <1>10, <2>3, <2>4, <2>5, <2>6, ExtendFile
<1>15. ~(c <= Len(chains))
  BY <1>8, <1>9
<1>16. QED
  BY <1>6, <1>13, <1>14, <1>15

(* Nothing in memory changes. *)
LEMMA SameMemoryInv ==
  ASSUME IInv, UNCHANGED memory
  PROVE  IInv' /\ NothingLost
<1>1. /\ io' = io /\ fatDirty' = fatDirty /\ fat' = fat /\ files' = files
      /\ obj' = obj /\ fd' = fd
  BY DEF memory
<1>2. io' \in IOType /\ fatDirty' \in BOOLEAN
  BY <1>1 DEF IInv, MemoryTypeOK, IOType
<1>3. io'.file # 0 => io'.file \in {fd[h] : h \in Handles}
  BY <1>1 DEF IInv, HandlesLive
<1>4. WriteWithinOrAtEnd'
  BY <1>1 DEF IInv, WriteWithinOrAtEnd
<1>5. QED
  BY <1>1, <1>2, <1>3, <1>4, SameFilesInv

(* Every step preserves the invariant. *)
LEMMA NextInv ==
  ASSUME MidSectorAppend = FALSE, IInv, [Next]_vars
  PROVE  IInv' /\ NothingLost
<1>1. CASE Handler
  BY <1>1, CreateInv, OpenInv, ReleaseInv, UnlinkInv, RenameInv, SetXattrInv, WriteStartInv
     DEF Handler
<1>2. CASE WriteLoop
  BY <1>2, WriteExistingInv, WriteExtendInv, WriteFullInv, WriteEndInv DEF WriteLoop
<1>3. CASE DiskWrite
  BY <1>3, SameMemoryInv DEF DiskWrite
<1>4. CASE UNCHANGED vars
  BY <1>4, SameMemoryInv DEF vars
<1>5. QED
  BY <1>1, <1>2, <1>3, <1>4 DEF Next

-----------------------------------------------------------------------------
(* The theorems                                                            *)

LEMMA SpecInv == ASSUME MidSectorAppend = FALSE PROVE Spec => []IInv
<1>1. Init => IInv
  BY InitInv
<1>2. IInv /\ [Next]_vars => IInv'
  BY NextInv
<1>3. QED
  BY <1>1, <1>2, PTL DEF Spec

(* Memory keeps its types. *)
THEOREM MemoryTypes == ASSUME MidSectorAppend = FALSE PROVE Spec => []MemoryTypeOK
<1>1. IInv => MemoryTypeOK
  BY DEF IInv
<1>2. QED
  BY <1>1, SpecInv, PTL

(* No open handle, and no write in progress, is ever left with a deleted   *)
(* file: tidsk_release and fileUnlink free a DiskFile only when no handle  *)
(* refers to it.                                                           *)
THEOREM NoDanglingHandle == ASSUME MidSectorAppend = FALSE PROVE Spec => []HandlesLive
<1>1. IInv => HandlesLive
  BY DEF IInv
<1>2. QED
  BY <1>1, SpecInv, PTL

(* No sector ever has two owners, and none in use is marked free.          *)
THEOREM SectorsAreOwned == ASSUME MidSectorAppend = FALSE PROVE Spec => []OwnedSectors
<1>1. IInv => OwnedSectors
  BY DEF IInv
<1>2. QED
  BY <1>1, SpecInv, PTL

(* No sector is ever marked in use without a file that has it.             *)
THEOREM NothingLeaks == ASSUME MidSectorAppend = FALSE PROVE Spec => []NoLeak
<1>1. Init => NoLeak
  BY DEF Init, NoLeak, Listed
<1>2. IInv /\ NoLeak /\ [Next]_vars => NoLeak'
  <2> SUFFICES ASSUME IInv, NoLeak, [Next]_vars PROVE NoLeak'
    OBVIOUS
  <2>1. Reserved' /\ OwnedSectors' /\ NothingLost
    BY NextInv DEF IInv
  <2>2. Lost = {}
    BY DEF Lost, NoLeak
  <2>3. Lost' = {}
    BY <2>1, <2>2 DEF NothingLost
  <2>4. fat' \subseteq {0, 1} \cup UNION {FileSectors(obj'[o]) : o \in Listed'}
    BY <2>3 DEF Lost
  <2>5. {0, 1} \cup UNION {FileSectors(obj'[o]) : o \in Listed'} \subseteq fat'
    BY <2>1 DEF Reserved, OwnedSectors
  <2>6. QED
    BY <2>4, <2>5 DEF NoLeak
<1>3. QED
  BY <1>1, <1>2, SpecInv, PTL DEF Spec
=============================================================================
