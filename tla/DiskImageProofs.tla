-------------------------- MODULE DiskImageProofs --------------------------
(***************************************************************************)
(* For a volume of any size, with the hypothesis of DiskVolumeProofs: the  *)
(* directory stays sorted, the chains of a file and its header agree, a    *)
(* write fills the sectors of its file in their order, what the image file *)
(* shows of the files at any moment, also between the writes of a handler, *)
(* and what the next mount makes of it, in any number of sessions.         *)
(***************************************************************************)
EXTENDS DiskVolumeProofs, FoldLemmas

-----------------------------------------------------------------------------
(* The directory is sorted                                                 *)

(* The files of the list fs are in the order of their TI names. *)
Sorted(fs, o) == \A i, j \in DOMAIN fs : i < j => o[fs[i]].ti <= o[fs[j]].ti

LEMMA TINumbers == TINames \subseteq Nat
  BY NameAssumption DEF TINames

(* addFileToList puts a file after those with a name not larger. *)
LEMMA InsertSorted ==
  ASSUME NEW S, NEW fs \in Seq(S), NEW e \in S, NEW t \in Nat, NEW o, NEW q,
         NEW p \in InsertPlaces(fs, o, t), Sorted(fs, o),
         \A i \in DOMAIN fs : q[fs[i]].ti = o[fs[i]].ti /\ o[fs[i]].ti \in Nat,
         q[e].ti = t
  PROVE  Sorted(InsertAt(fs, p, e), q)
<1>1. /\ Len(fs) \in Nat /\ DOMAIN fs = 1 .. Len(fs)
      /\ p \in 1 .. Len(fs) + 1
      /\ \A i \in 1 .. p - 1 : o[fs[i]].ti <= t
      /\ p <= Len(fs) => t < o[fs[p]].ti
  BY LenProperties DEF InsertPlaces
<1>2. \A i \in DOMAIN fs : p <= i => t <= o[fs[i]].ti
  <2> SUFFICES ASSUME NEW i \in DOMAIN fs, p <= i PROVE t <= o[fs[i]].ti
    OBVIOUS
  <2>1. p \in DOMAIN fs /\ t <= o[fs[p]].ti
    BY <1>1
  <2>2. o[fs[p]].ti <= o[fs[i]].ti
    BY <2>1, <1>1 DEF Sorted
  <2>3. QED
    BY <2>1, <2>2
<1> DEFINE r == InsertAt(fs, p, e)
<1>3. DOMAIN r = 1 .. Len(fs) + 1
  BY <1>1, InsertAtFacts
<1>4. \A j \in 1 .. Len(fs) + 1 :
        r[j] = IF j < p THEN fs[j] ELSE IF j = p THEN e ELSE fs[j - 1]
  BY <1>1, InsertAtFacts, SMTT(40)
<1>. HIDE DEF r
<1>5. ASSUME NEW i \in DOMAIN r, NEW j \in DOMAIN r, i < j
      PROVE  q[r[i]].ti <= q[r[j]].ti
  <2>0. i \in 1 .. Len(fs) + 1 /\ j \in 1 .. Len(fs) + 1
    BY <1>3
  <2>1. CASE j < p
    <3>1. i \in DOMAIN fs /\ j \in DOMAIN fs /\ r[i] = fs[i] /\ r[j] = fs[j]
      BY <2>0, <2>1, <1>1, <1>4, <1>5
    <3>2. QED
      BY <3>1, <1>5 DEF Sorted
  <2>2. CASE j = p
    <3>1. i \in DOMAIN fs /\ i \in 1 .. p - 1 /\ r[i] = fs[i] /\ r[j] = e
      BY <2>0, <2>2, <1>1, <1>4, <1>5
    <3>2. QED
      BY <3>1, <1>1
  <2>3. CASE p < j /\ i = p
    <3>1. j - 1 \in DOMAIN fs /\ p <= j - 1 /\ r[i] = e /\ r[j] = fs[j - 1]
      BY <2>0, <2>3, <1>1, <1>4
    <3>2. QED
      BY <3>1, <1>2
  <2>4. CASE p < j /\ i < p
    <3>1. /\ i \in DOMAIN fs /\ j - 1 \in DOMAIN fs /\ i < j - 1
          /\ r[i] = fs[i] /\ r[j] = fs[j - 1]
      BY <2>0, <2>4, <1>1, <1>4
    <3>2. QED
      BY <3>1 DEF Sorted
  <2>5. CASE p < i
    <3>1. i - 1 \in DOMAIN fs /\ j - 1 \in DOMAIN fs /\ i - 1 < j - 1 /\ p < j
      BY <2>0, <2>5, <1>1, <1>5
    <3>2. r[i] = fs[i - 1]
      BY <2>0, <2>5, <1>1, <1>4
    <3>3. r[j] = fs[j - 1]
      BY <2>0, <3>1, <1>1, <1>4
    <3>4. QED
      BY <3>1, <3>2, <3>3 DEF Sorted
  <2>6. QED
    BY <2>0, <1>1, <2>1, <2>2, <2>3, <2>4, <2>5
<1>6. QED
  BY <1>5 DEF Sorted, r

(* Removing a file leaves the others in order. *)
LEMMA RemoveSorted ==
  ASSUME NEW S, NEW fs \in Seq(S), NEW k \in DOMAIN fs, NEW o, NEW q, Sorted(fs, o),
         \A i \in DOMAIN fs : i # k => q[fs[i]].ti = o[fs[i]].ti
  PROVE  Sorted(RemoveAt(fs, k), q)
<1>1. Len(fs) \in Nat /\ DOMAIN fs = 1 .. Len(fs)
  BY LenProperties
<1> DEFINE r == RemoveAt(fs, k)
<1>2. DOMAIN r = 1 .. Len(fs) - 1
  BY RemoveAtFacts
<1>3. \A j \in 1 .. Len(fs) - 1 : r[j] = IF j < k THEN fs[j] ELSE fs[j + 1]
  BY RemoveAtFacts
<1>. HIDE DEF r
<1> DEFINE from(j) == IF j < k THEN j ELSE j + 1
<1>4. \A j \in DOMAIN r : from(j) \in DOMAIN fs /\ from(j) # k /\ r[j] = fs[from(j)]
  BY <1>1, <1>2, <1>3
<1>5. \A i, j \in DOMAIN r : i < j => from(i) < from(j)
  BY <1>1, <1>2
<1>. HIDE DEF from
<1>6. QED
  BY <1>4, <1>5 DEF Sorted, r

(* What a step may do to the list and keep it sorted, other than insert. *)
LEMMA SameSorted ==
  ASSUME NEW fs, NEW o, NEW q, Sorted(fs, o),
         \A i \in DOMAIN fs : q[fs[i]].ti = o[fs[i]].ti
  PROVE  Sorted(fs, q)
  BY DEF Sorted

-----------------------------------------------------------------------------
(* Steps that leave what the headers say of the files                      *)

(* The fields of a header that only create, rename and write change. *)
SameHeader(f, g) ==
  g.ti = f.ti /\ g.dirSec = f.dirSec /\ g.chains = f.chains /\ g.secCount = f.secCount

Steady ==
  /\ files' = files \/ \E i \in DOMAIN files : files' = RemoveAt(files, i)
  /\ Listed' \subseteq Listed
  /\ \A p \in Listed' : SameHeader(obj[p], obj'[p])

(* One file is given other values of its other fields. *)
LEMMA SteadyUpdate ==
  ASSUME IInv, NEW o \in Listed, NEW g, SameHeader(obj[o], g),
         obj' = [obj EXCEPT ![o] = g], files' = files
  PROVE  Steady
<1>1. Listed \subseteq Objs /\ Listed' = Listed
  BY ListFacts DEF Listed
<1>2. \A p \in Listed : obj'[p] = IF p = o THEN g ELSE obj[p]
  BY <1>1 DEF IInv, MemoryTypeOK
<1>3. QED
  BY <1>1, <1>2 DEF Steady, SameHeader

LEMMA SteadyDelete ==
  ASSUME IInv, NEW i \in DOMAIN files, DeleteAt(i)
  PROVE  Steady
<1>1. Listed' = Listed \ {files[i]} /\ \A p \in Listed' : obj'[p] = obj[p]
  BY DeleteInv
<1>2. files' = RemoveAt(files, i)
  BY DEF DeleteAt
<1>3. QED
  BY <1>1, <1>2 DEF Steady, SameHeader

LEMMA SteadySame ==
  ASSUME files' = files, obj' = obj
  PROVE  Steady
  BY DEF Steady, SameHeader, Listed

LEMMA SteadySteps ==
  ASSUME IInv,
         \/ \E n \in Names, h \in Handles : Open(n, h)
         \/ \E h \in Handles : Release(h)
         \/ \E n \in Names : Unlink(n)
         \/ \E n \in Names, a \in Attrs : SetXattr(n, a)
         \/ \E h \in Handles, r \in Requests : WriteStart(h, r[1], r[2])
         \/ WriteExisting \/ WriteFull \/ WriteEnd \/ DiskWrite \/ UNCHANGED vars
  PROVE  Steady
<1>0. \A o \in Listed : obj[o] \in File
  BY ListFacts
<1>1. ASSUME NEW n \in Names, NEW h \in Handles, Open(n, h) PROVE Steady
  <2>1. PICK o \in Listed : obj' = [obj EXCEPT ![o] = [obj[o] EXCEPT !.ref = @ + 1]]
    BY <1>1 DEF Open, Listed
  <2>2. SameHeader(obj[o], [obj[o] EXCEPT !.ref = @ + 1])
    BY <1>0 DEF SameHeader, File
  <2>3. QED
    BY <1>1, <2>1, <2>2, SteadyUpdate DEF Open
<1>2. ASSUME NEW h \in Handles, Release(h) PROVE Steady
  <2>1. CASE \E i \in DOMAIN files : DeleteAt(i)
    BY <2>1, SteadyDelete
  <2>2. CASE /\ obj' = [obj EXCEPT ![fd[h]].ref = @ - 1]
             /\ files' = files
    <3>1. PICK o \in Listed : o = fd[h]
      BY <1>2 DEF Release, IInv, HandlesLive
    <3>2. obj' = [obj EXCEPT ![o] = [obj[o] EXCEPT !.ref = @ - 1]]
      BY <2>2, <3>1
    <3>3. SameHeader(obj[o], [obj[o] EXCEPT !.ref = @ - 1])
      BY <1>0 DEF SameHeader, File
    <3>4. QED
      BY <2>2, <3>2, <3>3, SteadyUpdate
  <2>3. QED
    BY <1>2, <2>1, <2>2 DEF Release
<1>3. ASSUME NEW n \in Names, Unlink(n) PROVE Steady
  <2>1. PICK i \in DOMAIN files :
          \/ DeleteAt(i)
          \/ obj' = [obj EXCEPT ![files[i]].unlinked = TRUE] /\ files' = files
    BY <1>3 DEF Unlink
  <2>2. CASE DeleteAt(i)
    BY <2>2, SteadyDelete
  <2>3. CASE obj' = [obj EXCEPT ![files[i]].unlinked = TRUE] /\ files' = files
    <3>1. PICK o \in Listed : o = files[i]
      BY DEF Listed
    <3>2. obj' = [obj EXCEPT ![o] = [obj[o] EXCEPT !.unlinked = TRUE]]
      BY <2>3, <3>1
    <3>3. SameHeader(obj[o], [obj[o] EXCEPT !.unlinked = TRUE])
      BY <1>0 DEF SameHeader, File
    <3>4. QED
      BY <2>3, <3>2, <3>3, SteadyUpdate
  <2>4. QED
    BY <2>1, <2>2, <2>3
<1>4. ASSUME NEW n \in Names, NEW a \in Attrs, SetXattr(n, a) PROVE Steady
  <2>1. PICK o \in Listed : obj' = [obj EXCEPT ![o] = [obj[o] EXCEPT !.attr = a]]
    BY <1>4 DEF SetXattr, Listed
  <2>2. SameHeader(obj[o], [obj[o] EXCEPT !.attr = a])
    BY <1>0 DEF SameHeader, File
  <2>3. QED
    BY <1>4, <2>1, <2>2, SteadyUpdate DEF SetXattr
<1>5. ASSUME WriteEnd PROVE Steady
  <2>1. PICK o \in Listed : o = io.file
    BY <1>5, WritingListed DEF WriteEnd
  <2>2. PICK g : /\ obj' = [obj EXCEPT ![o] = g]
                 /\ \/ g = [obj[o] EXCEPT !.len = io.newLen, !.eof = io.newLen % SectorBytes]
                    \/ g = obj[o]
    BY <1>5, <2>1 DEF WriteEnd
  <2>3. SameHeader(obj[o], g)
    BY <1>0, <2>2 DEF SameHeader, File
  <2>4. QED
    BY <1>5, <2>2, <2>3, SteadyUpdate DEF WriteEnd
<1>6. ASSUME NEW h \in Handles, NEW r \in Requests, WriteStart(h, r[1], r[2]) PROVE Steady
  BY <1>6, SteadySame DEF WriteStart
<1>7. CASE WriteExisting \/ WriteFull \/ DiskWrite \/ UNCHANGED vars
  BY <1>7, SteadySame DEF WriteExisting, WriteFull, DiskWrite, vars, memory
<1>8. QED
  BY <1>1, <1>2, <1>3, <1>4, <1>5, <1>6, <1>7

LEMMA SteadySorted ==
  ASSUME IInv, DirectorySorted, Steady
  PROVE  DirectorySorted'
<1>1. files \in Seq(Objs) /\ Listed = Elems(files) /\ Listed' = Elems(files')
  BY ListFacts
<1>2. Sorted(files, obj)
  BY DEF DirectorySorted, Sorted
<1>3. CASE files' = files
  BY <1>2, <1>3, SameSorted DEF Steady, SameHeader, DirectorySorted, Sorted, Listed
<1>4. ASSUME NEW k \in DOMAIN files, files' = RemoveAt(files, k)
      PROVE  DirectorySorted'
  <2>1. \A i \in DOMAIN files : i # k => files[i] \in Listed'
    <3>1. NoRepeat(files)
      BY ListFacts
    <3>2. Elems(files') = Elems(files) \ {files[k]}
      BY <1>1, <1>4, <3>1, RemoveFromList
    <3>3. QED
      BY <1>1, <3>1, <3>2 DEF Elems, NoRepeat
  <2>2. \A i \in DOMAIN files : i # k => obj'[files[i]].ti = obj[files[i]].ti
    BY <2>1 DEF Steady, SameHeader
  <2>3. PICK q : q = obj'
    OBVIOUS
  <2>4. \A i \in DOMAIN files : i # k => q[files[i]].ti = obj[files[i]].ti
    BY <2>2, <2>3
  <2>5. Sorted(RemoveAt(files, k), q)
    BY <1>1, <1>2, <2>4, RemoveSorted
  <2>6. QED
    BY <1>4, <2>3, <2>5 DEF DirectorySorted, Sorted
<1>5. QED
  BY <1>3, <1>4 DEF Steady

LEMMA CreateSorted ==
  ASSUME IInv, DirectorySorted, NEW n \in Names, NEW h \in Handles, Create(n, h)
  PROVE  DirectorySorted'
<1> DEFINE f(d) == [os |-> n, ti |-> TIName[n], attr |-> 0, dirSec |-> d,
                    chains |-> <<>>, secCount |-> 0, eof |-> 0, len |-> 0,
                    ref |-> 1, unlinked |-> FALSE]
<1>1. PICK o \in Objs, d \in Sectors :
        /\ NewObject(o) /\ obj' = [obj EXCEPT ![o] = f(d)]
        /\ \E p \in InsertPlaces(files, obj, TIName[n]) : files' = InsertAt(files, p, o)
  BY DEF Create
<1>2. f(d).ti = TIName[n]
  OBVIOUS
<1>. HIDE DEF f
<1>3. PICK p \in InsertPlaces(files, obj, TIName[n]) : files' = InsertAt(files, p, o)
  BY <1>1
<1>4. /\ files \in Seq(Objs) /\ Listed \subseteq Objs
      /\ \A q \in Listed : obj[q] \in File /\ obj[q].ti \in Nat
  BY ListFacts, TINumbers DEF File
<1>5. obj'[o].ti = TIName[n] /\ TIName[n] \in Nat
  BY <1>1, <1>2, NameAssumption DEF IInv, MemoryTypeOK
<1>6. \A i \in DOMAIN files : obj'[files[i]].ti = obj[files[i]].ti /\ obj[files[i]].ti \in Nat
  BY <1>1, <1>4 DEF NewObject, Listed, IInv, MemoryTypeOK
<1>7. Sorted(files, obj)
  BY DEF Sorted, DirectorySorted
<1>8. Sorted(files', obj')
  BY <1>3, <1>4, <1>5, <1>6, <1>7, InsertSorted
<1>9. QED
  BY <1>8 DEF Sorted, DirectorySorted

LEMMA RenameSorted ==
  ASSUME IInv, DirectorySorted, NEW n \in Names, NEW m \in Names, Rename(n, m)
  PROVE  DirectorySorted'
<1> DEFINE f(o) == [obj[o] EXCEPT !.os = m, !.ti = TIName[m], !.ref = @ + 1]
<1>1. PICK i \in DOMAIN files :
        /\ obj' = [obj EXCEPT ![files[i]] = f(files[i])]
        /\ \E p \in InsertPlaces(RemoveAt(files, i), obj, f(files[i]).ti) :
             files' = InsertAt(RemoveAt(files, i), p, files[i])
  BY DEF Rename
<1>2. PICK o \in Listed : o = files[i]
  BY DEF Listed
<1>3. /\ files \in Seq(Objs) /\ NoRepeat(files) /\ Listed \subseteq Objs
      /\ Listed = Elems(files)
      /\ \A q \in Listed : obj[q] \in File /\ obj[q].ti \in Nat
  BY ListFacts, TINumbers DEF File
<1>4. f(o).ti = TIName[m]
  <2>1. PICK g \in File : g = obj[o]
    BY <1>3
  <2>2. [g EXCEPT !.os = m, !.ti = TIName[m], !.ref = @ + 1].ti = TIName[m]
    BY DEF File
  <2>3. QED
    BY <2>1, <2>2
<1>5. obj' = [obj EXCEPT ![o] = f(o)]
  BY <1>1, <1>2
<1>. HIDE DEF f
<1> DEFINE rest == RemoveAt(files, i)
<1>6. rest \in Seq(Objs) /\ Elems(rest) = Listed \ {o}
  BY <1>2, <1>3, RemoveFromList
<1>7. PICK p \in InsertPlaces(rest, obj, TIName[m]) : files' = InsertAt(rest, p, o)
  BY <1>1, <1>2, <1>4
<1>8. Sorted(rest, obj)
  BY <1>3, RemoveSorted DEF DirectorySorted, Sorted
<1>. HIDE DEF rest
<1>9. obj'[o].ti = TIName[m] /\ TIName[m] \in Nat
  BY <1>3, <1>4, <1>5, NameAssumption DEF IInv, MemoryTypeOK
<1>10. \A k \in DOMAIN rest : obj'[rest[k]].ti = obj[rest[k]].ti /\ obj[rest[k]].ti \in Nat
  <2>1. \A k \in DOMAIN rest : rest[k] \in Listed \ {o}
    BY <1>6 DEF Elems
  <2>2. QED
    BY <2>1, <1>3, <1>5 DEF IInv, MemoryTypeOK
<1>11. o \in Objs
  BY <1>3
<1>12. Sorted(files', obj')
  BY <1>6, <1>7, <1>8, <1>9, <1>10, <1>11, InsertSorted
<1>13. QED
  BY <1>12 DEF Sorted, DirectorySorted

(* Rename keeps every field of the header but the name. *)
LEMMA RenameKeeps ==
  ASSUME IInv, NEW n \in Names, NEW m \in Names, Rename(n, m)
  PROVE  /\ Listed' = Listed
         /\ \A p \in Listed : /\ obj'[p].chains = obj[p].chains
                              /\ obj'[p].secCount = obj[p].secCount
                              /\ obj'[p].dirSec = obj[p].dirSec
<1>1. PICK o \in Listed :
        obj' = [obj EXCEPT ![o] = [obj[o] EXCEPT !.os = m, !.ti = TIName[m], !.ref = @ + 1]]
  BY DEF Rename, Listed
<1>2. PICK i \in DOMAIN files : \E p : /\ p \in 1 .. Len(RemoveAt(files, i)) + 1
                                       /\ files' = InsertAt(RemoveAt(files, i), p, files[i])
  BY DEF Rename, InsertPlaces
<1>3. /\ files \in Seq(Objs) /\ NoRepeat(files) /\ Listed \subseteq Objs
      /\ Listed = Elems(files) /\ Listed' = Elems(files')
      /\ \A q \in Listed : obj[q] \in File
  BY ListFacts
<1>4. PICK g : g = [obj[o] EXCEPT !.os = m, !.ti = TIName[m], !.ref = @ + 1]
  OBVIOUS
<1>5. g.chains = obj[o].chains /\ g.secCount = obj[o].secCount /\ g.dirSec = obj[o].dirSec
  BY <1>3, <1>4 DEF File
<1>6. \A p \in Listed : obj'[p] = IF p = o THEN g ELSE obj[p]
  BY <1>1, <1>3, <1>4 DEF IInv, MemoryTypeOK
<1>7. Listed' = Listed
  <2> DEFINE rest == RemoveAt(files, i)
  <2>1. rest \in Seq(Objs) /\ NoRepeat(rest) /\ Elems(rest) = Listed \ {files[i]}
    BY <1>3, RemoveFromList
  <2>2. PICK p \in 1 .. Len(rest) + 1 : files' = InsertAt(rest, p, files[i])
    BY <1>2
  <2>. HIDE DEF rest
  <2>3. files[i] \in Listed /\ files[i] \in Objs
    BY <1>3 DEF Elems
  <2>4. Elems(files') = Elems(rest) \cup {files[i]}
    BY <2>1, <2>2, <2>3, InsertIntoList
  <2>5. QED
    BY <1>3, <2>1, <2>3, <2>4
<1>8. QED
  BY <1>5, <1>6, <1>7

-----------------------------------------------------------------------------
(* Sectors along the chains                                                *)

(* The c-th chain adds its sectors to those before it. *)
LEMMA NextChain ==
  ASSUME NEW chains \in Seq(Chain), Ordered(chains), NEW c \in DOMAIN chains
  PROVE  SectorsBefore(chains, c + 1) =
           SectorsBefore(chains, c) + chains[c].end - chains[c].start + 1
<1> DEFINE before(k) == {p \in (1 .. k - 1) \X Sectors : p[2] \in ChainSectors(chains[p[1]])}
           here == {p \in {c} \X Sectors : p[2] \in ChainSectors(chains[c])}
<1>1. /\ c \in Nat /\ 1 <= c
      /\ chains[c].start \in Sectors /\ chains[c].start \in Nat
      /\ chains[c].end \in Sectors /\ chains[c].end \in Nat
      /\ chains[c].start <= chains[c].end
  BY ChainEnds, LenProperties DEF Ordered
<1>2. ChainSectors(chains[c]) \subseteq Sectors
  BY <1>1, SizeAssumption DEF ChainSectors, Sectors
<1>3. IsFiniteSet(before(c)) /\ Cardinality(before(c)) \in Nat
  <2>1. IsFiniteSet(1 .. c - 1) /\ IsFiniteSet(Sectors)
    BY <1>1, FS_Interval, SizeAssumption DEF Sectors
  <2>2. IsFiniteSet((1 .. c - 1) \X Sectors)
    BY <2>1, FS_Product
  <2>3. IsFiniteSet(before(c))
    BY <2>2, FS_Subset
  <2>4. QED
    BY <2>3, FS_CardinalityType
<1>4. IsFiniteSet(here) /\ Cardinality(here) = chains[c].end - chains[c].start + 1
  <2> DEFINE f == [s \in ChainSectors(chains[c]) |-> <<c, s>>]
  <2>1. f \in Bijection(ChainSectors(chains[c]), here)
    <3>1. f \in [ChainSectors(chains[c]) -> here]
      BY <1>2
    <3>2. \A s, t \in ChainSectors(chains[c]) : f[s] = f[t] => s = t
      OBVIOUS
    <3>3. \A p \in here : \E s \in ChainSectors(chains[c]) : f[s] = p
      OBVIOUS
    <3>. HIDE DEF f, here
    <3>4. QED
      BY <3>1, <3>2, <3>3 DEF Bijection, Injection, Surjection, IsInjective
  <2>2. /\ IsFiniteSet(ChainSectors(chains[c]))
        /\ Cardinality(ChainSectors(chains[c])) = chains[c].end - chains[c].start + 1
    <3>1. PICK a \in Nat, b \in Nat : a = chains[c].start /\ b = chains[c].end
      BY <1>1
    <3>2. IsFiniteSet(a .. b) /\ Cardinality(a .. b) = IF a > b THEN 0 ELSE b - a + 1
      BY FS_Interval
    <3>3. ~(a > b)
      BY <1>1, <3>1
    <3>4. QED
      BY <3>1, <3>2, <3>3 DEF ChainSectors
  <2>. HIDE DEF f, here
  <2>3. ExistsBijection(ChainSectors(chains[c]), here)
    BY <2>1 DEF ExistsBijection
  <2>4. QED
    BY <2>2, <2>3, FS_Bijection
<1>5. before(c) \cap here = {} /\ before(c + 1) = before(c) \cup here
  <2>1. 1 .. (c + 1) - 1 = (1 .. c - 1) \cup {c} /\ c \notin 1 .. c - 1
    BY <1>1
  <2>2. QED
    BY <2>1
<1>6. Cardinality(before(c + 1)) = Cardinality(before(c)) + Cardinality(here)
  <2>. HIDE DEF before, here
  <2>1. /\ Cardinality(before(c) \cup here) =
             Cardinality(before(c)) + Cardinality(here) - Cardinality(before(c) \cap here)
    BY <1>3, <1>4, FS_Union
  <2>2. Cardinality(before(c) \cap here) = 0
    BY <1>5, FS_EmptySet
  <2>3. Cardinality(here) \in Nat
    BY <1>4, FS_CardinalityType
  <2>4. Cardinality(before(c) \cup here) = Cardinality(before(c)) + Cardinality(here)
    BY <1>3, <2>1, <2>2, <2>3
  <2>5. QED
    BY <1>5, <2>4
<1>7. SectorsBefore(chains, c) = Cardinality(before(c))
      /\ SectorsBefore(chains, c + 1) = Cardinality(before(c + 1))
  BY DEF SectorsBefore
<1>. HIDE DEF before, here
<1>8. QED
  BY <1>1, <1>3, <1>4, <1>6, <1>7

(* What comes before a chain depends on the chains before it. *)
LEMMA SamePrefix ==
  ASSUME NEW a, NEW b, NEW c \in Nat, \A i \in 1 .. c - 1 : a[i] = b[i]
  PROVE  SectorsBefore(a, c) = SectorsBefore(b, c)
  BY DEF SectorsBefore

LEMMA FirstChain ==
  ASSUME NEW chains
  PROVE  SectorsBefore(chains, 1) = 0
<1>1. {p \in (1 .. 0) \X Sectors : p[2] \in ChainSectors(chains[p[1]])} = {}
  OBVIOUS
<1>2. QED
  BY <1>1, FS_EmptySet DEF SectorsBefore

(* A file whose last chain has a sector more. *)
LEMMA JoinedCount ==
  ASSUME NEW chains \in Seq(Chain), Ordered(chains), Len(chains) > 0,
         NEW s \in Sectors, chains[Len(chains)].end + 1 = s
  PROVE  LET new == [chains EXCEPT ![Len(chains)].end = s]
         IN SectorsBefore(new, Len(new) + 1) = SectorsBefore(chains, Len(chains) + 1) + 1
<1> DEFINE n == Len(chains)
           new == [chains EXCEPT ![n].end = s]
<1>1. n \in Nat /\ n \in DOMAIN chains /\ DOMAIN chains = 1 .. n
  BY LenProperties
<1>2. new \in Seq(Chain) /\ Len(new) = n /\ Ordered(new)
  BY <1>1, JoinChain
<1>3. DOMAIN new = 1 .. n
  BY <1>2, LenProperties
<1>4. \A i \in 1 .. n - 1 : new[i] = chains[i]
  BY <1>1
<1>5. /\ chains[n] \in Chain /\ chains[n].start \in Nat /\ chains[n].end \in Nat
      /\ s \in Nat
  BY <1>1, ChainEnds, SizeAssumption DEF Sectors
<1>6. new[n].start = chains[n].start /\ new[n].end = s
  <2>1. new[n] = [chains[n] EXCEPT !.end = s]
    BY <1>1
  <2>. HIDE DEF new
  <2>2. QED
    BY <2>1, <1>5 DEF Chain
<1>. HIDE DEF new
<1>7. SectorsBefore(new, n) = SectorsBefore(chains, n) /\ SectorsBefore(chains, n) \in Nat
  BY <1>1, <1>4, SamePrefix, SectorsBeforeNat
<1>8. SectorsBefore(new, n + 1) = SectorsBefore(new, n) + s - chains[n].start + 1
  <2>1. SectorsBefore(new, n + 1) = SectorsBefore(new, n) + new[n].end - new[n].start + 1
    BY <1>1, <1>2, <1>3, NextChain
  <2>2. QED
    BY <2>1, <1>6
<1>9. SectorsBefore(chains, n + 1) =
        SectorsBefore(chains, n) + chains[n].end - chains[n].start + 1
  BY <1>1, NextChain
<1>10. SectorsBefore(new, n + 1) = SectorsBefore(chains, n + 1) + 1
  BY <1>5, <1>7, <1>8, <1>9, SMTT(40)
<1>11. QED
  BY <1>2, <1>10 DEF new

(* A file with one more chain of one sector. *)
LEMMA AppendedCount ==
  ASSUME NEW chains \in Seq(Chain), Ordered(chains), NEW s \in Sectors
  PROVE  LET new == Append(chains, [start |-> s, end |-> s])
         IN SectorsBefore(new, Len(new) + 1) = SectorsBefore(chains, Len(chains) + 1) + 1
<1> DEFINE n == Len(chains)
           c == [start |-> s, end |-> s]
           new == Append(chains, c)
<1>1. n \in Nat /\ s \in Nat
  BY LenProperties, SizeAssumption DEF Sectors
<1>2. new \in Seq(Chain) /\ Len(new) = n + 1 /\ Ordered(new)
  BY AppendChain
<1>3. \A i \in 1 .. n : new[i] = chains[i]
  BY AppendProperties
<1>4. new[n + 1].start = s /\ new[n + 1].end = s
  <2>1. new[n + 1] = c
    BY AppendProperties
  <2>. HIDE DEF new
  <2>2. QED
    BY <2>1
<1>5. n + 1 \in DOMAIN new
  BY <1>1, <1>2, LenProperties
<1>. HIDE DEF new
<1>6. SectorsBefore(new, n + 1) = SectorsBefore(chains, n + 1)
      /\ SectorsBefore(chains, n + 1) \in Nat
  <2>1. (n + 1) - 1 = n /\ n + 1 \in Nat
    BY <1>1
  <2>2. QED
    BY <2>1, <1>3, SamePrefix, SectorsBeforeNat
<1>7. SectorsBefore(new, (n + 1) + 1) =
        SectorsBefore(new, n + 1) + new[n + 1].end - new[n + 1].start + 1
  BY <1>2, <1>5, NextChain
<1>8. SectorsBefore(new, (n + 1) + 1) = SectorsBefore(chains, n + 1) + 1
  BY <1>1, <1>4, <1>6, <1>7
<1>9. QED
  BY <1>2, <1>8 DEF new, c

-----------------------------------------------------------------------------
(* Chains and headers agree                                                *)

(* What an iteration that allocates a sector s changes: the last chain of  *)
(* the file, or a new one after it, and the count in its header. *)
Extends(o, f, g, s) ==
  /\ Listed' = Listed
  /\ \A p \in Listed : obj'[p] = IF p = o THEN g ELSE obj[p]
  /\ \E new \in Seq(Chain) : g = [f EXCEPT !.chains = new, !.secCount = @ + 1]
  /\ g.os = f.os /\ g.ti = f.ti /\ g.dirSec = f.dirSec /\ g.unlinked = f.unlinked
  /\ g.secCount = f.secCount + 1
  /\ SectorsBefore(g.chains, Len(g.chains) + 1) = SectorsBefore(f.chains, Len(f.chains) + 1) + 1
  /\ SectorsOf(g.chains) = SectorsOf(f.chains) \cup {s}

LEMMA SteadyChains ==
  ASSUME ChainsMatchHeader, Steady
  PROVE  ChainsMatchHeader'
  BY DEF ChainsMatchHeader, Steady, SameHeader

LEMMA CreateChains ==
  ASSUME IInv, ChainsMatchHeader, NEW n \in Names, NEW h \in Handles, Create(n, h)
  PROVE  ChainsMatchHeader'
<1> DEFINE f(d) == [os |-> n, ti |-> TIName[n], attr |-> 0, dirSec |-> d,
                    chains |-> <<>>, secCount |-> 0, eof |-> 0, len |-> 0,
                    ref |-> 1, unlinked |-> FALSE]
<1>1. PICK o \in Objs, d \in Sectors :
        /\ NewObject(o) /\ obj' = [obj EXCEPT ![o] = f(d)]
        /\ \E p \in 1 .. Len(files) + 1 : files' = InsertAt(files, p, o)
  BY DEF Create, InsertPlaces
<1>2. f(d).chains = <<>> /\ f(d).secCount = 0
  OBVIOUS
<1>. HIDE DEF f
<1>3. /\ files \in Seq(Objs) /\ NoRepeat(files) /\ Listed \subseteq Objs
      /\ Listed = Elems(files) /\ Listed' = Elems(files')
  BY ListFacts
<1>4. o \notin Listed
  BY <1>1 DEF NewObject
<1>5. Listed' = Listed \cup {o}
  BY <1>1, <1>3, <1>4, InsertIntoList
<1>6. \A p \in Listed' : obj'[p] = IF p = o THEN f(d) ELSE obj[p]
  BY <1>1, <1>3, <1>5 DEF IInv, MemoryTypeOK
<1>7. SectorsBefore(f(d).chains, Len(f(d).chains) + 1) = f(d).secCount
  <2>1. Len(f(d).chains) + 1 = 1
    BY <1>2
  <2>2. QED
    BY <1>2, <2>1, FirstChain
<1>8. QED
  BY <1>5, <1>6, <1>7 DEF ChainsMatchHeader

LEMMA ExtendStep ==
  ASSUME IInv, WriteExtend
  PROVE  \E s \in Sectors, g \in File :
           /\ FindFree(FirstDataSector, s) /\ fat' = fat \cup {s} /\ PutData(s)
           /\ Extends(io.file, obj[io.file], g, s)
<1>1. /\ io.file \in Listed /\ io.len # 0 /\ io.avail = 0 /\ files' = files
  BY WritingListed DEF WriteExtend
<1>2. PICK o \in Listed : o = io.file
  BY <1>1
<1>3. PICK f \in File : f = obj[o]
  BY ListFacts
<1>4. PICK chains \in Seq(Chain) : chains = f.chains
  BY DEF File
<1>5. PICK n \in Nat : n = Len(chains) /\ DOMAIN chains = 1 .. n
  BY LenProperties
<1>6. io.chain = n + 1
  <2>1. io.off \in Nat /\ io.len \in Nat /\ io.avail * SectorBytes = 0
    BY <1>1, StepFacts, SizeAssumption DEF IOType
  <2>2. ~(io.off + io.len <= io.avail * SectorBytes)
    BY <2>1, <1>1
  <2>3. QED
    BY <2>2, <1>1, <1>2, <1>3, <1>4, <1>5 DEF IInv, WriteWithinOrAtEnd
<1>7. PICK s \in Sectors :
        /\ FindFree(FirstDataSector, s) /\ fat' = fat \cup {s} /\ PutData(s)
        /\ \/ /\ n >= 1 /\ chains[n].end + 1 = s
              /\ obj' = [obj EXCEPT ![o].chains[n].end = s, ![o].secCount = @ + 1]
           \/ obj' = [obj EXCEPT ![o].chains = Append(chains, [start |-> s, end |-> s]),
                                 ![o].secCount = @ + 1]
  <2>1. PICK c \in Nat : c = io.chain /\ c = n + 1
    BY <1>6
  <2>2. PICK s \in Sectors :
          /\ FindFree(FirstDataSector, s) /\ fat' = fat \cup {s} /\ PutData(s)
          /\ \/ /\ Joins(obj[io.file].chains, io.chain, s)
                /\ obj' = [obj EXCEPT ![io.file].chains[io.chain - 1].end = s,
                                      ![io.file].secCount = @ + 1]
             \/ obj' = [obj EXCEPT
                          ![io.file].chains = Append(obj[io.file].chains, [start |-> s, end |-> s]),
                          ![io.file].secCount = @ + 1]
             \/ io.chain <= Len(obj[io.file].chains)
    BY Zenon DEF WriteExtend
  <2>3. c - 1 = n /\ ~(c <= Len(chains)) /\ (c > 1 => n >= 1)
    BY <1>5, <2>1
  <2>4. obj[io.file].chains = chains
    BY <1>2, <1>3, <1>4
  <2>5. QED
    BY <1>2, <2>1, <2>2, <2>3, <2>4 DEF Joins
<1>8. Ordered(chains)
  BY <1>3, <1>4 DEF IInv, ChainsOrdered, Ordered
<1>9. PICK new \in Seq(Chain) :
        /\ obj' = [obj EXCEPT ![o] = [f EXCEPT !.chains = new, !.secCount = @ + 1]]
        /\ SectorsBefore(new, Len(new) + 1) = SectorsBefore(chains, n + 1) + 1
        /\ SectorsOf(new) = SectorsOf(chains) \cup {s}
  <2>1. ASSUME n >= 1, chains[n].end + 1 = s,
               obj' = [obj EXCEPT ![o].chains[n].end = s, ![o].secCount = @ + 1]
        PROVE  \E new \in Seq(Chain) :
                 /\ obj' = [obj EXCEPT ![o] = [f EXCEPT !.chains = new, !.secCount = @ + 1]]
                 /\ SectorsBefore(new, Len(new) + 1) = SectorsBefore(chains, n + 1) + 1
                 /\ SectorsOf(new) = SectorsOf(chains) \cup {s}
    <3>1. PICK new \in Seq(Chain) : /\ new = [chains EXCEPT ![n].end = s]
                                     /\ SectorsOf(new) = SectorsOf(chains) \cup {s}
      <4>1. n \in DOMAIN chains
        BY <1>5, <2>1
      <4>2. QED
        BY <4>1, <1>8, <2>1, JoinChain, ZenonT(60)
    <3>2. obj' = [obj EXCEPT ![o] = [f EXCEPT !.chains = new, !.secCount = @ + 1]]
      BY <1>3, <1>4, <2>1, <3>1
    <3>3. SectorsBefore(new, Len(new) + 1) = SectorsBefore(chains, n + 1) + 1
      <4>1. Len(chains) > 0 /\ chains[Len(chains)].end + 1 = s
            /\ new = [chains EXCEPT ![Len(chains)].end = s]
        BY <1>5, <2>1, <3>1
      <4>2. SectorsBefore(new, Len(new) + 1) = SectorsBefore(chains, Len(chains) + 1) + 1
        BY <4>1, <1>8, JoinedCount
      <4>3. QED
        BY <4>2, <1>5
    <3>4. QED
      BY <3>1, <3>2, <3>3
  <2>2. ASSUME obj' = [obj EXCEPT ![o].chains = Append(chains, [start |-> s, end |-> s]),
                                  ![o].secCount = @ + 1]
        PROVE  \E new \in Seq(Chain) :
                 /\ obj' = [obj EXCEPT ![o] = [f EXCEPT !.chains = new, !.secCount = @ + 1]]
                 /\ SectorsBefore(new, Len(new) + 1) = SectorsBefore(chains, n + 1) + 1
                 /\ SectorsOf(new) = SectorsOf(chains) \cup {s}
    <3>1. PICK new \in Seq(Chain) : /\ new = Append(chains, [start |-> s, end |-> s])
                                     /\ SectorsOf(new) = SectorsOf(chains) \cup {s}
      BY <1>8, AppendChain
    <3>2. obj' = [obj EXCEPT ![o] = [f EXCEPT !.chains = new, !.secCount = @ + 1]]
      BY <1>3, <2>2, <3>1
    <3>3. SectorsBefore(new, Len(new) + 1) = SectorsBefore(chains, n + 1) + 1
      BY <1>5, <1>8, <3>1, AppendedCount
    <3>4. QED
      BY <3>1, <3>2, <3>3
  <2>3. QED
    BY <1>7, <2>1, <2>2
<1>10. PICK g \in File : /\ g = [f EXCEPT !.chains = new, !.secCount = @ + 1]
                         /\ g.chains = new /\ g.dirSec = f.dirSec
  BY GrownFile
<1>11. /\ g.secCount = f.secCount + 1
       /\ g.os = f.os /\ g.ti = f.ti /\ g.unlinked = f.unlinked
  BY <1>10 DEF File
<1>12. Listed' = Listed /\ Listed \subseteq Objs
  BY <1>1, ListFacts DEF Listed
<1>13. \A p \in Listed : obj'[p] = IF p = o THEN g ELSE obj[p]
  BY <1>9, <1>10, <1>12 DEF IInv, MemoryTypeOK
<1>14. Extends(o, f, g, s)
  BY <1>4, <1>5, <1>9, <1>10, <1>11, <1>12, <1>13 DEF Extends
<1>15. QED
  BY <1>2, <1>3, <1>7, <1>14

LEMMA ExtendChains ==
  ASSUME IInv, ChainsMatchHeader, WriteExtend
  PROVE  ChainsMatchHeader'
<1>1. io.file \in Listed
  BY WritingListed DEF WriteExtend
<1>2. PICK s \in Sectors, g \in File : Extends(io.file, obj[io.file], g, s)
  BY ExtendStep
<1>3. QED
  BY <1>1, <1>2 DEF ChainsMatchHeader, Extends

LEMMA ExtendSorted ==
  ASSUME IInv, DirectorySorted, WriteExtend
  PROVE  DirectorySorted'
<1>1. PICK s \in Sectors, g \in File : Extends(io.file, obj[io.file], g, s)
  BY ExtendStep
<1>2. files' = files /\ \A p \in Listed : obj'[p].ti = obj[p].ti
  BY <1>1 DEF Extends, WriteExtend
<1>3. QED
  BY <1>2 DEF DirectorySorted, Listed

-----------------------------------------------------------------------------
(* Where a write lands                                                     *)

(* The sectors of the file before the one the write has come to. *)
WriteIndex ==
  LET chains == obj[io.file].chains
  IN SectorsBefore(chains, io.chain) + io.sector - chains[io.chain].start

(* The byte a write has come to, its place in the chains and the count of  *)
(* sectors that are left move together. *)
WritePlace ==
  io.len # 0 /\ io.avail # 0 =>
    LET f == obj[io.file]
    IN  /\ io.chain \in DOMAIN f.chains
        /\ io.sector \in ChainSectors(f.chains[io.chain])
        /\ io.newLen - io.len = WriteIndex * SectorBytes + io.off
        /\ io.off < SectorBytes
        /\ io.avail = f.secCount - WriteIndex

WriteInv == IInv /\ ChainsMatchHeader /\ WritePlace

LEMMA DivUnique ==
  ASSUME NEW q \in Nat, NEW r \in Nat, r < SectorBytes
  PROVE  (q * SectorBytes + r) \div SectorBytes = q
<1>1. PICK b \in Nat : b = SectorBytes /\ 0 < b
  BY SizeAssumption
<1>2. PICK n \in Nat : n = q * b + r
  BY <1>1
<1>3. PICK d \in Nat : d = n \div b
  BY <1>1
<1>4. d * b <= n /\ n < d * b + b
  BY <1>1, <1>3
<1>5. ~(d < q)
  <2> SUFFICES ASSUME d < q PROVE FALSE
    OBVIOUS
  <2>1. PICK k \in Nat : q = d + 1 + k
    <3>1. q - d - 1 \in Nat /\ q = d + 1 + (q - d - 1)
      OBVIOUS
    <3>2. QED
      BY <3>1
  <2>2. q * b = d * b + b + k * b
    BY <2>1, <1>1
  <2>3. k * b \in Nat
    BY <1>1
  <2>4. d * b \in Nat
    BY <1>1
  <2>5. QED
    BY <2>2, <2>3, <2>4, <1>1, <1>2, <1>4
<1>6. ~(q < d)
  <2> SUFFICES ASSUME q < d PROVE FALSE
    OBVIOUS
  <2>1. PICK k \in Nat : d = q + 1 + k
    <3>1. d - q - 1 \in Nat /\ d = q + 1 + (d - q - 1)
      OBVIOUS
    <3>2. QED
      BY <3>1
  <2>2. d * b = q * b + b + k * b
    BY <2>1, <1>1
  <2>3. k * b \in Nat /\ q * b \in Nat
    BY <1>1
  <2>4. QED
    BY <2>2, <2>3, <1>1, <1>2, <1>4
<1>7. d = q
  BY <1>5, <1>6
<1>8. QED
  BY <1>1, <1>2, <1>3, <1>7

(* The index of a sector of a chain is a number. *)
LEMMA IndexNat ==
  ASSUME NEW chains \in Seq(Chain), NEW c \in DOMAIN chains,
         NEW s \in ChainSectors(chains[c])
  PROVE  /\ s \in Nat /\ s <= chains[c].end
         /\ SectorsBefore(chains, c) + s - chains[c].start \in Nat
<1>1. chains[c].start \in Nat /\ chains[c].end \in Nat
  BY ChainEnds
<1>2. s \in Nat /\ chains[c].start <= s /\ s <= chains[c].end
  BY <1>1 DEF ChainSectors
<1>3. c \in Nat
  BY LenProperties
<1>4. SectorsBefore(chains, c) \in Nat
  BY <1>3, SectorsBeforeNat
<1>5. QED
  BY <1>1, <1>2, <1>4

(* The invariant places the write. *)
LEMMA WriteLands == WriteInv => WriteLandsInPlace
<1> SUFFICES ASSUME WriteInv, io.len # 0, io.avail # 0
             PROVE  LET chains == obj[io.file].chains
                    IN  /\ io.chain \in DOMAIN chains
                        /\ io.sector \in ChainSectors(chains[io.chain])
                        /\ WriteIndex = (io.newLen - io.len) \div SectorBytes
  BY DEF WriteLandsInPlace, WriteIndex
<1>1. PICK chains \in Seq(Chain) : chains = obj[io.file].chains
  BY WritingListed, ListFacts DEF WriteInv, File
<1>2. /\ io.chain \in DOMAIN chains
      /\ io.sector \in ChainSectors(chains[io.chain])
      /\ io.newLen - io.len = WriteIndex * SectorBytes + io.off
      /\ io.off < SectorBytes
  BY <1>1 DEF WriteInv, WritePlace
<1>3. WriteIndex \in Nat
  BY <1>1, <1>2, IndexNat DEF WriteIndex
<1>4. io.off \in Nat
  BY StepFacts DEF WriteInv, IOType
<1>5. (WriteIndex * SectorBytes + io.off) \div SectorBytes = WriteIndex
  BY <1>2, <1>3, <1>4, DivUnique
<1>6. QED
  BY <1>1, <1>2, <1>5

(* The write loop leaves a chain only for one that exists: the header      *)
(* counts no sector beyond the last chain. *)
NextChainExists ==
  io.len # 0 /\ io.avail # 0 =>
    LET chains == obj[io.file].chains
    IN  io.avail - 1 # 0 /\ PastChain(io.sector + 1, chains[io.chain])
          => io.chain + 1 \in DOMAIN chains

(* The last sector of a chain is followed by the first of the next. *)
LEMMA ChainEnd ==
  ASSUME WriteInv, io.len # 0, io.avail # 0, io.avail - 1 # 0,
         io.sector + 1 > obj[io.file].chains[io.chain].end
  PROVE  /\ io.chain + 1 \in DOMAIN obj[io.file].chains
         /\ SectorsBefore(obj[io.file].chains, io.chain + 1) = WriteIndex + 1
<1>1. PICK f \in File : f = obj[io.file] /\ io.file \in Listed
  BY WritingListed, ListFacts DEF WriteInv
<1>2. PICK chains \in Seq(Chain) : chains = obj[io.file].chains /\ chains = f.chains
  BY <1>1 DEF File
<1>3. PICK c \in DOMAIN chains : c = io.chain
  BY <1>1, <1>2 DEF WriteInv, WritePlace
<1>4. /\ io.sector \in ChainSectors(chains[c])
      /\ WriteIndex = SectorsBefore(chains, c) + io.sector - chains[c].start
      /\ io.avail = f.secCount - WriteIndex
  BY <1>1, <1>2, <1>3 DEF WriteInv, WritePlace, WriteIndex
<1>5. Ordered(chains)
  BY <1>1, <1>2 DEF WriteInv, IInv, ChainsOrdered, Ordered
<1>6. /\ SectorsBefore(chains, c) \in Nat /\ chains[c].start \in Nat /\ chains[c].end \in Nat
      /\ io.sector \in Nat /\ io.sector <= chains[c].end
      /\ WriteIndex \in Nat
  BY <1>4, ChainEnds, IndexNat, SectorsBeforeNat, LenProperties
<1>7. io.sector = chains[c].end
  BY <1>2, <1>3, <1>6
<1>8. SectorsBefore(chains, c + 1) = WriteIndex + 1
  <2>1. SectorsBefore(chains, c + 1) = SectorsBefore(chains, c) + chains[c].end - chains[c].start + 1
    BY <1>5, NextChain
  <2>2. QED
    BY <2>1, <1>4, <1>6, <1>7
<1>9. c # Len(chains)
  <2> SUFFICES ASSUME c = Len(chains) PROVE FALSE
    OBVIOUS
  <2>1. SectorsBefore(chains, Len(chains) + 1) = f.secCount
    BY <1>1, <1>2 DEF WriteInv, ChainsMatchHeader
  <2>2. f.secCount \in Nat
    BY DEF File
  <2>3. f.secCount = WriteIndex + 1
    BY <1>8, <2>1
  <2>4. QED
    BY <1>4, <1>6, <2>2, <2>3
<1>10. c + 1 \in DOMAIN chains
  BY <1>9, LenProperties
<1>11. QED
  BY <1>2, <1>3, <1>8, <1>10

LEMMA ChainFollows == WriteInv => NextChainExists
  BY ChainEnd DEF NextChainExists, PastChain

LEMMA WriteExistingPlace ==
  ASSUME WriteInv, WriteExisting
  PROVE  WritePlace'
<1>1. io.len # 0 /\ io.avail # 0 /\ obj' = obj
  BY DEF WriteExisting
<1>2. PICK f \in File : f = obj[io.file] /\ io.file \in Listed
  BY <1>1, WritingListed, ListFacts DEF WriteInv
<1>3. PICK chains \in Seq(Chain) : chains = obj[io.file].chains /\ chains = f.chains
  BY <1>2 DEF File
<1>4. PICK c \in DOMAIN chains : c = io.chain
  BY <1>1, <1>2, <1>3 DEF WriteInv, WritePlace
<1>5. /\ io.sector \in ChainSectors(chains[c])
      /\ WriteIndex = SectorsBefore(chains, c) + io.sector - chains[c].start
      /\ io.avail = f.secCount - WriteIndex
      /\ io.newLen - io.len = WriteIndex * SectorBytes + io.off
      /\ io.off < SectorBytes
  BY <1>1, <1>2, <1>3, <1>4 DEF WriteInv, WritePlace, WriteIndex
<1>6. /\ WriteIndex \in Nat /\ SectorsBefore(chains, c) \in Nat
      /\ chains[c].start \in Nat /\ chains[c].end \in Nat /\ c \in Nat
      /\ io.sector \in Nat /\ chains[c].start <= io.sector
  <2>1. c \in Nat
    BY LenProperties
  <2>2. chains[c].start \in Nat /\ chains[c].end \in Nat
    BY ChainEnds
  <2>3. QED
    BY <2>1, <2>2, <1>5, IndexNat, SectorsBeforeNat DEF ChainSectors
<1>7. io \in IOType /\ f.secCount \in Nat
  BY StepFacts DEF WriteInv, File
<1> DEFINE rest == [io EXCEPT !.off = 0, !.len = @ - StepBytes,
                              !.avail = @ - 1, !.sector = @ + 1]
<1>8. /\ rest.file = io.file /\ rest.chain = c /\ rest.off = 0
      /\ rest.len = io.len - StepBytes /\ rest.avail = io.avail - 1
      /\ rest.sector = io.sector + 1 /\ rest.newLen = io.newLen
  BY <1>4, <1>7 DEF IOType
<1>9. IF rest.len # 0 /\ rest.avail # 0 /\ rest.sector > chains[c].end
      THEN io' = [rest EXCEPT !.chain = @ + 1, !.sector = chains[c + 1].start]
      ELSE io' = rest
  BY <1>3, <1>4 DEF WriteExisting, PastChain
<1>10. rest.chain = c /\ DOMAIN rest = DOMAIN io
  BY <1>8
<1>. HIDE DEF rest
<1>11. rest.len # 0 => io.newLen - rest.len = (WriteIndex + 1) * SectorBytes
  <2>1. PICK b \in Nat, l \in Nat, off \in Nat, new \in Nat, i \in Nat :
          b = SectorBytes /\ l = io.len /\ off = io.off /\ new = io.newLen /\ i = WriteIndex
    BY <1>6, <1>7, SizeAssumption DEF IOType
  <2>2. rest.len # 0 => rest.len = l - (b - off)
    BY <1>8, <2>1, SMTT(40) DEF StepBytes
  <2>3. new - l = i * b + off
    BY <1>5, <2>1
  <2>4. PICK m \in Nat : m = i * b
    OBVIOUS
  <2>5. (i + 1) * b = m + b
    BY <2>4
  <2>6. rest.len # 0 => new - rest.len = (i + 1) * b
    BY <2>2, <2>3, <2>4, <2>5
  <2>7. QED
    BY <2>1, <2>6
<1>12. Ordered(chains)
  BY <1>2, <1>3 DEF WriteInv, IInv, ChainsOrdered, Ordered
<1>13. ASSUME io'.file = io.file, io'.off = 0, io'.len = rest.len, rest.len # 0,
             io'.avail = io.avail - 1, io'.newLen = io.newLen,
             WriteIndex' = WriteIndex + 1, io'.chain \in DOMAIN chains,
             io'.sector \in ChainSectors(chains[io'.chain])
      PROVE  WritePlace'
  <2>1. obj'[io'.file] = f /\ f.chains = chains
    BY <1>1, <1>2, <1>3, <1>13
  <2>2. io'.newLen - io'.len = WriteIndex' * SectorBytes + io'.off
    <3>1. PICK m \in Nat : m = (WriteIndex + 1) * SectorBytes
      BY <1>6, SizeAssumption
    <3>2. io'.newLen - io'.len = m
      BY <1>11, <1>13, <3>1
    <3>3. WriteIndex' * SectorBytes + io'.off = m + 0
      BY <1>13, <3>1
    <3>4. QED
      BY <3>2, <3>3
  <2>3. io'.avail = f.secCount - WriteIndex'
    BY <1>5, <1>6, <1>7, <1>13, SMTT(40)
  <2>4. io'.off < SectorBytes
    BY <1>13, SizeAssumption
  <2>5. QED
    BY <2>1, <2>2, <2>3, <2>4, <1>13 DEF WritePlace
<1>14. CASE rest.len # 0 /\ rest.avail # 0 /\ rest.sector > chains[c].end
  <2>1. c + 1 \in DOMAIN chains /\ SectorsBefore(chains, c + 1) = WriteIndex + 1
    BY <1>1, <1>3, <1>4, <1>8, <1>14, ChainEnd
  <2>2. PICK t \in Nat : t = chains[c + 1].start /\ t <= chains[c + 1].end
    BY <2>1, <1>12, ChainEnds DEF Ordered
  <2>3. io' = [rest EXCEPT !.chain = @ + 1, !.sector = t]
    BY <1>9, <1>14, <2>2
  <2>4. /\ io'.file = io.file /\ io'.chain = c + 1 /\ io'.sector = t /\ io'.off = 0
        /\ io'.len = rest.len /\ io'.avail = io.avail - 1 /\ io'.newLen = io.newLen
    <3>1. DOMAIN io = {"file", "chain", "sector", "avail", "off", "len", "newLen"}
      BY <1>7 DEF IOType
    <3>2. DOMAIN rest = {"file", "chain", "sector", "avail", "off", "len", "newLen"}
      BY <1>10, <3>1
    <3>3. QED
      BY <2>3, <3>2, <1>8
  <2>5. t \in ChainSectors(chains[c + 1])
    <3>1. chains[c + 1].end \in Nat
      BY <2>1, ChainEnds
    <3>2. QED
      BY <2>2, <3>1 DEF ChainSectors
  <2>6. WriteIndex' = WriteIndex + 1
    <3>1. WriteIndex' = SectorsBefore(chains, c + 1) + t - chains[c + 1].start
      BY <1>1, <1>3, <2>4 DEF WriteIndex
    <3>2. QED
      BY <3>1, <2>1, <2>2, <1>6
  <2>7. QED
    BY <1>13, <1>14, <2>1, <2>4, <2>5, <2>6
<1>15. ASSUME rest.len # 0, rest.avail # 0, ~(rest.sector > chains[c].end)
       PROVE  WritePlace'
  <2>1. io' = rest
    BY <1>9, <1>15
  <2>2. /\ io'.file = io.file /\ io'.chain = c /\ io'.sector = io.sector + 1 /\ io'.off = 0
        /\ io'.len = rest.len /\ io'.avail = io.avail - 1 /\ io'.newLen = io.newLen
    BY <2>1, <1>8
  <2>3. io'.sector \in ChainSectors(chains[c])
    BY <2>2, <1>6, <1>8, <1>15 DEF ChainSectors
  <2>4. WriteIndex' = WriteIndex + 1
    <3>1. WriteIndex' = SectorsBefore(chains, c) + io'.sector - chains[c].start
      BY <1>1, <1>3, <2>2 DEF WriteIndex
    <3>2. QED
      BY <3>1, <2>2, <1>5, <1>6, SMTT(40)
  <2>5. QED
    BY <1>13, <1>15, <2>2, <2>3, <2>4
<1>16. CASE rest.len = 0 \/ rest.avail = 0
  <2>1. io'.len = 0 \/ io'.avail = 0
    BY <1>9, <1>16
  <2>2. QED
    BY <2>1 DEF WritePlace
<1>17. QED
  BY <1>14, <1>15, <1>16

LEMMA WriteStartPlace ==
  ASSUME WriteInv, NEW h \in Handles, NEW r \in Requests, WriteStart(h, r[1], r[2])
  PROVE  WritePlace'
<1>1. PICK off \in Nat, len \in Nat : off = r[1] /\ len = r[2]
  BY BoundAssumption
<1>2. fd[h] # 0 /\ obj' = obj
  BY DEF WriteStart
<1>3. PICK o \in Listed : o = fd[h]
  BY <1>2 DEF WriteInv, IInv, HandlesLive
<1>4. PICK f \in File : f = obj[o]
  BY ListFacts DEF WriteInv
<1>5. PICK chains \in Seq(Chain) : chains = f.chains
  BY DEF File
<1> DEFINE total == SectorsBefore(f.chains, Len(f.chains) + 1)
           at(c, s, n) == [file |-> o, chain |-> c, sector |-> s,
                           avail |-> f.secCount - n, off |-> off - n * SectorBytes,
                           len |-> len, newLen |-> off + len]
<1>6. PICK skip \in Nat : skip = off \div SectorBytes
  BY DivFacts
<1>7. \/ \E c \in DOMAIN f.chains : \E s \in ChainSectors(f.chains[c]) :
           /\ SectorsBefore(f.chains, c) + s - f.chains[c].start = skip
           /\ io' = at(c, s, skip)
      \/ \E c : io' = at(c, 0, total)
  BY <1>1, <1>3, <1>4, <1>6 DEF WriteStart
<1>8. total = f.secCount /\ f.secCount \in Nat
  BY <1>4 DEF WriteInv, ChainsMatchHeader, File
<1>. HIDE DEF total
<1>9. off - skip * SectorBytes \in Nat /\ off - skip * SectorBytes < SectorBytes
  <2>1. PICK b \in Nat : b = SectorBytes /\ 0 < b
    BY SizeAssumption
  <2>2. (off \div b) * b <= off /\ off < (off \div b) * b + b
    BY <2>1
  <2>3. skip * b <= off /\ off < skip * b + b /\ skip * b \in Nat
    BY <1>6, <2>1, <2>2
  <2>4. QED
    BY <2>1, <2>3
<1>10. ASSUME NEW c \in DOMAIN f.chains, NEW s \in ChainSectors(f.chains[c]),
              SectorsBefore(f.chains, c) + s - f.chains[c].start = skip,
              io' = at(c, s, skip)
       PROVE  WritePlace'
  <2>1. /\ io'.file = o /\ io'.chain = c /\ io'.sector = s /\ io'.avail = f.secCount - skip
        /\ io'.off = off - skip * SectorBytes /\ io'.len = len /\ io'.newLen = off + len
    BY <1>10
  <2>2. obj'[io'.file] = f
    BY <1>2, <1>4, <2>1
  <2>3. WriteIndex' = skip
    BY <1>10, <2>1, <2>2 DEF WriteIndex
  <2>4. io'.newLen - io'.len = WriteIndex' * SectorBytes + io'.off
    <3>1. PICK m \in Nat : m = skip * SectorBytes
      BY SizeAssumption
    <3>2. io'.newLen - io'.len = m + (off - m)
      BY <2>1, <3>1
    <3>3. QED
      BY <2>1, <2>3, <3>1, <3>2
  <2>5. io'.off < SectorBytes /\ io'.avail = f.secCount - WriteIndex'
    BY <1>9, <2>1, <2>3
  <2>6. io'.chain \in DOMAIN f.chains /\ io'.sector \in ChainSectors(f.chains[io'.chain])
    BY <2>1
  <2>7. QED
    BY <2>2, <2>4, <2>5, <2>6 DEF WritePlace
<1>11. ASSUME NEW c, io' = at(c, 0, total) PROVE WritePlace'
  <2>1. io'.avail = f.secCount - total
    BY <1>11
  <2>2. io'.avail = 0
    BY <1>8, <2>1
  <2>3. QED
    BY <2>2 DEF WritePlace
<1>12. QED
  BY <1>7, <1>10, <1>11

(* In every other step no write is in progress, or none within the file. *)
LEMMA OtherPlace ==
  ASSUME WriteInv,
         \/ \E n \in Names, h \in Handles : Create(n, h)
         \/ \E n \in Names, h \in Handles : Open(n, h)
         \/ \E h \in Handles : Release(h)
         \/ \E n \in Names : Unlink(n)
         \/ \E n, m \in Names : Rename(n, m)
         \/ \E n \in Names, a \in Attrs : SetXattr(n, a)
         \/ WriteExtend \/ WriteFull \/ WriteEnd \/ DiskWrite \/ UNCHANGED vars
  PROVE  WritePlace'
<1>1. CASE \/ \E n \in Names, h \in Handles : Create(n, h)
           \/ \E n \in Names, h \in Handles : Open(n, h)
           \/ \E h \in Handles : Release(h)
           \/ \E n \in Names : Unlink(n)
           \/ \E n, m \in Names : Rename(n, m)
           \/ \E n \in Names, a \in Attrs : SetXattr(n, a)
  <2>1. Idle /\ io' = io
    BY <1>1 DEF Create, Open, Release, Unlink, Rename, SetXattr
  <2>2. io'.len = 0
    BY <2>1, IdleFacts DEF WriteInv, IInv
  <2>3. QED
    BY <2>2 DEF WritePlace
<1>2. CASE WriteExtend
  <2>1. io \in IOType /\ io.avail = 0
    BY <1>2, StepFacts DEF WriteInv, WriteExtend
  <2>2. PICK rest : rest.avail = 0 /\ (io' = rest \/ io' = [rest EXCEPT !.chain = @ + 1])
                    /\ DOMAIN rest = {"file", "chain", "sector", "avail", "off", "len", "newLen"}
    <3>1. PICK s : \/ io' = [io EXCEPT !.off = 0, !.len = @ - StepBytes, !.sector = s + 1]
                   \/ io' = [[io EXCEPT !.off = 0, !.len = @ - StepBytes, !.sector = s + 1]
                             EXCEPT !.chain = @ + 1]
      BY <1>2 DEF WriteExtend
    <3>2. PICK rest : rest = [io EXCEPT !.off = 0, !.len = @ - StepBytes, !.sector = s + 1]
      OBVIOUS
    <3>3. /\ rest.avail = 0
          /\ DOMAIN rest = {"file", "chain", "sector", "avail", "off", "len", "newLen"}
      BY <2>1, <3>2 DEF IOType
    <3>4. QED
      BY <3>1, <3>2, <3>3
  <2>3. io'.avail = 0
    BY <2>2
  <2>4. QED
    BY <2>3 DEF WritePlace
<1>3. CASE WriteFull
  <2>1. io' = [io EXCEPT !.len = 0] /\ io \in IOType
    BY <1>3, StepFacts DEF WriteFull, WriteInv
  <2>2. io'.len = 0
    BY <2>1 DEF IOType
  <2>3. QED
    BY <2>2 DEF WritePlace
<1>4. CASE WriteEnd
  BY <1>4 DEF WriteEnd, NoIO, WritePlace
<1>5. CASE DiskWrite \/ UNCHANGED vars
  BY <1>5 DEF DiskWrite, vars, memory, WriteInv, WritePlace, WriteIndex
<1>6. QED
  BY <1>1, <1>2, <1>3, <1>4, <1>5

(* Every step keeps the chains, the place of the write and the order of    *)
(* the directory. *)
LEMMA WriteNext ==
  ASSUME MidSectorAppend = FALSE, WriteInv, DirectorySorted, [Next]_vars
  PROVE  WriteInv' /\ DirectorySorted'
<1> USE DEF WriteInv
<1>1. IInv'
  BY NextInv
<1>2. WritePlace'
  BY WriteStartPlace, WriteExistingPlace, OtherPlace DEF Next, Handler, WriteLoop
<1>3. CASE \E n \in Names, h \in Handles : Create(n, h)
  BY <1>1, <1>2, <1>3, CreateChains, CreateSorted
<1>4. CASE \E n, m \in Names : Rename(n, m)
  <2>1. ChainsMatchHeader'
    BY <1>4, RenameKeeps DEF ChainsMatchHeader
  <2>2. QED
    BY <1>1, <1>2, <1>4, <2>1, RenameSorted
<1>5. CASE WriteExtend
  BY <1>1, <1>2, <1>5, ExtendChains, ExtendSorted
<1>6. CASE \/ \E n \in Names, h \in Handles : Open(n, h)
           \/ \E h \in Handles : Release(h)
           \/ \E n \in Names : Unlink(n)
           \/ \E n \in Names, a \in Attrs : SetXattr(n, a)
           \/ \E h \in Handles, r \in Requests : WriteStart(h, r[1], r[2])
           \/ WriteExisting \/ WriteFull \/ WriteEnd \/ DiskWrite \/ UNCHANGED vars
  <2>1. Steady
    BY <1>6, SteadySteps
  <2>2. QED
    BY <1>1, <1>2, <2>1, SteadyChains, SteadySorted
<1>7. QED
  BY <1>3, <1>4, <1>5, <1>6 DEF Next, Handler, WriteLoop

LEMMA WriteInit == Init => WriteInv /\ DirectorySorted
<1> SUFFICES ASSUME Init PROVE WriteInv /\ DirectorySorted
  OBVIOUS
<1>1. IInv
  BY InitInv
<1>2. DOMAIN files = {} /\ Listed = {} /\ io.len = 0
  BY DEF Init, Listed, NoIO
<1>3. QED
  BY <1>1, <1>2 DEF WriteInv, ChainsMatchHeader, WritePlace, DirectorySorted

LEMMA SpecWriteInv ==
  ASSUME MidSectorAppend = FALSE
  PROVE  Spec => [](WriteInv /\ DirectorySorted)
<1>1. WriteInv /\ DirectorySorted /\ [Next]_vars => WriteInv' /\ DirectorySorted'
  BY WriteNext
<1>2. QED
  BY <1>1, WriteInit, PTL DEF Spec

(* The chains of every file hold as many sectors as its header counts:     *)
(* DiskFile::write adds each sector it allocates to both.                  *)
THEOREM HeadersCountSectors ==
  ASSUME MidSectorAppend = FALSE PROVE Spec => []ChainsMatchHeader
<1>1. WriteInv => ChainsMatchHeader
  BY DEF WriteInv
<1>2. QED
  BY <1>1, SpecWriteInv, PTL

(* Every sector DiskFile::write overwrites is the one that holds the byte  *)
(* the request has come to, across any number of chains.                   *)
THEOREM WritesLandInPlace ==
  ASSUME MidSectorAppend = FALSE PROVE Spec => []WriteLandsInPlace
  BY WriteLands, SpecWriteInv, PTL

(* The write loop never goes past the last of _chains: where it leaves a   *)
(* chain with sectors and bytes left, there is a next one.                 *)
THEOREM WritesStayInChains ==
  ASSUME MidSectorAppend = FALSE PROVE Spec => []NextChainExists
  BY ChainFollows, SpecWriteInv, PTL

(* The file list is in TI name order after every create, rename, unlink    *)
(* and late close.                                                         *)
THEOREM DirectoryStaysSorted ==
  ASSUME MidSectorAppend = FALSE PROVE Spec => []DirectorySorted
  BY SpecWriteInv, PTL

-----------------------------------------------------------------------------
(* The elements at some places of a list                                   *)

(* How many of the places I are at or before i. *)
Rank(I, i) == Cardinality({j \in I : j <= i})

LEMMA RankFacts ==
  ASSUME NEW n \in Nat, NEW I \in SUBSET (1 .. n)
  PROVE  /\ IsFiniteSet(I) /\ Cardinality(I) \in Nat
         /\ \A i \in I : Rank(I, i) \in 1 .. Cardinality(I)
         /\ \A i, j \in I : i < j => Rank(I, i) < Rank(I, j)
         /\ \A i, j \in I : Rank(I, i) = Rank(I, j) => i = j
         /\ \A k \in 1 .. Cardinality(I) : \E i \in I : Rank(I, i) = k
<1>1. IsFiniteSet(I) /\ Cardinality(I) \in Nat
  <2>1. IsFiniteSet(1 .. n)
    BY FS_Interval
  <2>2. QED
    BY <2>1, FS_Subset, FS_CardinalityType
<1> DEFINE upto(i) == {j \in I : j <= i}
<1>2. \A i : IsFiniteSet(upto(i)) /\ Cardinality(upto(i)) \in Nat
             /\ Cardinality(upto(i)) <= Cardinality(I)
  <2>1. \A i : upto(i) \in SUBSET I
    OBVIOUS
  <2>. HIDE DEF upto
  <2>2. QED
    BY <2>1, <1>1, FS_Subset, FS_CardinalityType
<1>3. ASSUME NEW i \in I PROVE Rank(I, i) \in 1 .. Cardinality(I)
  <2>1. i \in upto(i)
    OBVIOUS
  <2>. HIDE DEF upto
  <2>2. Cardinality(upto(i)) # 0
    BY <2>1, <1>2, FS_EmptySet
  <2>3. Rank(I, i) = Cardinality(upto(i))
    BY DEF Rank, upto
  <2>4. QED
    BY <1>1, <1>2, <2>2, <2>3
<1>4. ASSUME NEW i \in I, NEW j \in I, i < j PROVE Rank(I, i) < Rank(I, j)
  <2>1. upto(i) \in SUBSET upto(j) /\ upto(i) # upto(j)
    <3>1. j \in upto(j) /\ j \notin upto(i)
      BY <1>4
    <3>2. \A k \in I : k <= i => k <= j
      BY <1>4
    <3>3. QED
      BY <3>1, <3>2
  <2>. HIDE DEF upto
  <2>2. Cardinality(upto(i)) <= Cardinality(upto(j))
        /\ (Cardinality(upto(j)) = Cardinality(upto(i)) => upto(i) = upto(j))
    BY <2>1, <1>2, FS_Subset
  <2>3. QED
    BY <1>2, <2>1, <2>2 DEF Rank, upto
<1>5. \A i, j \in I : Rank(I, i) = Rank(I, j) => i = j
  <2> SUFFICES ASSUME NEW i \in I, NEW j \in I, i # j PROVE Rank(I, i) # Rank(I, j)
    OBVIOUS
  <2>1. i < j \/ j < i
    OBVIOUS
  <2>2. Rank(I, i) \in Nat /\ Rank(I, j) \in Nat
    BY <1>3
  <2>3. QED
    BY <1>4, <2>1, <2>2
<1>6. \A k \in 1 .. Cardinality(I) : \E i \in I : Rank(I, i) = k
  <2> DEFINE K == 1 .. Cardinality(I)
             rank == [i \in I |-> Rank(I, i)]
  <2>1. rank \in [I -> K] /\ \A i, j \in I : rank[i] = rank[j] => i = j
    BY <1>3, <1>5
  <2>2. IsFiniteSet(K) /\ Cardinality(K) = Cardinality(I)
    <3>1. PICK c \in Nat : c = Cardinality(I)
      BY <1>1
    <3>2. IsFiniteSet(1 .. c) /\ Cardinality(1 .. c) = IF 1 > c THEN 0 ELSE c - 1 + 1
      BY FS_Interval
    <3>3. Cardinality(1 .. c) = c
      BY <3>2
    <3>4. QED
      BY <3>1, <3>2, <3>3
  <2>. HIDE DEF K, rank
  <2>3. rank \in Injection(I, K)
    BY <2>1 DEF Injection, IsInjective
  <2>4. rank \in Surjection(I, K)
    BY <2>2, <2>3, FS_Injection
  <2>5. \A k \in K : \E i \in I : rank[i] = k
    BY <2>4 DEF Surjection
  <2>6. QED
    BY <2>5 DEF K, rank
<1>7. QED
  BY <1>1, <1>3, <1>4, <1>5, <1>6

(* Pick lists the elements at the places I, each once. *)
LEMMA PickFacts ==
  ASSUME NEW S, NEW s \in Seq(S), NEW I \in SUBSET DOMAIN s
  PROVE  /\ Pick(s, I) \in Seq(S)
         /\ Elems(Pick(s, I)) = {s[i] : i \in I}
         /\ NoRepeat(s) => NoRepeat(Pick(s, I))
         /\ \A k, l \in DOMAIN Pick(s, I) : k < l =>
              \E i, j \in I : i < j /\ Pick(s, I)[k] = s[i] /\ Pick(s, I)[l] = s[j]
<1>1. Len(s) \in Nat /\ DOMAIN s = 1 .. Len(s) /\ I \in SUBSET (1 .. Len(s))
  BY LenProperties
<1> DEFINE K == 1 .. Cardinality(I)
           place(k) == CHOOSE i \in I : Rank(I, i) = k
<1>2. \A k \in K : place(k) \in I /\ Rank(I, place(k)) = k
  BY <1>1, RankFacts
<1>3. \A i \in I : Rank(I, i) \in K /\ place(Rank(I, i)) = i
  <2>1. \A i \in I : Rank(I, i) \in K
    BY <1>1, RankFacts
  <2>2. \A i, j \in I : Rank(I, i) = Rank(I, j) => i = j
    BY <1>1, RankFacts
  <2>. HIDE DEF place
  <2>3. QED
    BY <2>1, <2>2, <1>2
<1>4. Pick(s, I) = [k \in K |-> s[place(k)]]
  BY DEF Pick, Rank
<1>. HIDE DEF place
<1>5. Pick(s, I) \in Seq(S) /\ DOMAIN Pick(s, I) = K
  <2>1. Cardinality(I) \in Nat
    BY <1>1, RankFacts
  <2>2. \A k \in K : s[place(k)] \in S
    BY <1>1, <1>2, ElementOfSeq
  <2>3. [k \in K |-> s[place(k)]] \in [K -> S]
    BY <2>2
  <2>4. [k \in K |-> s[place(k)]] \in Seq(S)
    BY <2>1, <2>3
  <2>5. QED
    BY <1>4, <2>4
<1>6. Elems(Pick(s, I)) = {s[i] : i \in I}
  BY <1>2, <1>3, <1>4 DEF Elems
<1>7. ASSUME NoRepeat(s) PROVE NoRepeat(Pick(s, I))
  BY <1>2, <1>3, <1>4, <1>5, <1>7 DEF NoRepeat
<1>8. ASSUME NEW k \in K, NEW l \in K, k < l PROVE place(k) < place(l)
  <2>1. \A i, j \in I : i < j => Rank(I, i) < Rank(I, j)
    BY <1>1, RankFacts
  <2>2. place(k) \in I /\ place(l) \in I /\ Rank(I, place(k)) = k /\ Rank(I, place(l)) = l
    BY <1>2
  <2>3. ~(place(l) < place(k)) /\ place(l) # place(k)
    BY <2>1, <2>2, <1>8
  <2>4. QED
    BY <1>1, <2>2, <2>3
<1>9. \A k, l \in DOMAIN Pick(s, I) : k < l =>
        \E i, j \in I : i < j /\ Pick(s, I)[k] = s[i] /\ Pick(s, I)[l] = s[j]
  BY <1>2, <1>4, <1>5, <1>8
<1>10. QED
  BY <1>5, <1>6, <1>7, <1>9

-----------------------------------------------------------------------------
(* Images                                                                  *)

(* The entry of a file is an entry, with the name of the file. *)
LEMMA EntTyped ==
  ASSUME NEW f \in File
  PROVE  EntOf(f) \in Dirent /\ EntOf(f) # NoEnt /\ EntOf(f).ti = f.ti
<1>1. /\ f.ti \in TINames /\ f.attr \in Attrs /\ f.secCount \in Nat /\ f.eof \in Nat
      /\ f.chains \in Seq(Chain)
  BY DEF File
<1>2. EncodeChains(f.chains) \in Seq(Nat \X Nat)
  <2>1. PICK n \in Nat : n = (IF Len(f.chains) < HdrChains THEN Len(f.chains) ELSE HdrChains)
                          /\ n <= Len(f.chains)
    BY <1>1, LenProperties, BoundAssumption
  <2>2. ASSUME NEW i \in 1 .. n
        PROVE  <<f.chains[i].start % 4096, (f.chains[i].end - f.chains[i].start) % 4096>>
                 \in Nat \X Nat
    <3>1. i \in DOMAIN f.chains
      BY <1>1, <2>1, LenProperties
    <3>2. PICK a \in Nat, b \in Nat : a = f.chains[i].start /\ b = f.chains[i].end
      BY <1>1, <3>1, ChainEnds
    <3>3. a % 4096 \in Nat /\ (b - a) % 4096 \in Nat
      OBVIOUS
    <3>4. QED
      BY <3>2, <3>3
  <2>3. EncodeChains(f.chains) =
          [i \in 1 .. n |->
             <<f.chains[i].start % 4096, (f.chains[i].end - f.chains[i].start) % 4096>>]
    BY <2>1 DEF EncodeChains
  <2>4. EncodeChains(f.chains) \in [1 .. n -> Nat \X Nat]
    BY <2>2, <2>3
  <2>5. QED
    BY <2>4
<1>3. EntOf(f) \in Dirent
  BY <1>1, <1>2 DEF EntOf, Dirent
<1>4. EntOf(f).ti = f.ti /\ f.ti # 0
  BY <1>1, NameAssumption DEF EntOf, TINames
<1>5. NoEnt.ti = 0
  BY DEF NoEnt
<1>6. QED
  BY <1>3, <1>4, <1>5

LEMMA PutEntFacts ==
  ASSUME NEW im \in Image, NEW f \in File
  PROVE  /\ PutEnt(im, f) \in Image
         /\ PutEnt(im, f).dir = im.dir /\ PutEnt(im, f).fat = im.fat
         /\ PutEnt(im, f).ent[f.dirSec] = EntOf(f)
         /\ \A d \in Sectors \ {f.dirSec} : PutEnt(im, f).ent[d] = im.ent[d]
<1>1. PICK e \in Dirent : e = EntOf(f)
  BY EntTyped
<1>2. PICK s \in Sectors : s = f.dirSec
  BY DEF File
<1>3. PutEnt(im, f) = [im EXCEPT !.ent[s] = e]
  BY <1>1, <1>2 DEF PutEnt
<1>4. PICK ent \in [Sectors -> Dirent \cup {NoEnt}] : ent = im.ent
  BY DEF Image
<1>5. PICK new \in [Sectors -> Dirent \cup {NoEnt}] : new = [ent EXCEPT ![s] = e]
  OBVIOUS
<1>6. PutEnt(im, f) = [im EXCEPT !.ent = new]
  BY <1>3, <1>4, <1>5
<1>7. /\ PutEnt(im, f) \in Image /\ PutEnt(im, f).ent = new
      /\ PutEnt(im, f).dir = im.dir /\ PutEnt(im, f).fat = im.fat
  BY <1>6 DEF Image
<1>8. new[s] = e /\ \A d \in Sectors \ {s} : new[d] = im.ent[d]
  BY <1>4, <1>5
<1>9. QED
  BY <1>1, <1>2, <1>7, <1>8

LEMMA PutFatFacts ==
  ASSUME NEW im \in Image, NEW dirty \in BOOLEAN, NEW sectors \in SUBSET Sectors
  PROVE  /\ PutFat(im, dirty, sectors) \in Image
         /\ PutFat(im, dirty, sectors).dir = im.dir
         /\ PutFat(im, dirty, sectors).ent = im.ent
         /\ PutFat(im, dirty, sectors).fat = IF dirty THEN sectors ELSE im.fat
<1>1. CASE dirty
  BY <1>1 DEF PutFat, Image
<1>2. CASE ~dirty
  BY <1>2 DEF PutFat
<1>3. QED
  BY <1>1, <1>2

LEMMA PutDirFacts ==
  ASSUME NEW im \in Image, NEW fs, NEW o, DirOf(fs, o) \in Seq(Sectors)
  PROVE  /\ PutDir(im, fs, o) \in Image
         /\ PutDir(im, fs, o).dir = DirOf(fs, o)
         /\ PutDir(im, fs, o).ent = im.ent /\ PutDir(im, fs, o).fat = im.fat
<1>1. PICK dir \in Seq(Sectors) : dir = DirOf(fs, o)
  OBVIOUS
<1>2. PutDir(im, fs, o) = [im EXCEPT !.dir = dir]
  BY <1>1 DEF PutDir
<1>3. QED
  BY <1>1, <1>2 DEF Image

LEMMA PutDataFacts ==
  ASSUME img \in Image, NEW s \in Sectors, PutData(s)
  PROVE  /\ img' \in Image /\ img'.dir = img.dir /\ img'.fat = img.fat
         /\ \A d \in Sectors \ {s} : img'.ent[d] = img.ent[d]
<1>1. PICK ent \in [Sectors -> Dirent \cup {NoEnt}] : ent = img.ent
  BY DEF Image
<1>2. PICK new \in [Sectors -> Dirent \cup {NoEnt}] : new = [ent EXCEPT ![s] = NoEnt]
  OBVIOUS
<1>3. img' = [img EXCEPT !.ent = new]
  BY <1>1, <1>2 DEF PutData
<1>4. img' \in Image /\ img'.ent = new /\ img'.dir = img.dir /\ img'.fat = img.fat
  BY <1>3 DEF Image
<1>5. \A d \in Sectors \ {s} : new[d] = img.ent[d]
  BY <1>1, <1>2
<1>6. QED
  BY <1>4, <1>5

(* The files of a list that updateDirectory writes. *)
LinkedIn(L, o) == {x \in L : ~o[x].unlinked}

(* The directory of a list of files holds their entries, each once. *)
LEMMA DirOfFacts ==
  ASSUME NEW fs \in Seq(Objs), NEW o, NoRepeat(fs),
         \A x \in Elems(fs) : o[x] \in File,
         \A x, y \in Elems(fs) : x # y => o[x].dirSec # o[y].dirSec
  PROVE  /\ DirOf(fs, o) \in Seq(Sectors)
         /\ Elems(DirOf(fs, o)) = {o[x].dirSec : x \in LinkedIn(Elems(fs), o)}
         /\ NoRepeat(DirOf(fs, o))
         /\ Sorted(fs, o) =>
              \A k, l \in DOMAIN DirOf(fs, o) : k < l =>
                \E x, y \in LinkedIn(Elems(fs), o) :
                  /\ DirOf(fs, o)[k] = o[x].dirSec /\ DirOf(fs, o)[l] = o[y].dirSec
                  /\ o[x].ti <= o[y].ti
<1> DEFINE I == {i \in DOMAIN fs : ~o[fs[i]].unlinked}
           linked == Linked(fs, o)
<1>1. /\ linked \in Seq(Objs) /\ Elems(linked) = {fs[i] : i \in I} /\ NoRepeat(linked)
  BY PickFacts DEF Linked
<1>0. \A k, l \in DOMAIN linked : k < l =>
        \E i, j \in I : i < j /\ linked[k] = fs[i] /\ linked[l] = fs[j]
  <2>1. I \in SUBSET DOMAIN fs /\ linked = Pick(fs, I)
    BY DEF Linked
  <2>. HIDE DEF I, linked
  <2>2. QED
    BY <2>1, PickFacts
<1>2. {fs[i] : i \in I} = LinkedIn(Elems(fs), o)
  BY DEF LinkedIn, Elems
<1>3. DirOf(fs, o) = [i \in DOMAIN linked |-> o[linked[i]].dirSec]
  BY DEF DirOf
<1>. HIDE DEF I, linked
<1>4. Len(linked) \in Nat /\ DOMAIN linked = 1 .. Len(linked)
  BY <1>1, LenProperties
<1>5. \A i \in DOMAIN linked : linked[i] \in Elems(fs)
  BY <1>1, <1>2 DEF Elems, LinkedIn
<1>6. DirOf(fs, o) \in Seq(Sectors)
  <2>1. \A i \in DOMAIN linked : o[linked[i]].dirSec \in Sectors
    BY <1>5 DEF File
  <2>2. DirOf(fs, o) \in [1 .. Len(linked) -> Sectors]
    BY <2>1, <1>3, <1>4
  <2>3. QED
    BY <2>2, <1>4
<1>7. Elems(DirOf(fs, o)) = {o[x].dirSec : x \in LinkedIn(Elems(fs), o)}
  <2>1. Elems(DirOf(fs, o)) = {o[linked[i]].dirSec : i \in DOMAIN linked}
    BY <1>3 DEF Elems
  <2>2. {o[linked[i]].dirSec : i \in DOMAIN linked} = {o[x].dirSec : x \in Elems(linked)}
    BY DEF Elems
  <2>3. Elems(linked) = LinkedIn(Elems(fs), o)
    BY <1>1, <1>2
  <2>4. QED
    BY <2>1, <2>2, <2>3
<1>8. NoRepeat(DirOf(fs, o))
  BY <1>1, <1>3, <1>5 DEF NoRepeat
<1>9. ASSUME Sorted(fs, o), NEW k \in DOMAIN linked, NEW l \in DOMAIN linked, k < l
      PROVE  \E x, y \in LinkedIn(Elems(fs), o) :
               /\ DirOf(fs, o)[k] = o[x].dirSec /\ DirOf(fs, o)[l] = o[y].dirSec
               /\ o[x].ti <= o[y].ti
  <2>1. PICK i \in I, j \in I : i < j /\ linked[k] = fs[i] /\ linked[l] = fs[j]
    BY <1>0, <1>9
  <2>2. linked[k] \in LinkedIn(Elems(fs), o) /\ linked[l] \in LinkedIn(Elems(fs), o)
    BY <1>2, <2>1
  <2>3. o[linked[k]].ti <= o[linked[l]].ti
    BY <1>9, <2>1 DEF Sorted, I
  <2>4. QED
    BY <1>3, <1>9, <2>2, <2>3
<1>10. DOMAIN DirOf(fs, o) = DOMAIN linked
  BY <1>3
<1>11. QED
  BY <1>6, <1>7, <1>8, <1>9, <1>10

(* The sectors the entry an image has for the file f accounts for. *)
Claims(im, f) == FileSectors(ReadDirEnt(f.dirSec, im.ent[f.dirSec]))

(* On a volume whose sector numbers fit in 12 bits, an entry accounts for  *)
(* sectors of its file only: those of the chains it can carry.             *)
LEMMA EntryClaims ==
  ASSUME SectorCount <= 4096, NEW f \in File, Ordered(f.chains)
  PROVE  FileSectors(ReadDirEnt(f.dirSec, EntOf(f))) \subseteq FileSectors(f)
<1> DEFINE enc == EncodeChains(f.chains)
           I == {i \in DOMAIN enc : enc[i] # <<0, 0>>}
           used == Pick(enc, I)
           g == ReadDirEnt(f.dirSec, EntOf(f))
<1>1. enc \in Seq(Nat \X Nat)
  BY EntTyped DEF EntOf, Dirent
<1>2. Elems(used) = {enc[i] : i \in I}
  <2>1. I \in SUBSET DOMAIN enc
    OBVIOUS
  <2>. HIDE DEF enc, I
  <2>2. QED
    BY <1>1, <2>1, PickFacts, SMTT(40)
<1>3. ASSUME NEW i \in DOMAIN enc
      PROVE  /\ i \in DOMAIN f.chains
             /\ enc[i] = <<f.chains[i].start, f.chains[i].end - f.chains[i].start>>
  <2>1. f.chains \in Seq(Chain) /\ Len(f.chains) \in Nat /\ DOMAIN f.chains = 1 .. Len(f.chains)
    BY LenProperties DEF File
  <2>2. /\ i \in 1 .. (IF Len(f.chains) < HdrChains THEN Len(f.chains) ELSE HdrChains)
        /\ enc[i] = <<f.chains[i].start % 4096,
                      (f.chains[i].end - f.chains[i].start) % 4096>>
    BY <1>3 DEF EncodeChains
  <2>3. i \in DOMAIN f.chains
    BY <2>1, <2>2, BoundAssumption
  <2>4. PICK a \in Nat, b \in Nat : /\ a = f.chains[i].start /\ b = f.chains[i].end
                                    /\ a < 4096 /\ b < 4096 /\ a <= b
    <3>1. f.chains[i] \in Chain
      BY <2>1, <2>3, ElementOfSeq
    <3>2. f.chains[i].start <= f.chains[i].end
      BY <2>3 DEF Ordered
    <3>3. f.chains[i].start \in 0 .. SectorCount - 1 /\ f.chains[i].end \in 0 .. SectorCount - 1
      BY <3>1 DEF Chain, Sectors
    <3>4. QED
      BY <3>2, <3>3, SizeAssumption
  <2>5. a % 4096 = a /\ (b - a) % 4096 = b - a
    <3>1. PICK c \in Nat : c = b - a /\ c < 4096
      BY <2>4
    <3>2. a % 4096 = a /\ c % 4096 = c
      BY <2>4, <3>1
    <3>3. QED
      BY <3>1, <3>2
  <2>6. QED
    BY <2>2, <2>3, <2>4, <2>5
<1>4. g.chains = [i \in DOMAIN used |-> [start |-> used[i][1], end |-> used[i][1] + used[i][2]]]
      /\ g.dirSec = f.dirSec
  BY DEF ReadDirEnt, EntOf, DecodeChains
<1>. HIDE DEF g, used, I, enc
<1>5. ASSUME NEW s \in DataSectors(g) PROVE s \in DataSectors(f)
  <2>1. PICK k \in DOMAIN used : s \in used[k][1] .. used[k][1] + used[k][2]
    BY <1>4 DEF DataSectors, ChainSectors
  <2>2. PICK i \in I : used[k] = enc[i]
    BY <1>2 DEF Elems
  <2>0. i \in DOMAIN enc
    BY DEF I
  <2>3. /\ i \in DOMAIN f.chains
        /\ enc[i] = <<f.chains[i].start, f.chains[i].end - f.chains[i].start>>
    BY <1>3, <2>0
  <2>4. PICK a \in Nat, b \in Nat : a = f.chains[i].start /\ b = f.chains[i].end
    BY <2>3, ChainEnds DEF File
  <2>5. s \in a .. a + (b - a)
    BY <2>1, <2>2, <2>3, <2>4
  <2>6. s \in ChainSectors(f.chains[i])
    BY <2>4, <2>5 DEF ChainSectors
  <2>7. QED
    BY <2>3, <2>6 DEF DataSectors
<1>6. FileSectors(g) \subseteq FileSectors(f)
  BY <1>4, <1>5 DEF FileSectors
<1>7. QED
  BY <1>6 DEF g

-----------------------------------------------------------------------------
(* What an image shows of a set L of files, the objects o                  *)

(* The entry an image has for the file f is that of memory. *)
Holds(im, f) == im.ent[f.dirSec] = EntOf(f)

(* It is an entry, with the name of the file and sectors of the file only. *)
Describes(im, f) ==
  /\ im.ent[f.dirSec] # NoEnt
  /\ im.ent[f.dirSec].ti = f.ti
  /\ SectorCount <= 4096 => Claims(im, f) \subseteq FileSectors(f)

(* Its directory has the entries of the files, each once. *)
Lists(im, L, o) == Elems(im.dir) = {o[x].dirSec : x \in L} /\ NoRepeat(im.dir)

Shows(im, L, o) == im \in Image /\ Lists(im, L, o) /\ \A x \in L : Describes(im, o[x])

(* Its bitmap has the sectors of the file. *)
Accounts(im, f) == SectorCount <= 4096 => Claims(im, f) \subseteq im.fat

(* Files as memory has them: no two share a sector. *)
Separate(L, o) ==
  /\ \A x \in L : o[x] \in File /\ Ordered(o[x].chains)
  /\ \A x, y \in L : x # y => FileSectors(o[x]) \cap FileSectors(o[y]) = {}

NamesOf(L, o) == {<<o[x].dirSec, o[x].ti>> : x \in L}

(* CrashExposesOneFile, of any image *)
ExposesOneFile(im) ==
  /\ \E i \in DOMAIN im.dir \cup {0} :
       \A j \in DOMAIN im.dir \ {i} : EntrySectors(im, j) \subseteq im.fat
  /\ \A i, j \in DOMAIN im.dir :
       i # j => EntrySectors(im, i) \cap EntrySectors(im, j) = {}

(* What an interrupted handler may leave. *)
Good(im) == Mountable(im) /\ (SectorCount <= 4096 => ExposesOneFile(im))

LEMMA HoldsDescribes ==
  ASSUME NEW im, NEW f \in File, Ordered(f.chains), Holds(im, f)
  PROVE  Describes(im, f)
<1>1. im.ent[f.dirSec] # NoEnt /\ im.ent[f.dirSec].ti = f.ti
  BY EntTyped DEF Holds
<1>2. ASSUME SectorCount <= 4096 PROVE Claims(im, f) \subseteq FileSectors(f)
  BY <1>2, EntryClaims DEF Claims, Holds
<1>3. QED
  BY <1>1, <1>2 DEF Describes

LEMMA ShowsNames ==
  ASSUME NEW im, NEW L, NEW o, Shows(im, L, o)
  PROVE  Mountable(im) /\ Entries(im) = NamesOf(L, o)
<1>1. Elems(im.dir) = {o[x].dirSec : x \in L}
  BY DEF Shows, Lists
<1>2. \A x \in L : im.ent[o[x].dirSec] # NoEnt /\ im.ent[o[x].dirSec].ti = o[x].ti
  BY DEF Shows, Describes
<1>3. \A i \in DOMAIN im.dir : \E x \in L : im.dir[i] = o[x].dirSec
  BY <1>1 DEF Elems
<1>4. \A x \in L : \E i \in DOMAIN im.dir : im.dir[i] = o[x].dirSec
  BY <1>1 DEF Elems
<1>5. Mountable(im)
  BY <1>2, <1>3 DEF Mountable
<1>6. Entries(im) = {<<im.dir[i], im.ent[im.dir[i]].ti>> : i \in DOMAIN im.dir}
  BY DEF Entries, View
<1>7. ASSUME NEW i \in DOMAIN im.dir
      PROVE  <<im.dir[i], im.ent[im.dir[i]].ti>> \in NamesOf(L, o)
  BY <1>2, <1>3 DEF NamesOf
<1>8. ASSUME NEW x \in L PROVE <<o[x].dirSec, o[x].ti>> \in Entries(im)
  BY <1>2, <1>4, <1>6
<1>9. QED
  BY <1>5, <1>6, <1>7, <1>8 DEF NamesOf

(* At most one file of the image, z, may lack sectors in its bitmap. *)
LEMMA ShowsGood ==
  ASSUME NEW im, NEW L, NEW o, NEW z, Shows(im, L, o), Separate(L, o),
         \A x \in L \ {z} : Accounts(im, o[x])
  PROVE  Good(im)
<1> SUFFICES ASSUME SectorCount <= 4096 PROVE ExposesOneFile(im)
  BY ShowsNames DEF Good
<1>1. \A i \in DOMAIN im.dir : \E x \in L :
        im.dir[i] = o[x].dirSec /\ EntrySectors(im, i) = Claims(im, o[x])
  BY DEF Shows, Lists, Elems, EntrySectors, Claims
<1>2. \A i, j \in DOMAIN im.dir : im.dir[i] = im.dir[j] => i = j
  BY DEF Shows, Lists, NoRepeat
<1>3. \A x \in L : Claims(im, o[x]) \subseteq FileSectors(o[x])
  BY DEF Shows, Describes
<1>4. ASSUME NEW i \in DOMAIN im.dir, NEW j \in DOMAIN im.dir, i # j
      PROVE  EntrySectors(im, i) \cap EntrySectors(im, j) = {}
  <2>1. PICK x \in L : im.dir[i] = o[x].dirSec /\ EntrySectors(im, i) = Claims(im, o[x])
    BY <1>1
  <2>2. PICK y \in L : im.dir[j] = o[y].dirSec /\ EntrySectors(im, j) = Claims(im, o[y])
    BY <1>1
  <2>3. x # y
    BY <1>2, <1>4, <2>1, <2>2
  <2>4. FileSectors(o[x]) \cap FileSectors(o[y]) = {}
    BY <2>3 DEF Separate
  <2>5. QED
    BY <1>3, <2>1, <2>2, <2>4
<1>5. PICK i \in DOMAIN im.dir \cup {0} :
        z \in L => i \in DOMAIN im.dir /\ im.dir[i] = o[z].dirSec
  <2>1. z \in L => \E i \in DOMAIN im.dir : im.dir[i] = o[z].dirSec
    BY DEF Shows, Lists, Elems
  <2>2. QED
    BY <2>1
<1>6. ASSUME NEW j \in DOMAIN im.dir \ {i} PROVE EntrySectors(im, j) \subseteq im.fat
  <2>1. PICK x \in L : im.dir[j] = o[x].dirSec /\ EntrySectors(im, j) = Claims(im, o[x])
    BY <1>1
  <2>2. x # z
    BY <1>2, <1>5, <1>6, <2>1
  <2>3. QED
    BY <2>1, <2>2 DEF Accounts
<1>7. QED
  BY <1>4, <1>6 DEF ExposesOneFile

(* A change elsewhere in the image. *)
LEMMA DescribesSame ==
  ASSUME NEW im, NEW jm, NEW f, jm.ent[f.dirSec] = im.ent[f.dirSec]
  PROVE  /\ Claims(jm, f) = Claims(im, f)
         /\ Describes(im, f) <=> Describes(jm, f)
<1>1. Claims(jm, f) = Claims(im, f)
  BY DEF Claims
<1>2. QED
  BY <1>1 DEF Describes

LEMMA ShowsSame ==
  ASSUME NEW im, NEW jm \in Image, NEW L, NEW o, Shows(im, L, o), jm.dir = im.dir,
         \A x \in L : jm.ent[o[x].dirSec] = im.ent[o[x].dirSec]
  PROVE  Shows(jm, L, o)
<1>1. \A x \in L : Describes(jm, o[x])
  BY DescribesSame DEF Shows
<1>2. QED
  BY <1>1 DEF Shows, Lists

(* The entry of the file z is written. *)
LEMMA ShowsPutEnt ==
  ASSUME NEW im, NEW L, NEW o, NEW q, NEW z, Shows(im, L, o),
         q[z] \in File, Ordered(q[z].chains),
         \A x \in L \ {z} : /\ q[x] = o[x] /\ o[x].dirSec \in Sectors
                            /\ o[x].dirSec # q[z].dirSec,
         z \in L => o[z].dirSec = q[z].dirSec
  PROVE  /\ Shows(PutEnt(im, q[z]), L, q)
         /\ Holds(PutEnt(im, q[z]), q[z])
         /\ \A x \in L \ {z} : PutEnt(im, q[z]).ent[o[x].dirSec] = im.ent[o[x].dirSec]
<1>1. im \in Image
  BY DEF Shows
<1> DEFINE jm == PutEnt(im, q[z])
<1>2. /\ jm \in Image /\ jm.dir = im.dir /\ jm.fat = im.fat
      /\ jm.ent[q[z].dirSec] = EntOf(q[z])
      /\ \A d \in Sectors \ {q[z].dirSec} : jm.ent[d] = im.ent[d]
  BY <1>1, PutEntFacts
<1>. HIDE DEF jm
<1>3. Holds(jm, q[z]) /\ Describes(jm, q[z])
  BY <1>2, HoldsDescribes DEF Holds
<1>4. \A x \in L \ {z} : jm.ent[o[x].dirSec] = im.ent[o[x].dirSec]
  BY <1>2
<1>5. \A x \in L \ {z} : Describes(jm, q[x])
  BY <1>4 DEF Shows, Describes, Claims
<1>6. \A x \in L : q[x].dirSec = o[x].dirSec
  OBVIOUS
<1>7. Lists(jm, L, q)
  BY <1>2, <1>6 DEF Shows, Lists
<1>8. Shows(jm, L, q)
  BY <1>2, <1>3, <1>5, <1>7 DEF Shows
<1>9. QED
  BY <1>3, <1>4, <1>8 DEF jm

(* The directory of the list fs is written. *)
LEMMA ShowsPutDir ==
  ASSUME NEW im \in Image, NEW fs \in Seq(Objs), NEW o, NoRepeat(fs),
         \A x \in Elems(fs) : o[x] \in File,
         \A x, y \in Elems(fs) : x # y => o[x].dirSec # o[y].dirSec,
         \A x \in LinkedIn(Elems(fs), o) : Describes(im, o[x])
  PROVE  Shows(PutDir(im, fs, o), LinkedIn(Elems(fs), o), o)
<1>1. /\ DirOf(fs, o) \in Seq(Sectors)
      /\ Elems(DirOf(fs, o)) = {o[x].dirSec : x \in LinkedIn(Elems(fs), o)}
      /\ NoRepeat(DirOf(fs, o))
  BY DirOfFacts
<1>2. /\ PutDir(im, fs, o) \in Image
      /\ PutDir(im, fs, o).dir = DirOf(fs, o) /\ PutDir(im, fs, o).ent = im.ent
  BY <1>1, PutDirFacts
<1>3. \A x \in LinkedIn(Elems(fs), o) : Describes(PutDir(im, fs, o), o[x])
  BY <1>2, DescribesSame
<1>4. QED
  BY <1>1, <1>2, <1>3 DEF Shows, Lists

(* The entries of the directory are in the order of their names. *)
InNameOrder(im) ==
  \A i, j \in DOMAIN im.dir : i < j => im.ent[im.dir[i]].ti <= im.ent[im.dir[j]].ti

LEMMA OrderPutDir ==
  ASSUME NEW im \in Image, NEW fs \in Seq(Objs), NEW o, NoRepeat(fs), Sorted(fs, o),
         \A x \in Elems(fs) : o[x] \in File,
         \A x, y \in Elems(fs) : x # y => o[x].dirSec # o[y].dirSec,
         \A x \in LinkedIn(Elems(fs), o) : Describes(im, o[x])
  PROVE  InNameOrder(PutDir(im, fs, o))
<1>1. /\ DirOf(fs, o) \in Seq(Sectors)
      /\ \A k, l \in DOMAIN DirOf(fs, o) : k < l =>
           \E x, y \in LinkedIn(Elems(fs), o) :
             /\ DirOf(fs, o)[k] = o[x].dirSec /\ DirOf(fs, o)[l] = o[y].dirSec
             /\ o[x].ti <= o[y].ti
  BY DirOfFacts
<1>2. /\ PutDir(im, fs, o).dir = DirOf(fs, o) /\ PutDir(im, fs, o).ent = im.ent
  BY <1>1, PutDirFacts
<1>3. \A x \in LinkedIn(Elems(fs), o) : im.ent[o[x].dirSec].ti = o[x].ti
  BY DEF Describes
<1>4. QED
  BY <1>1, <1>2, <1>3 DEF InNameOrder

LEMMA OrderSame ==
  ASSUME NEW im, NEW jm, NEW L, NEW o, NEW q, Shows(im, L, o), Shows(jm, L, q),
         InNameOrder(im), jm.dir = im.dir,
         \A x \in L : q[x].dirSec = o[x].dirSec /\ q[x].ti = o[x].ti
  PROVE  InNameOrder(jm)
<1>1. \A i \in DOMAIN im.dir : \E x \in L : im.dir[i] = o[x].dirSec
  BY DEF Shows, Lists, Elems
<1>2. \A x \in L : im.ent[o[x].dirSec].ti = jm.ent[o[x].dirSec].ti
  BY DEF Shows, Describes
<1>3. \A i \in DOMAIN im.dir : im.ent[im.dir[i]].ti = jm.ent[im.dir[i]].ti
  BY <1>1, <1>2
<1>4. QED
  BY <1>3 DEF InNameOrder

-----------------------------------------------------------------------------
(* What a handler leaves, of any files and images                          *)

(* Memory: the files of the list fs own their sectors, of those allocated. *)
Sound(fs, o, F) ==
  /\ fs \in Seq(Objs) /\ NoRepeat(fs)
  /\ F \in SUBSET Sectors
  /\ \A x \in Elems(fs) : o[x] \in File /\ Ordered(o[x].chains) /\ FileSectors(o[x]) \subseteq F
  /\ \A x, y \in Elems(fs) : x # y => FileSectors(o[x]) \cap FileSectors(o[y]) = {}

(* The image im has what memory has, but for the entry of the file w and,  *)
(* if dirty, the bitmap. *)
Settled(im, fs, o, F, dirty, w) ==
  LET L == LinkedIn(Elems(fs), o)
  IN  /\ Shows(im, L, o)
      /\ \A x \in L : (x # w => Holds(im, o[x])) /\ Accounts(im, o[x])
      /\ dirty \/ im.fat = F
      /\ InNameOrder(im)

(* Each of the images s has the names of the one before or of the last. *)
InStep(im, s) ==
  \A i \in DOMAIN s :
    /\ Entries(s[i]) \in {Entries(im), Entries(Last(s))}
    /\ \A j \in DOMAIN s : i < j => Entries(s[j]) \in {Entries(s[i]), Entries(Last(s))}

(* The writes s of a handler take the image im to the new memory. *)
Outcome(im, s, fs, o, F) ==
  /\ s \in Seq(Image) /\ s # <<>>
  /\ \A i \in DOMAIN s : Good(s[i])
  /\ InStep(im, s)
  /\ Settled(Last(s), fs, o, F, FALSE, 0)

LEMMA SoundFacts ==
  ASSUME NEW fs, NEW o, NEW F, Sound(fs, o, F)
  PROVE  /\ \A L : L \subseteq Elems(fs) => Separate(L, o)
         /\ \A x \in Elems(fs) : o[x].dirSec \in Sectors /\ o[x].dirSec \in F
         /\ \A x, y \in Elems(fs) : x # y => o[x].dirSec # o[y].dirSec
         /\ LinkedIn(Elems(fs), o) \subseteq Elems(fs)
<1>1. \A x \in Elems(fs) : o[x].dirSec \in FileSectors(o[x])
  BY DEF FileSectors
<1>2. \A L : L \subseteq Elems(fs) => Separate(L, o)
  BY DEF Sound, Separate
<1>3. \A x \in Elems(fs) : o[x].dirSec \in Sectors /\ o[x].dirSec \in F
  BY <1>1 DEF Sound
<1>4. \A x, y \in Elems(fs) : x # y => o[x].dirSec # o[y].dirSec
  BY <1>1 DEF Sound
<1>5. QED
  BY <1>2, <1>3, <1>4 DEF LinkedIn

LEMMA FinalImage ==
  ASSUME NEW im, NEW fs, NEW o, NEW F, Sound(fs, o, F),
         Shows(im, LinkedIn(Elems(fs), o), o),
         \A x \in LinkedIn(Elems(fs), o) : Holds(im, o[x]),
         im.fat = F, InNameOrder(im)
  PROVE  Settled(im, fs, o, F, FALSE, 0) /\ Good(im)
<1> DEFINE L == LinkedIn(Elems(fs), o)
<1>1. Separate(L, o) /\ L \subseteq Elems(fs)
  BY SoundFacts
<1>2. \A x \in L : Accounts(im, o[x])
  BY <1>1 DEF Shows, Describes, Accounts, Sound
<1>3. Good(im)
  BY <1>1, <1>2, ShowsGood
<1>4. QED
  BY <1>2, <1>3 DEF Settled

LEMMA OutcomeOfTwo ==
  ASSUME NEW im, NEW a \in Image, NEW b \in Image, NEW fs, NEW o, NEW F,
         Good(a), Good(b), Settled(b, fs, o, F, FALSE, 0),
         Entries(a) \in {Entries(im), Entries(b)}
  PROVE  Outcome(im, <<a, b>>, fs, o, F)
<1> DEFINE s == <<a, b>>
<1>1. s \in Seq(Image) /\ s # <<>> /\ DOMAIN s = 1 .. 2 /\ s[1] = a /\ s[2] = b /\ Last(s) = b
  BY DEF Last
<1>. HIDE DEF s
<1>2. \A i \in DOMAIN s : i = 1 \/ i = 2
  BY <1>1
<1>3. InStep(im, s)
  BY <1>1, <1>2 DEF InStep
<1>4. \A i \in DOMAIN s : Good(s[i])
  BY <1>1, <1>2
<1>5. Outcome(im, s, fs, o, F)
  BY <1>1, <1>3, <1>4 DEF Outcome
<1>6. QED
  BY <1>5 DEF s

LEMMA OutcomeOfThree ==
  ASSUME NEW im, NEW a \in Image, NEW b \in Image, NEW c \in Image, NEW fs, NEW o, NEW F,
         Good(a), Good(b), Good(c), Settled(c, fs, o, F, FALSE, 0),
         Entries(a) \in {Entries(im), Entries(c)},
         Entries(b) \in {Entries(im), Entries(c)},
         Entries(b) \in {Entries(a), Entries(c)}
  PROVE  Outcome(im, <<a, b, c>>, fs, o, F)
<1> DEFINE s == <<a, b, c>>
<1>1. /\ s \in Seq(Image) /\ s # <<>> /\ DOMAIN s = 1 .. 3
      /\ s[1] = a /\ s[2] = b /\ s[3] = c /\ Last(s) = c
  BY DEF Last
<1>. HIDE DEF s
<1>2. \A i \in DOMAIN s : i = 1 \/ i = 2 \/ i = 3
  BY <1>1
<1>3. InStep(im, s)
  BY <1>1, <1>2 DEF InStep
<1>4. \A i \in DOMAIN s : Good(s[i])
  BY <1>1, <1>2
<1>5. Outcome(im, s, fs, o, F)
  BY <1>1, <1>3, <1>4 DEF Outcome
<1>6. QED
  BY <1>5 DEF s

(* The bitmap is written: nothing else of the image changes. *)
LEMMA ShowsPutFat ==
  ASSUME NEW im, NEW L, NEW o, Shows(im, L, o), NEW dirty \in BOOLEAN, NEW F \in SUBSET Sectors
  PROVE  /\ Shows(PutFat(im, dirty, F), L, o)
         /\ \A x \in L : /\ Claims(PutFat(im, dirty, F), o[x]) = Claims(im, o[x])
                         /\ Holds(im, o[x]) => Holds(PutFat(im, dirty, F), o[x])
         /\ InNameOrder(im) => InNameOrder(PutFat(im, dirty, F))
<1>1. im \in Image
  BY DEF Shows
<1>2. /\ PutFat(im, dirty, F) \in Image
      /\ PutFat(im, dirty, F).dir = im.dir /\ PutFat(im, dirty, F).ent = im.ent
  BY <1>1, PutFatFacts
<1>3. Shows(PutFat(im, dirty, F), L, o)
  BY <1>2, ShowsSame
<1>4. QED
  BY <1>2, <1>3 DEF Claims, Holds, InNameOrder

(* sync of a file whose header changed, but not its name *)
LEMMA UpdateOutcome ==
  ASSUME NEW fs, NEW o, NEW q, NEW F, Sound(fs, o, F), Sound(fs, q, F),
         NEW dirty \in BOOLEAN, NEW im, NEW w, Settled(im, fs, o, F, dirty, w),
         NEW z \in Elems(fs), \A x \in Elems(fs) \ {z} : q[x] = o[x] /\ x # w,
         q[z].ti = o[z].ti, q[z].dirSec = o[z].dirSec, q[z].unlinked = o[z].unlinked
  PROVE  LET i1 == PutEnt(im, q[z])
         IN Outcome(im, <<i1, PutFat(i1, dirty, F)>>, fs, q, F)
<1> DEFINE L == LinkedIn(Elems(fs), o)
           i1 == PutEnt(im, q[z])
           i2 == PutFat(i1, dirty, F)
<1>1. L = LinkedIn(Elems(fs), q) /\ L \subseteq Elems(fs)
  BY DEF LinkedIn
<1>2. /\ Shows(im, L, o) /\ InNameOrder(im) /\ (dirty \/ im.fat = F)
      /\ \A x \in L \ {z} : Holds(im, o[x]) /\ Accounts(im, o[x])
  BY <1>1 DEF Settled
<1>3. im \in Image /\ F \in SUBSET Sectors /\ q[z] \in File /\ Ordered(q[z].chains)
  BY <1>2 DEF Shows, Sound
<1>4. /\ Shows(i1, L, q) /\ Holds(i1, q[z])
      /\ \A x \in L \ {z} : i1.ent[o[x].dirSec] = im.ent[o[x].dirSec]
  <2>1. \A x \in L \ {z} : /\ q[x] = o[x] /\ o[x].dirSec \in Sectors
                           /\ o[x].dirSec # q[z].dirSec
    BY <1>1, SoundFacts
  <2>. HIDE DEF L
  <2>2. QED
    BY <1>2, <1>3, <2>1, ShowsPutEnt
<1>5. /\ i1 \in Image /\ i1.dir = im.dir /\ i1.fat = im.fat
  BY <1>3, PutEntFacts
<1>. HIDE DEF i1
<1>6. /\ i2 \in Image /\ i2.fat = F
  BY <1>2, <1>3, <1>5, PutFatFacts
<1>7. \A x \in L : Holds(i1, q[x])
  BY <1>1, <1>2, <1>4 DEF Holds
<1>8. \A x \in L \ {z} : Accounts(i1, q[x])
  BY <1>1, <1>2, <1>4, <1>5 DEF Accounts, Claims
<1>9. InNameOrder(i1)
  <2>1. \A x \in L : q[x].dirSec = o[x].dirSec /\ q[x].ti = o[x].ti
    BY <1>1
  <2>2. QED
    BY <2>1, <1>2, <1>4, <1>5, OrderSame
<1>10. Separate(L, q)
  BY <1>1, SoundFacts
<1>11. Good(i1)
  BY <1>4, <1>8, <1>10, ShowsGood
<1>12. /\ Shows(i2, L, q) /\ \A x \in L : Holds(i2, q[x])
       /\ InNameOrder(i2)
  BY <1>3, <1>4, <1>7, <1>9, ShowsPutFat
<1>. HIDE DEF i2
<1>13. Settled(i2, fs, q, F, FALSE, 0) /\ Good(i2)
  BY <1>1, <1>6, <1>12, FinalImage
<1>14. Entries(i1) = Entries(i2)
  BY <1>4, <1>12, ShowsNames
<1>15. Outcome(im, <<i1, i2>>, fs, q, F)
  BY <1>5, <1>6, <1>11, <1>13, <1>14, OutcomeOfTwo
<1>16. QED
  BY <1>15 DEF i1, i2

(* The directory of the new memory is written last. *)
LEMMA DirectoryLast ==
  ASSUME NEW gs, NEW q, NEW G, Sound(gs, q, G), Sorted(gs, q), NEW im \in Image,
         \A x \in LinkedIn(Elems(gs), q) : Holds(im, q[x])
  PROVE  /\ PutDir(im, gs, q) \in Image /\ PutDir(im, gs, q).fat = im.fat
         /\ Shows(PutDir(im, gs, q), LinkedIn(Elems(gs), q), q)
         /\ InNameOrder(PutDir(im, gs, q))
         /\ \A f : /\ Holds(im, f) => Holds(PutDir(im, gs, q), f)
                   /\ Claims(PutDir(im, gs, q), f) = Claims(im, f)
<1>1. gs \in Seq(Objs) /\ NoRepeat(gs) /\ \A x \in Elems(gs) : q[x] \in File
  BY DEF Sound
<1>2. \A x, y \in Elems(gs) : x # y => q[x].dirSec # q[y].dirSec
  BY SoundFacts
<1>3. \A x \in LinkedIn(Elems(gs), q) : Describes(im, q[x])
  BY HoldsDescribes DEF Sound, LinkedIn
<1>4. /\ Shows(PutDir(im, gs, q), LinkedIn(Elems(gs), q), q)
      /\ InNameOrder(PutDir(im, gs, q))
  BY <1>1, <1>2, <1>3, ShowsPutDir, OrderPutDir
<1>5. DirOf(gs, q) \in Seq(Sectors)
  BY <1>1, <1>2, DirOfFacts
<1>6. /\ PutDir(im, gs, q) \in Image /\ PutDir(im, gs, q).fat = im.fat
      /\ PutDir(im, gs, q).ent = im.ent
  BY <1>5, PutDirFacts
<1>7. QED
  BY <1>4, <1>6 DEF Holds, Claims

LEMMA CreateOutcome ==
  ASSUME NEW fs, NEW o, NEW F, Sound(fs, o, F),
         NEW gs, NEW q, NEW G, Sound(gs, q, G), Sorted(gs, q), F \subseteq G,
         NEW dirty, NEW im, NEW w, Settled(im, fs, o, F, dirty, w), w \notin Elems(fs),
         NEW z, z \notin Elems(fs), Elems(gs) = Elems(fs) \cup {z},
         \A x \in Elems(fs) : q[x] = o[x],
         ~q[z].unlinked, q[z].dirSec \notin F
  PROVE  LET i1 == PutEnt(im, q[z])
             i2 == PutFat(i1, TRUE, G)
         IN Outcome(im, <<i1, i2, PutDir(i2, gs, q)>>, gs, q, G)
<1> DEFINE L == LinkedIn(Elems(fs), o)
           i1 == PutEnt(im, q[z])
           i2 == PutFat(i1, TRUE, G)
           i3 == PutDir(i2, gs, q)
<1>1. /\ LinkedIn(Elems(gs), q) = L \cup {z} /\ L \subseteq Elems(fs) /\ L \subseteq Elems(gs)
      /\ z \notin L /\ \A x \in L : q[x] = o[x]
  BY DEF LinkedIn
<1>2. /\ Shows(im, L, o) /\ InNameOrder(im)
      /\ \A x \in L : Holds(im, o[x]) /\ Accounts(im, o[x])
  BY <1>1 DEF Settled
<1>3. im \in Image /\ G \in SUBSET Sectors /\ q[z] \in File /\ Ordered(q[z].chains)
  BY <1>2 DEF Shows, Sound
<1>. HIDE DEF L
<1>4. /\ Shows(i1, L, q) /\ Holds(i1, q[z])
      /\ \A x \in L : i1.ent[o[x].dirSec] = im.ent[o[x].dirSec]
  <2>1. \A x \in L \ {z} : /\ q[x] = o[x] /\ o[x].dirSec \in Sectors
                           /\ o[x].dirSec # q[z].dirSec
    BY <1>1, SoundFacts
  <2>2. QED
    BY <1>1, <1>2, <1>3, <2>1, ShowsPutEnt
<1>5. i1 \in Image /\ i1.fat = im.fat
  BY <1>3, PutEntFacts
<1>. HIDE DEF i1
<1>6. \A x \in L : Holds(i1, q[x]) /\ Accounts(i1, q[x])
  BY <1>1, <1>2, <1>4, <1>5 DEF Holds, Accounts, Claims
<1>7. Separate(L, q)
  BY <1>1, SoundFacts
<1>8. Good(i1)
  BY <1>4, <1>6, <1>7, ShowsGood
<1>9. /\ i2 \in Image /\ i2.fat = G /\ i2.ent = i1.ent
  BY <1>3, <1>5, PutFatFacts
<1>10. Shows(i2, L, q)
  BY <1>3, <1>4, ShowsPutFat
<1>11. \A x \in L \cup {z} : Holds(i2, q[x])
  BY <1>4, <1>6, <1>9 DEF Holds
<1>. HIDE DEF i2
<1>12. \A x \in L : Accounts(i2, q[x])
  BY <1>1, <1>9, <1>10, SMTT(40) DEF Shows, Describes, Accounts, Sound
<1>13. Good(i2)
  BY <1>7, <1>10, <1>12, ShowsGood
<1>14. /\ i3 \in Image /\ i3.fat = G /\ InNameOrder(i3)
       /\ Shows(i3, LinkedIn(Elems(gs), q), q)
       /\ \A x \in LinkedIn(Elems(gs), q) : Holds(i3, q[x])
  BY <1>1, <1>9, <1>11, DirectoryLast
<1>. HIDE DEF i3
<1>15. Settled(i3, gs, q, G, FALSE, 0) /\ Good(i3)
  BY <1>14, FinalImage
<1>16. Entries(i1) = Entries(im) /\ Entries(i2) = Entries(im)
  <2>1. NamesOf(L, o) = NamesOf(L, q)
    BY <1>1 DEF NamesOf
  <2>2. QED
    BY <2>1, <1>2, <1>4, <1>10, ShowsNames
<1>17. Outcome(im, <<i1, i2, i3>>, gs, q, G)
  BY <1>5, <1>8, <1>9, <1>13, <1>14, <1>15, <1>16, OutcomeOfThree
<1>18. QED
  BY <1>17 DEF i1, i2, i3

(* A renamed file keeps its sectors; its entry is written before the       *)
(* directory, before or after the bitmap.                                  *)
LEMMA RenameOutcome ==
  ASSUME NEW fs, NEW o, NEW F, Sound(fs, o, F),
         NEW gs, NEW q, Sound(gs, q, F), Sorted(gs, q),
         NEW dirty \in BOOLEAN, NEW im, NEW w, Settled(im, fs, o, F, dirty, w),
         w \notin Elems(fs),
         NEW z \in Elems(fs), Elems(gs) = Elems(fs),
         \A x \in Elems(fs) \ {z} : q[x] = o[x],
         q[z].dirSec = o[z].dirSec, q[z].unlinked = o[z].unlinked
  PROVE  /\ LET i1 == PutEnt(im, q[z])
                i2 == PutFat(i1, dirty, F)
            IN Outcome(im, <<i1, i2, PutDir(i2, gs, q)>>, gs, q, F)
         /\ LET i1 == PutFat(im, dirty, F)
                i2 == PutEnt(i1, q[z])
            IN Outcome(im, <<i1, i2, PutDir(i2, gs, q)>>, gs, q, F)
<1> DEFINE L == LinkedIn(Elems(fs), o)
<1>1. L = LinkedIn(Elems(gs), q) /\ L \subseteq Elems(fs) /\ L \subseteq Elems(gs)
  BY DEF LinkedIn
<1>2. /\ Shows(im, L, o) /\ InNameOrder(im) /\ (dirty \/ im.fat = F)
      /\ \A x \in L : Holds(im, o[x]) /\ Accounts(im, o[x])
  BY <1>1 DEF Settled
<1>3. im \in Image /\ F \in SUBSET Sectors /\ q[z] \in File /\ Ordered(q[z].chains)
  BY <1>2 DEF Shows, Sound
<1>. HIDE DEF L
<1>4. \A x \in L \ {z} : /\ q[x] = o[x] /\ o[x].dirSec \in Sectors
                         /\ o[x].dirSec # q[z].dirSec
  BY <1>1, SoundFacts
<1>5. Separate(L, q) /\ Separate(L, o)
  BY <1>1, SoundFacts
<1>6. ASSUME NEW i0, Shows(i0, L, o), \A x \in L : Holds(i0, o[x])
      PROVE  LET i1 == PutEnt(i0, q[z])
             IN  /\ i1 \in Image /\ i1.fat = i0.fat /\ Shows(i1, L, q)
                 /\ \A x \in L : Holds(i1, q[x])
                 /\ \A x \in L \ {z} : Claims(i1, q[x]) = Claims(i0, o[x])
  <2> DEFINE i1 == PutEnt(i0, q[z])
  <2>0. Shows(i0, L, o) /\ o[z].dirSec = q[z].dirSec
    BY <1>6
  <2>1. /\ Shows(i1, L, q) /\ Holds(i1, q[z])
        /\ \A x \in L \ {z} : i1.ent[o[x].dirSec] = i0.ent[o[x].dirSec]
    <3>1. /\ Shows(PutEnt(i0, q[z]), L, q)
          /\ Holds(PutEnt(i0, q[z]), q[z])
          /\ \A x \in L \ {z} : PutEnt(i0, q[z]).ent[o[x].dirSec] = i0.ent[o[x].dirSec]
      BY <1>3, <1>4, <2>0, ShowsPutEnt, SMTT(40)
    <3>2. QED
      BY <3>1
  <2>2. i0 \in Image
    BY <1>6 DEF Shows
  <2>3. i1 \in Image /\ i1.fat = i0.fat
    BY <1>3, <2>2, PutEntFacts
  <2>. HIDE DEF i1
  <2>4. \A x \in L : Holds(i1, q[x])
    BY <1>4, <1>6, <2>1 DEF Holds
  <2>5. \A x \in L \ {z} : Claims(i1, q[x]) = Claims(i0, o[x])
    BY <1>4, <2>1 DEF Claims
  <2>6. QED
    BY <2>1, <2>3, <2>4, <2>5 DEF i1
<1>7. ASSUME NEW im2 \in Image, im2.fat = F, Shows(im2, L, q), \A x \in L : Holds(im2, q[x])
      PROVE  /\ PutDir(im2, gs, q) \in Image
             /\ Settled(PutDir(im2, gs, q), gs, q, F, FALSE, 0) /\ Good(PutDir(im2, gs, q))
             /\ Entries(PutDir(im2, gs, q)) = NamesOf(L, q)
  <2> DEFINE i3 == PutDir(im2, gs, q)
  <2>1. /\ i3 \in Image /\ i3.fat = F /\ InNameOrder(i3)
        /\ Shows(i3, LinkedIn(Elems(gs), q), q)
        /\ \A x \in LinkedIn(Elems(gs), q) : Holds(i3, q[x])
    BY <1>1, <1>7, DirectoryLast
  <2>. HIDE DEF i3
  <2>2. Settled(i3, gs, q, F, FALSE, 0) /\ Good(i3)
    BY <2>1, FinalImage
  <2>3. Entries(i3) = NamesOf(L, q)
    BY <1>1, <2>1, ShowsNames
  <2>4. QED
    BY <2>1, <2>2, <2>3 DEF i3
<1>8. ASSUME NEW im2, im2.fat = F, Shows(im2, L, q) PROVE Good(im2)
  <2>1. \A x \in L : Accounts(im2, q[x])
    BY <1>1, <1>8, SMTT(40) DEF Shows, Describes, Accounts, Sound
  <2>2. QED
    BY <1>5, <1>8, <2>1, ShowsGood
<1>9. Entries(im) = NamesOf(L, o)
  BY <1>2, ShowsNames
<1>10. LET i1 == PutEnt(im, q[z])
           i2 == PutFat(i1, dirty, F)
       IN Outcome(im, <<i1, i2, PutDir(i2, gs, q)>>, gs, q, F)
  <2> DEFINE i1 == PutEnt(im, q[z])
             i2 == PutFat(i1, dirty, F)
             i3 == PutDir(i2, gs, q)
  <2>1. /\ i1 \in Image /\ i1.fat = im.fat /\ Shows(i1, L, q)
        /\ \A x \in L : Holds(i1, q[x])
        /\ \A x \in L \ {z} : Claims(i1, q[x]) = Claims(im, o[x])
    BY <1>2, <1>6
  <2>. HIDE DEF i1
  <2>2. Good(i1)
    <3>1. \A x \in L \ {z} : Accounts(i1, q[x])
      BY <1>2, <2>1 DEF Accounts
    <3>2. QED
      BY <1>5, <2>1, <3>1, ShowsGood
  <2>3. i2 \in Image /\ i2.fat = F
    BY <1>2, <1>3, <2>1, PutFatFacts
  <2>4. Shows(i2, L, q) /\ \A x \in L : Holds(i2, q[x])
    BY <1>3, <2>1, ShowsPutFat
  <2>. HIDE DEF i2
  <2>5. Good(i2)
    BY <1>8, <2>3, <2>4
  <2>6. /\ i3 \in Image /\ Settled(i3, gs, q, F, FALSE, 0) /\ Good(i3)
        /\ Entries(i3) = NamesOf(L, q)
    BY <1>7, <2>3, <2>4
  <2>. HIDE DEF i3
  <2>7. Entries(i1) = Entries(i3) /\ Entries(i2) = Entries(i3)
    BY <2>1, <2>4, <2>6, ShowsNames
  <2>8. Outcome(im, <<i1, i2, i3>>, gs, q, F)
    BY <2>1, <2>2, <2>3, <2>5, <2>6, <2>7, OutcomeOfThree
  <2>9. QED
    BY <2>8 DEF i1, i2, i3
<1>11. LET i1 == PutFat(im, dirty, F)
           i2 == PutEnt(i1, q[z])
       IN Outcome(im, <<i1, i2, PutDir(i2, gs, q)>>, gs, q, F)
  <2> DEFINE i1 == PutFat(im, dirty, F)
             i2 == PutEnt(i1, q[z])
             i3 == PutDir(i2, gs, q)
  <2>1. i1 \in Image /\ i1.fat = F
    BY <1>2, <1>3, PutFatFacts
  <2>2. Shows(i1, L, o) /\ \A x \in L : Holds(i1, o[x])
    BY <1>2, <1>3, ShowsPutFat
  <2>. HIDE DEF i1
  <2>3. Good(i1)
    <3>1. \A x \in L : Accounts(i1, o[x])
      BY <1>1, <2>1, <2>2 DEF Shows, Describes, Accounts, Sound
    <3>2. QED
      BY <1>5, <2>2, <3>1, ShowsGood
  <2>4. i2 \in Image /\ i2.fat = F /\ Shows(i2, L, q) /\ \A x \in L : Holds(i2, q[x])
    BY <1>6, <2>1, <2>2
  <2>. HIDE DEF i2
  <2>5. Good(i2)
    BY <1>8, <2>4
  <2>6. /\ i3 \in Image /\ Settled(i3, gs, q, F, FALSE, 0) /\ Good(i3)
        /\ Entries(i3) = NamesOf(L, q)
    BY <1>7, <2>4
  <2>. HIDE DEF i3
  <2>7. Entries(i1) = Entries(im) /\ Entries(i2) = Entries(i3)
    BY <1>9, <2>2, <2>4, <2>6, ShowsNames
  <2>8. Outcome(im, <<i1, i2, i3>>, gs, q, F)
    BY <2>1, <2>3, <2>4, <2>5, <2>6, <2>7, OutcomeOfThree
  <2>9. QED
    BY <2>8 DEF i1, i2, i3
<1>12. QED
  BY <1>10, <1>11

(* The file z leaves the directory, and memory or only the directory. *)
LEMMA UnlinkOutcome ==
  ASSUME NEW fs, NEW o, NEW F, Sound(fs, o, F),
         NEW gs, NEW q, NEW G, Sound(gs, q, G), Sorted(gs, q),
         NEW dirty \in BOOLEAN, NEW d \in BOOLEAN, d \/ (~dirty /\ G = F),
         NEW im, NEW w, Settled(im, fs, o, F, dirty, w), w \notin Elems(fs),
         NEW z \in Elems(fs),
         LinkedIn(Elems(gs), q) = LinkedIn(Elems(fs), o) \ {z},
         \A x \in Elems(fs) \ {z} : q[x] = o[x]
  PROVE  /\ LET i1 == PutFat(im, d, G)
            IN Outcome(im, <<i1, PutDir(i1, gs, q)>>, gs, q, G)
         /\ LET i1 == PutDir(im, gs, q)
            IN Outcome(im, <<i1, PutFat(i1, d, G)>>, gs, q, G)
<1> DEFINE L == LinkedIn(Elems(fs), o)
           M == LinkedIn(Elems(gs), q)
<1>1. /\ L \subseteq Elems(fs) /\ M \subseteq Elems(gs) /\ M = L \ {z}
      /\ \A x \in M : q[x] = o[x]
  BY DEF LinkedIn
<1>2. /\ Shows(im, L, o) /\ (d \/ im.fat = G)
      /\ \A x \in L : Holds(im, o[x]) /\ Accounts(im, o[x])
  BY <1>1 DEF Settled
<1>3. im \in Image /\ G \in SUBSET Sectors
  BY <1>2 DEF Shows, Sound
<1>4. Separate(L, o) /\ Separate(M, q)
  BY <1>1, SoundFacts
<1>. HIDE DEF L, M
<1>5. LET i1 == PutFat(im, d, G) IN Outcome(im, <<i1, PutDir(i1, gs, q)>>, gs, q, G)
  <2> DEFINE i1 == PutFat(im, d, G)
             i2 == PutDir(i1, gs, q)
  <2>1. i1 \in Image /\ i1.fat = G
    BY <1>2, <1>3, PutFatFacts
  <2>2. Shows(i1, L, o) /\ \A x \in L : Holds(i1, o[x])
    BY <1>2, <1>3, ShowsPutFat
  <2>. HIDE DEF i1
  <2>3. Good(i1)
    <3>1. \A x \in L \ {z} : FileSectors(o[x]) \subseteq G
      BY <1>1 DEF Sound
    <3>2. \A x \in L \ {z} : Accounts(i1, o[x])
      BY <2>1, <2>2, <3>1 DEF Shows, Describes, Accounts
    <3>3. QED
      BY <1>4, <2>2, <3>2, ShowsGood
  <2>4. \A x \in M : Holds(i1, q[x])
    BY <1>1, <2>2
  <2>5. /\ i2 \in Image /\ i2.fat = G /\ InNameOrder(i2)
        /\ Shows(i2, M, q) /\ \A x \in M : Holds(i2, q[x])
    BY <2>1, <2>4, DirectoryLast, SMTT(40) DEF M
  <2>. HIDE DEF i2
  <2>6. Settled(i2, gs, q, G, FALSE, 0) /\ Good(i2)
    BY <2>5, FinalImage DEF M
  <2>7. Entries(i1) = Entries(im)
    BY <1>2, <2>2, ShowsNames
  <2>8. Outcome(im, <<i1, i2>>, gs, q, G)
    BY <2>1, <2>3, <2>5, <2>6, <2>7, OutcomeOfTwo
  <2>9. QED
    BY <2>8 DEF i1, i2
<1>6. LET i1 == PutDir(im, gs, q) IN Outcome(im, <<i1, PutFat(i1, d, G)>>, gs, q, G)
  <2> DEFINE i1 == PutDir(im, gs, q)
             i2 == PutFat(i1, d, G)
  <2>1. \A x \in M : Holds(im, q[x])
    BY <1>1, <1>2
  <2>2. /\ i1 \in Image /\ i1.fat = im.fat /\ InNameOrder(i1)
        /\ Shows(i1, M, q)
        /\ \A x \in M : Holds(i1, q[x]) /\ Claims(i1, q[x]) = Claims(im, q[x])
    BY <1>3, <2>1, DirectoryLast, SMTT(40) DEF M
  <2>. HIDE DEF i1
  <2>3. Good(i1)
    <3>1. \A x \in M : Accounts(i1, q[x])
      BY <1>1, <1>2, <2>2 DEF Accounts
    <3>2. QED
      BY <1>4, <2>2, <3>1, ShowsGood
  <2>4. i2 \in Image /\ i2.fat = G
    BY <1>2, <1>3, <2>2, PutFatFacts
  <2>5. Shows(i2, M, q) /\ InNameOrder(i2) /\ \A x \in M : Holds(i2, q[x])
    BY <1>3, <2>2, ShowsPutFat
  <2>. HIDE DEF i2
  <2>6. Settled(i2, gs, q, G, FALSE, 0) /\ Good(i2)
    BY <2>4, <2>5, FinalImage DEF M
  <2>7. Entries(i1) = Entries(i2)
    BY <2>2, <2>5, ShowsNames
  <2>8. Outcome(im, <<i1, i2>>, gs, q, G)
    BY <2>2, <2>3, <2>4, <2>6, <2>7, OutcomeOfTwo
  <2>9. QED
    BY <2>8 DEF i1, i2
<1>7. QED
  BY <1>5, <1>6

(* Memory and image change, but what the entries of the linked files say,  *)
(* of all but the file v, does not. *)
Unsaid(im, fs, o, F, d, w, jm, gs, q, G, e, v) ==
  LET L == LinkedIn(Elems(fs), o)
  IN  /\ jm \in Image /\ jm.dir = im.dir /\ jm.fat = im.fat
      /\ LinkedIn(Elems(gs), q) = L
      /\ \A x \in L : /\ jm.ent[o[x].dirSec] = im.ent[o[x].dirSec]
                      /\ q[x].dirSec = o[x].dirSec /\ q[x].ti = o[x].ti
                      /\ FileSectors(o[x]) \subseteq FileSectors(q[x])
                      /\ x # v => x # w /\ EntOf(q[x]) = EntOf(o[x])
      /\ e \/ (~d /\ G = F)

LEMMA SettledStays ==
  ASSUME NEW fs, NEW o, NEW F, NEW d, NEW w, NEW im, Settled(im, fs, o, F, d, w),
         NEW gs, NEW q, NEW G, NEW e, NEW v, NEW jm, Sound(gs, q, G),
         Unsaid(im, fs, o, F, d, w, jm, gs, q, G, e, v)
  PROVE  Settled(jm, gs, q, G, e, v) /\ Good(jm)
<1> DEFINE L == LinkedIn(Elems(fs), o)
<1>0. /\ jm \in Image /\ jm.dir = im.dir /\ jm.fat = im.fat
      /\ LinkedIn(Elems(gs), q) = L
      /\ \A x \in L : /\ jm.ent[o[x].dirSec] = im.ent[o[x].dirSec]
                      /\ q[x].dirSec = o[x].dirSec /\ q[x].ti = o[x].ti
                      /\ FileSectors(o[x]) \subseteq FileSectors(q[x])
                      /\ x # v => x # w /\ EntOf(q[x]) = EntOf(o[x])
      /\ e \/ (~d /\ G = F)
  BY DEF Unsaid
<1>. USE <1>0
<1>1. /\ Shows(im, L, o) /\ InNameOrder(im) /\ (d \/ im.fat = F)
      /\ \A x \in L : (x # w => Holds(im, o[x])) /\ Accounts(im, o[x])
  BY DEF Settled
<1>2. \A x \in L : Claims(jm, q[x]) = Claims(im, o[x])
  BY DEF Claims
<1>3. \A x \in L : Describes(im, o[x])
  BY <1>1 DEF Shows
<1>4. \A x \in L : Describes(jm, q[x])
  <2> SUFFICES ASSUME NEW x \in L PROVE Describes(jm, q[x])
    OBVIOUS
  <2>1. jm.ent[q[x].dirSec] = im.ent[o[x].dirSec] /\ q[x].ti = o[x].ti
    OBVIOUS
  <2>2. Claims(im, o[x]) \subseteq FileSectors(o[x]) => Claims(jm, q[x]) \subseteq FileSectors(q[x])
    BY <1>2
  <2>3. QED
    BY <1>3, <2>1, <2>2 DEF Describes
<1>5. {q[x].dirSec : x \in L} = {o[x].dirSec : x \in L}
  OBVIOUS
<1>6. Shows(jm, L, q)
  BY <1>1, <1>4, <1>5 DEF Shows, Lists
<1>7. \A x \in L : (x # v => Holds(jm, q[x])) /\ Accounts(jm, q[x])
  BY <1>1, <1>2 DEF Holds, Accounts
<1>8. InNameOrder(jm)
  BY <1>1, <1>6, OrderSame
<1>9. Separate(L, q)
  BY SoundFacts
<1>. HIDE DEF L
<1>10. Good(jm)
  BY <1>6, <1>7, <1>9, ShowsGood
<1>11. QED
  BY <1>1, <1>6, <1>7, <1>8, <1>10 DEF Settled, L

-----------------------------------------------------------------------------
(* The invariant of the image file                                         *)

LinkedFiles == {x \in Listed : ~obj[x].unlinked}

LastImage == IF pend = <<>> THEN img ELSE Last(pend)

ImageInv ==
  /\ img \in Image /\ pend \in Seq(Image)
  /\ pend # <<>> => io = NoIO
  /\ Settled(LastImage, files, obj, fat, fatDirty, io.file)
  /\ Good(img) /\ \A i \in DOMAIN pend : Good(pend[i])
  /\ InStep(img, pend)

LEMMA SoundNow == ASSUME IInv PROVE Sound(files, obj, fat)
<1>1. files \in Seq(Objs) /\ NoRepeat(files) /\ Listed = Elems(files)
      /\ \A x \in Listed : obj[x] \in File
  BY ListFacts
<1>2. \A x \in Listed : Ordered(obj[x].chains)
  BY DEF IInv, ChainsOrdered, Ordered
<1>3. QED
  BY <1>1, <1>2 DEF Sound, IInv, MemoryTypeOK, OwnedSectors

LEMMA SoundNext == ASSUME IInv' PROVE Sound(files', obj', fat')
<1>1. /\ files' \in Seq(Objs) /\ \A i \in DOMAIN files' : obj'[files'[i]] \in File
      /\ fat' \in SUBSET Sectors
  BY DEF IInv, MemoryTypeOK
<1>2. NoRepeat(files') /\ Listed' = Elems(files')
  BY DEF IInv, HandlesLive, NoRepeat, Listed, Elems
<1>3. \A x \in Listed' : obj'[x] \in File
  BY <1>1, <1>2 DEF Elems
<1>4. \A x \in Listed' : Ordered(obj'[x].chains)
  BY DEF IInv, ChainsOrdered, Ordered
<1>5. /\ \A x \in Listed' : FileSectors(obj'[x]) \subseteq fat'
      /\ \A x, y \in Listed' : x # y => FileSectors(obj'[x]) \cap FileSectors(obj'[y]) = {}
  BY DEF IInv, OwnedSectors
<1>6. QED
  BY <1>1, <1>2, <1>3, <1>4, <1>5 DEF Sound

LEMMA LinkedIsIn ==
  /\ LinkedFiles = LinkedIn(Elems(files), obj)
  /\ LinkedFiles' = LinkedIn(Elems(files'), obj')
  BY ListedIsElems DEF LinkedFiles, LinkedIn

(* No object is the 0 that stands for no file. *)
LEMMA ListedNotZero == ASSUME IInv PROVE 0 \notin Elems(files)
  BY ListFacts, BoundAssumption DEF Objs

(* A handler has started its writes. *)
LEMMA AfterHandler ==
  ASSUME ImageInv, pend = <<>>, Outcome(img, pend', files', obj', fat'),
         img' = img, io' = NoIO, fatDirty' = FALSE
  PROVE  ImageInv'
<1>1. /\ pend' \in Seq(Image) /\ pend' # <<>>
      /\ \A i \in DOMAIN pend' : Good(pend'[i])
      /\ InStep(img', pend')
      /\ Settled(Last(pend'), files', obj', fat', FALSE, 0)
  BY DEF Outcome
<1>2. LastImage' = Last(pend') /\ io'.file = 0
  BY <1>1 DEF LastImage, NoIO
<1>3. Settled(LastImage', files', obj', fat', fatDirty', io'.file)
  BY <1>1, <1>2
<1>4. QED
  BY <1>1, <1>3 DEF ImageInv

(* A step that leaves the image file to later writes. *)
LEMMA AfterMemory ==
  ASSUME ImageInv, IInv', UNCHANGED disk, pend' # <<>> => io' = NoIO,
         LinkedFiles' = LinkedFiles,
         \A x \in LinkedFiles : /\ obj'[x].dirSec = obj[x].dirSec /\ obj'[x].ti = obj[x].ti
                                /\ FileSectors(obj[x]) \subseteq FileSectors(obj'[x])
                                /\ EntOf(obj'[x]) = EntOf(obj[x])
                                /\ x # io'.file => x # io.file,
         fatDirty' \/ (~fatDirty /\ fat' = fat)
  PROVE  ImageInv'
<1>1. Sound(files', obj', fat')
  BY SoundNext
<1>2. img' = img /\ pend' = pend /\ LastImage' = LastImage
  BY DEF disk, LastImage
<1>3. LastImage \in Image
  BY DEF ImageInv, Settled, Shows
<1> DEFINE im == LastImage
           L == LinkedFiles
<1>4. Settled(im, files, obj, fat, fatDirty, io.file)
  BY DEF ImageInv
<1>5. L = LinkedIn(Elems(files), obj) /\ L = LinkedIn(Elems(files'), obj')
  BY LinkedIsIn
<1>. HIDE DEF im, L
<1>6. PICK fs, o, F, d, w : fs = files /\ o = obj /\ F = fat /\ d = fatDirty /\ w = io.file
  OBVIOUS
<1>7. PICK gs, q, G, e, v : gs = files' /\ q = obj' /\ G = fat' /\ e = fatDirty' /\ v = io'.file
  OBVIOUS
<1>8. Unsaid(im, fs, o, F, d, w, im, gs, q, G, e, v)
  BY <1>3, <1>5, <1>6, <1>7 DEF im, L, Unsaid
<1>9. Settled(im, gs, q, G, e, v)
  BY <1>1, <1>4, <1>6, <1>7, <1>8, SettledStays
<1>10. Settled(LastImage', files', obj', fat', fatDirty', io'.file)
  BY <1>2, <1>7, <1>9 DEF im
<1>11. QED
  BY <1>2, <1>10 DEF ImageInv

(* The write loop puts data in the sector s. *)
LEMMA AfterData ==
  ASSUME ImageInv, IInv', pend = <<>>, pend' = pend, NEW s \in Sectors, PutData(s),
         LinkedFiles' = LinkedFiles, io'.file = io.file,
         \A x \in LinkedFiles : /\ obj[x].dirSec \in Sectors \ {s}
                                /\ obj'[x].dirSec = obj[x].dirSec /\ obj'[x].ti = obj[x].ti
                                /\ FileSectors(obj[x]) \subseteq FileSectors(obj'[x])
                                /\ x # io.file => obj'[x] = obj[x],
         fatDirty' \/ (~fatDirty /\ fat' = fat)
  PROVE  ImageInv'
<1>1. Sound(files', obj', fat')
  BY SoundNext
<1>2. LastImage = img /\ LastImage' = img'
  BY DEF LastImage
<1>3. img \in Image
  BY DEF ImageInv
<1>4. Settled(img, files, obj, fat, fatDirty, io.file)
  BY <1>2 DEF ImageInv
<1>5. /\ img' \in Image /\ img'.dir = img.dir /\ img'.fat = img.fat
      /\ \A d \in Sectors \ {s} : img'.ent[d] = img.ent[d]
  BY <1>3, PutDataFacts
<1> DEFINE L == LinkedFiles
<1>6. L = LinkedIn(Elems(files), obj) /\ L = LinkedIn(Elems(files'), obj')
  BY LinkedIsIn
<1>. HIDE DEF L
<1>7. PICK im, fs, o, F, d, w :
        im = img /\ fs = files /\ o = obj /\ F = fat /\ d = fatDirty /\ w = io.file
  OBVIOUS
<1>8. PICK jm, gs, q, G, e, v :
        jm = img' /\ gs = files' /\ q = obj' /\ G = fat' /\ e = fatDirty' /\ v = io'.file
  OBVIOUS
<1>9. \A x \in L : /\ jm.ent[o[x].dirSec] = im.ent[o[x].dirSec]
                   /\ q[x].dirSec = o[x].dirSec /\ q[x].ti = o[x].ti
                   /\ FileSectors(o[x]) \subseteq FileSectors(q[x])
                   /\ x # v => x # w /\ EntOf(q[x]) = EntOf(o[x])
  BY <1>5, <1>7, <1>8 DEF L
<1>10. Unsaid(im, fs, o, F, d, w, jm, gs, q, G, e, v)
  BY <1>5, <1>6, <1>7, <1>8, <1>9 DEF Unsaid
<1>11. Settled(jm, gs, q, G, e, v) /\ Good(jm)
  BY <1>1, <1>4, <1>7, <1>8, <1>10, SettledStays
<1>12. Settled(LastImage', files', obj', fat', fatDirty', io'.file) /\ Good(img')
  BY <1>2, <1>8, <1>11
<1>13. InStep(img', pend') /\ pend' \in Seq(Image) /\ DOMAIN pend' = {}
  BY DEF InStep, ImageInv
<1>14. QED
  BY <1>5, <1>12, <1>13 DEF ImageInv

-----------------------------------------------------------------------------
(* Steps that write nothing, and the writes themselves                     *)

(* Fields of an open file that its entry does not show. *)
LEMMA ImageUpdate ==
  ASSUME IInv, IInv', ImageInv, NEW o \in Listed, NEW g,
         obj' = [obj EXCEPT ![o] = g],
         EntOf(g) = EntOf(obj[o]), FileSectors(g) = FileSectors(obj[o]),
         g.ti = obj[o].ti, g.dirSec = obj[o].dirSec, g.unlinked = obj[o].unlinked,
         UNCHANGED <<fat, fatDirty, files, io, disk>>
  PROVE  ImageInv'
<1>1. Listed \subseteq Objs /\ Listed' = Listed
  BY ListFacts DEF Listed
<1>2. \A x \in Listed : obj'[x] = IF x = o THEN g ELSE obj[x]
  BY <1>1 DEF IInv, MemoryTypeOK
<1>3. LinkedFiles' = LinkedFiles
  BY <1>1, <1>2 DEF LinkedFiles
<1>4. \A x \in LinkedFiles : /\ obj'[x].dirSec = obj[x].dirSec /\ obj'[x].ti = obj[x].ti
                             /\ FileSectors(obj[x]) \subseteq FileSectors(obj'[x])
                             /\ EntOf(obj'[x]) = EntOf(obj[x])
                             /\ x # io'.file => x # io.file
  BY <1>2 DEF LinkedFiles
<1>5. pend' # <<>> => io' = NoIO
  BY DEF ImageInv, disk
<1>6. fatDirty' \/ (~fatDirty /\ fat' = fat)
  OBVIOUS
<1>7. UNCHANGED disk
  OBVIOUS
<1>8. QED
  BY <1>3, <1>4, <1>5, <1>6, <1>7, AfterMemory

(* Only the reference count of a file changes. *)
LEMMA RefShowsSame ==
  ASSUME NEW f \in File, NEW r \in Int
  PROVE  LET g == [f EXCEPT !.ref = r]
         IN  /\ EntOf(g) = EntOf(f) /\ FileSectors(g) = FileSectors(f)
             /\ g.ti = f.ti /\ g.dirSec = f.dirSec /\ g.unlinked = f.unlinked
<1>1. PICK g : g = [f EXCEPT !.ref = r]
  OBVIOUS
<1>2. /\ g.ti = f.ti /\ g.dirSec = f.dirSec /\ g.unlinked = f.unlinked
      /\ g.attr = f.attr /\ g.chains = f.chains /\ g.secCount = f.secCount /\ g.eof = f.eof
  BY <1>1 DEF File
<1>3. EntOf(g) = EntOf(f) /\ FileSectors(g) = FileSectors(f)
  BY <1>2 DEF EntOf, FileSectors, DataSectors
<1>4. QED
  BY <1>1, <1>2, <1>3

LEMMA OpenImage ==
  ASSUME IInv, IInv', ImageInv, NEW n \in Names, NEW h \in Handles, Open(n, h)
  PROVE  ImageInv'
<1>1. PICK o \in Listed : obj' = [obj EXCEPT ![o] = [obj[o] EXCEPT !.ref = @ + 1]]
  BY DEF Open, Listed
<1>2. PICK f \in File : f = obj[o]
  BY ListFacts
<1>3. PICK r \in Int : r = f.ref + 1
  BY DEF File
<1>4. PICK g : g = [f EXCEPT !.ref = r]
  OBVIOUS
<1>5. obj' = [obj EXCEPT ![o] = g]
  BY <1>1, <1>2, <1>3, <1>4
<1>6. /\ EntOf(g) = EntOf(obj[o]) /\ FileSectors(g) = FileSectors(obj[o])
      /\ g.ti = obj[o].ti /\ g.dirSec = obj[o].dirSec /\ g.unlinked = obj[o].unlinked
  BY <1>2, <1>4, RefShowsSame
<1>7. UNCHANGED <<fat, fatDirty, files, io, disk>>
  BY DEF Open
<1>8. QED
  BY <1>5, <1>6, <1>7, ImageUpdate

LEMMA ReleaseImage ==
  ASSUME IInv, IInv', ImageInv, NEW h \in Handles, Release(h)
  PROVE  ImageInv'
<1>1. PICK o \in Listed : o = fd[h]
  BY DEF Release, IInv, HandlesLive
<1>2. Idle /\ io' = io /\ UNCHANGED disk
  BY DEF Release
<1>3. ASSUME NEW i \in DOMAIN files, files[i] = o, DeleteAt(i), obj[o].unlinked, fatDirty' = TRUE
      PROVE  ImageInv'
  <2>1. Listed' = Listed \ {o} /\ \A p \in Listed' : obj'[p] = obj[p]
    BY <1>3, DeleteInv
  <2>2. LinkedFiles' = LinkedFiles /\ \A x \in LinkedFiles : obj'[x] = obj[x]
    BY <2>1, <1>3 DEF LinkedFiles
  <2>3. io' = NoIO
    BY <1>2 DEF Idle
  <2>4. QED
    BY <1>2, <1>3, <2>2, <2>3, AfterMemory
<1>4. ASSUME obj' = [obj EXCEPT ![o].ref = @ - 1], UNCHANGED <<fat, fatDirty, files>>
      PROVE  ImageInv'
  <2>1. obj' = [obj EXCEPT ![o] = [obj[o] EXCEPT !.ref = @ - 1]]
    BY <1>4
  <2>2. PICK f \in File : f = obj[o]
    BY ListFacts
  <2>3. PICK r \in Int : r = f.ref - 1
    BY DEF File
  <2>4. PICK g : g = [f EXCEPT !.ref = r]
    OBVIOUS
  <2>5. obj' = [obj EXCEPT ![o] = g]
    BY <2>1, <2>2, <2>3, <2>4
  <2>6. /\ EntOf(g) = EntOf(obj[o]) /\ FileSectors(g) = FileSectors(obj[o])
        /\ g.ti = obj[o].ti /\ g.dirSec = obj[o].dirSec /\ g.unlinked = obj[o].unlinked
    BY <2>2, <2>4, RefShowsSame
  <2>7. UNCHANGED <<fat, fatDirty, files, io, disk>>
    BY <1>2, <1>4
  <2>8. QED
    BY <2>5, <2>6, <2>7, ImageUpdate
<1>5. \/ obj[o].unlinked /\ (\E i \in DOMAIN files : files[i] = o /\ DeleteAt(i)) /\ fatDirty' = TRUE
      \/ obj' = [obj EXCEPT ![o].ref = @ - 1] /\ UNCHANGED <<fat, fatDirty, files>>
  BY <1>1 DEF Release
<1>6. QED
  BY <1>3, <1>4, <1>5

(* Steps that change neither the files nor the image. *)
LEMMA SameFilesImage ==
  ASSUME IInv, IInv', ImageInv, UNCHANGED <<fat, fatDirty, files, obj, disk>>,
         pend' # <<>> => io' = NoIO, io'.file = io.file \/ io.file = 0
  PROVE  ImageInv'
<1>1. LinkedFiles' = LinkedFiles
  BY DEF LinkedFiles, Listed
<1>2. \A x \in LinkedFiles : x # 0
  BY ListFacts DEF LinkedFiles, Objs
<1>3. \A x \in LinkedFiles : x # io'.file => x # io.file
  BY <1>2
<1>4. fatDirty' \/ (~fatDirty /\ fat' = fat)
  OBVIOUS
<1>5. UNCHANGED disk
  OBVIOUS
<1>6. \A x \in LinkedFiles : /\ obj'[x].dirSec = obj[x].dirSec /\ obj'[x].ti = obj[x].ti
                             /\ FileSectors(obj[x]) \subseteq FileSectors(obj'[x])
                             /\ EntOf(obj'[x]) = EntOf(obj[x])
                             /\ x # io'.file => x # io.file
  BY <1>3
<1>7. QED
  BY <1>1, <1>4, <1>5, <1>6, AfterMemory

LEMMA WriteStartImage ==
  ASSUME IInv, IInv', ImageInv, NEW h \in Handles, NEW r \in Requests,
         WriteStart(h, r[1], r[2])
  PROVE  ImageInv'
<1>1. Idle /\ UNCHANGED <<fat, fatDirty, files, obj, disk>>
  BY DEF WriteStart
<1>2. io.file = 0 /\ pend' = <<>>
  BY <1>1 DEF Idle, NoIO, disk
<1>3. QED
  BY <1>1, <1>2, SameFilesImage

LEMMA WriteFullImage ==
  ASSUME IInv, IInv', ImageInv, WriteFull
  PROVE  ImageInv'
<1>1. UNCHANGED <<fat, fatDirty, files, obj, disk>> /\ io.len # 0
  BY DEF WriteFull
<1>2. pend' = <<>>
  BY <1>1 DEF ImageInv, NoIO, disk
<1>3. io'.file = io.file
  BY DEF WriteFull, IInv, MemoryTypeOK
<1>4. QED
  BY <1>1, <1>2, <1>3, SameFilesImage

LEMMA StutterImage ==
  ASSUME IInv, IInv', ImageInv, UNCHANGED vars
  PROVE  ImageInv'
<1>1. UNCHANGED <<fat, fatDirty, files, obj, disk>> /\ io' = io
  BY DEF vars, memory
<1>2. pend' # <<>> => io' = NoIO
  BY <1>1 DEF ImageInv, disk
<1>3. QED
  BY <1>1, <1>2, SameFilesImage

(* The images still to come, without the first. *)
LEMMA TailImages ==
  ASSUME NEW s \in Seq(Image), s # <<>>, NEW im, InStep(im, s),
         \A i \in DOMAIN s : Good(s[i])
  PROVE  /\ Head(s) \in Image /\ Tail(s) \in Seq(Image)
         /\ Good(Head(s)) /\ \A i \in DOMAIN Tail(s) : Good(Tail(s)[i])
         /\ InStep(Head(s), Tail(s))
         /\ Last(s) = IF Tail(s) = <<>> THEN Head(s) ELSE Last(Tail(s))
<1>1. PICK n \in Nat : n = Len(s) /\ DOMAIN s = 1 .. n /\ n >= 1
  BY LenProperties
<1>2. PICK t \in Seq(Image) : t = Tail(s)
  BY HeadTailProperties
<1>3. Len(t) = n - 1 /\ DOMAIN t = 1 .. n - 1 /\ \A i \in 1 .. n - 1 : t[i] = s[i + 1]
  BY <1>1, <1>2, HeadTailProperties
<1>4. Head(s) = s[1] /\ 1 \in DOMAIN s /\ Head(s) \in Image
  BY <1>1
<1>5. \A i \in DOMAIN t : i + 1 \in DOMAIN s /\ t[i] = s[i + 1]
  BY <1>1, <1>3
<1>6. \A i \in DOMAIN t : Good(t[i])
  BY <1>5
<1>7. Last(s) = s[n]
  BY <1>1 DEF Last
<1>8. CASE t = <<>>
  <2>1. n = 1
    BY <1>3, <1>8
  <2>2. InStep(Head(s), t)
    BY <1>3, <2>1 DEF InStep
  <2>3. QED
    BY <1>2, <1>4, <1>6, <1>7, <1>8, <2>1, <2>2
<1>9. CASE t # <<>>
  <2>1. n - 1 \in 1 .. n - 1
    BY <1>1, <1>2, <1>3, <1>9
  <2>2. Last(t) = Last(s)
    BY <1>1, <1>3, <1>7, <2>1 DEF Last
  <2>3. ASSUME NEW i \in DOMAIN t
        PROVE  /\ Entries(t[i]) \in {Entries(Head(s)), Entries(Last(s))}
               /\ \A j \in DOMAIN t : i < j =>
                    Entries(t[j]) \in {Entries(t[i]), Entries(Last(s))}
    <3>1. i + 1 \in DOMAIN s /\ t[i] = s[i + 1] /\ 1 < i + 1
      BY <1>3, <1>5
    <3>2. Entries(s[i + 1]) \in {Entries(s[1]), Entries(Last(s))}
      BY <1>4, <3>1 DEF InStep
    <3>3. ASSUME NEW j \in DOMAIN t, i < j
          PROVE  Entries(t[j]) \in {Entries(t[i]), Entries(Last(s))}
      <4>1. j + 1 \in DOMAIN s /\ t[j] = s[j + 1] /\ i + 1 < j + 1
        BY <1>3, <1>5, <3>3
      <4>2. QED
        BY <3>1, <4>1 DEF InStep
    <3>4. QED
      BY <1>4, <3>1, <3>2, <3>3
  <2>4. InStep(Head(s), t)
    BY <2>2, <2>3 DEF InStep
  <2>5. QED
    BY <1>2, <1>4, <1>6, <1>9, <2>2, <2>4
<1>10. QED
  BY <1>8, <1>9

LEMMA DiskWriteImage ==
  ASSUME IInv, ImageInv, DiskWrite
  PROVE  ImageInv'
<1>1. /\ pend # <<>> /\ img' = Head(pend) /\ pend' = Tail(pend)
      /\ files' = files /\ obj' = obj /\ fat' = fat /\ fatDirty' = fatDirty /\ io' = io
  BY DEF DiskWrite, memory
<1>2. /\ pend \in Seq(Image) /\ InStep(img, pend) /\ \A i \in DOMAIN pend : Good(pend[i])
      /\ Settled(Last(pend), files, obj, fat, fatDirty, io.file)
      /\ io = NoIO
  BY <1>1 DEF ImageInv, LastImage
<1>3. /\ Head(pend) \in Image /\ Tail(pend) \in Seq(Image)
      /\ Good(Head(pend)) /\ \A i \in DOMAIN Tail(pend) : Good(Tail(pend)[i])
      /\ InStep(Head(pend), Tail(pend))
      /\ Last(pend) = IF Tail(pend) = <<>> THEN Head(pend) ELSE Last(Tail(pend))
  BY <1>1, <1>2, TailImages
<1>4. LastImage' = Last(pend)
  BY <1>1, <1>3 DEF LastImage
<1>5. Settled(LastImage', files', obj', fat', fatDirty', io'.file)
  BY <1>1, <1>2, <1>4
<1>6. QED
  BY <1>1, <1>2, <1>3, <1>5 DEF ImageInv

-----------------------------------------------------------------------------
(* The handlers that write                                                 *)

(* What a handler starts from. *)
LEMMA IdleImage ==
  ASSUME IInv, ImageInv, pend = <<>>
  PROVE  /\ Sound(files, obj, fat) /\ img \in Image
         /\ Settled(img, files, obj, fat, fatDirty, io.file)
         /\ fatDirty \in BOOLEAN /\ 0 \notin Elems(files)
  BY SoundNow, ListedNotZero DEF ImageInv, LastImage, IInv, MemoryTypeOK

(* setxattr and the end of write: the header is synced. *)
LEMMA SyncImage ==
  ASSUME IInv, IInv', ImageInv, pend = <<>>, NEW o \in Listed, NEW g,
         obj' = [obj EXCEPT ![o] = g], files' = files, fat' = fat,
         g.ti = obj[o].ti, g.dirSec = obj[o].dirSec, g.unlinked = obj[o].unlinked,
         pend' = EntFat(g, fatDirty, fat), img' = img, io' = NoIO, fatDirty' = FALSE,
         io.file \in {0, o}
  PROVE  ImageInv'
<1>1. /\ Sound(files, obj, fat) /\ fatDirty \in BOOLEAN /\ 0 \notin Elems(files)
      /\ Settled(img, files, obj, fat, fatDirty, io.file)
  BY IdleImage
<1>2. Sound(files', obj', fat')
  BY SoundNext
<1>3. Listed = Elems(files) /\ Listed \subseteq Objs
  BY ListFacts
<1>4. \A x \in Listed : obj'[x] = IF x = o THEN g ELSE obj[x]
  BY <1>3 DEF IInv, MemoryTypeOK
<1>5. PICK q : q = obj'
  OBVIOUS
<1>6. Sound(files, q, fat)
  BY <1>2, <1>5
<1>7. o \in Elems(files) /\ \A x \in Elems(files) \ {o} : q[x] = obj[x] /\ x # io.file
  BY <1>1, <1>3, <1>4, <1>5
<1>8. /\ q[o] = g /\ q[o].ti = obj[o].ti /\ q[o].dirSec = obj[o].dirSec
      /\ q[o].unlinked = obj[o].unlinked
  BY <1>4, <1>5
<1>9. LET i1 == PutEnt(img, q[o])
      IN Outcome(img, <<i1, PutFat(i1, fatDirty, fat)>>, files, q, fat)
  BY <1>1, <1>6, <1>7, <1>8, UpdateOutcome
<1>10. Outcome(img, EntFat(g, fatDirty, fat), files, q, fat)
  BY <1>8, <1>9 DEF EntFat
<1>11. Outcome(img, pend', files', obj', fat')
  BY <1>5, <1>10
<1>12. QED
  BY <1>11, AfterHandler

LEMMA SetXattrImage ==
  ASSUME IInv, IInv', ImageInv, NEW n \in Names, NEW a \in Attrs, SetXattr(n, a)
  PROVE  ImageInv'
<1>1. PICK o \in Listed :
        /\ obj' = [obj EXCEPT ![o] = [obj[o] EXCEPT !.attr = a]]
        /\ pend' = EntFat([obj[o] EXCEPT !.attr = a], fatDirty, fat)
  BY DEF SetXattr, Listed
<1>2. PICK f \in File : f = obj[o]
  BY ListFacts
<1>3. PICK g : g = [f EXCEPT !.attr = a]
  OBVIOUS
<1>4. g.ti = f.ti /\ g.dirSec = f.dirSec /\ g.unlinked = f.unlinked
  BY <1>3 DEF File
<1>5. /\ pend = <<>> /\ io = NoIO /\ io.file = 0
      /\ files' = files /\ fat' = fat /\ img' = img /\ io' = io /\ fatDirty' = FALSE
  BY DEF SetXattr, Idle, NoIO
<1>6. QED
  BY <1>1, <1>2, <1>3, <1>4, <1>5, SyncImage

LEMMA WriteEndImage ==
  ASSUME IInv, IInv', ImageInv, WriteEnd
  PROVE  ImageInv'
<1>1. PICK o \in Listed : o = io.file
  BY WritingListed DEF WriteEnd
<1>2. PICK f \in File : f = obj[o]
  BY ListFacts
<1>3. PICK g : /\ obj' = [obj EXCEPT ![o] = g] /\ pend' = EntFat(g, fatDirty, fat)
               /\ \/ g = [f EXCEPT !.len = io.newLen, !.eof = io.newLen % SectorBytes]
                  \/ g = f
  BY <1>1, <1>2 DEF WriteEnd
<1>4. g.ti = f.ti /\ g.dirSec = f.dirSec /\ g.unlinked = f.unlinked
  BY <1>3 DEF File
<1>5. /\ files' = files /\ fat' = fat /\ img' = img /\ io' = NoIO /\ fatDirty' = FALSE
      /\ io.file # 0
  BY DEF WriteEnd
<1>6. pend = <<>>
  BY <1>5 DEF ImageInv, NoIO
<1>7. QED
  BY <1>1, <1>2, <1>3, <1>4, <1>5, <1>6, SyncImage

LEMMA CreateImage ==
  ASSUME IInv, IInv', DirectorySorted', ImageInv, NEW n \in Names, NEW h \in Handles,
         Create(n, h)
  PROVE  ImageInv'
<1> DEFINE new(d) == [os |-> n, ti |-> TIName[n], attr |-> 0, dirSec |-> d,
                      chains |-> <<>>, secCount |-> 0, eof |-> 0, len |-> 0,
                      ref |-> 1, unlinked |-> FALSE]
<1>1. PICK o \in Objs, d \in Sectors :
        /\ NewObject(o) /\ FindFree(0, d)
        /\ obj' = [obj EXCEPT ![o] = new(d)] /\ fat' = fat \cup {d}
        /\ \E p \in InsertPlaces(files, obj, TIName[n]) : files' = InsertAt(files, p, o)
        /\ pend' = EntFatDir(new(d), TRUE, fat', files', obj')
  BY DEF Create
<1>2. new(d).dirSec = d /\ ~new(d).unlinked
  OBVIOUS
<1>. HIDE DEF new
<1>3. /\ pend = <<>> /\ io = NoIO /\ io' = io /\ io.file = 0
      /\ img' = img /\ fatDirty' = FALSE
  BY DEF Create, Idle, NoIO
<1>4. /\ Sound(files, obj, fat) /\ 0 \notin Elems(files)
      /\ Settled(img, files, obj, fat, fatDirty, io.file)
  BY <1>3, IdleImage
<1>5. Sound(files', obj', fat') /\ Sorted(files', obj')
  BY SoundNext DEF DirectorySorted, Sorted
<1>6. /\ files \in Seq(Objs) /\ NoRepeat(files) /\ Listed = Elems(files)
      /\ Listed \subseteq Objs /\ o \notin Listed
  BY <1>1, ListFacts DEF NewObject
<1>7. Elems(files') = Elems(files) \cup {o}
  <2>1. PICK p \in 1 .. Len(files) + 1 : files' = InsertAt(files, p, o)
    BY <1>1 DEF InsertPlaces
  <2>2. QED
    BY <1>6, <2>1, InsertIntoList
<1>8. obj'[o] = new(d) /\ \A x \in Listed : obj'[x] = obj[x]
  BY <1>1, <1>6 DEF IInv, MemoryTypeOK
<1>9. d \notin fat
  BY <1>1 DEF FindFree
<1>10. PICK gs, q, G : gs = files' /\ q = obj' /\ G = fat'
  OBVIOUS
<1>11. /\ Sound(gs, q, G) /\ Sorted(gs, q) /\ fat \subseteq G
       /\ Elems(gs) = Elems(files) \cup {o} /\ o \notin Elems(files)
       /\ \A x \in Elems(files) : q[x] = obj[x]
       /\ ~q[o].unlinked /\ q[o].dirSec \notin fat /\ q[o] = new(d)
  BY <1>1, <1>2, <1>5, <1>6, <1>7, <1>8, <1>9, <1>10
<1>12. LET i1 == PutEnt(img, q[o])
           i2 == PutFat(i1, TRUE, G)
       IN Outcome(img, <<i1, i2, PutDir(i2, gs, q)>>, gs, q, G)
  BY <1>3, <1>4, <1>11, CreateOutcome
<1>13. Outcome(img, EntFatDir(new(d), TRUE, G, gs, q), gs, q, G)
  BY <1>11, <1>12 DEF EntFatDir
<1>14. Outcome(img, pend', files', obj', fat')
  BY <1>1, <1>10, <1>13
<1>15. QED
  BY <1>3, <1>14, AfterHandler

LEMMA RenameImage ==
  ASSUME IInv, IInv', DirectorySorted', ImageInv, NEW n \in Names, NEW m \in Names,
         Rename(n, m)
  PROVE  ImageInv'
<1>1. PICK i \in DOMAIN files :
        LET o == files[i]
            f == [obj[o] EXCEPT !.os = m, !.ti = TIName[m], !.ref = @ + 1]
        IN  /\ obj' = [obj EXCEPT ![o] = f]
            /\ LET linked == Linked(files', obj')
               IN pend' = IF linked # <<>> /\ linked[1] # o
                          THEN FatEntDir(f, fatDirty, fat, files', obj')
                          ELSE EntFatDir(f, fatDirty, fat, files', obj')
  BY Zenon DEF Rename
<1>2. PICK o \in Listed : o = files[i]
  BY DEF Listed
<1>3. PICK f \in File : f = obj[o]
  BY ListFacts
<1>4. PICK g : g = [f EXCEPT !.os = m, !.ti = TIName[m], !.ref = @ + 1]
  OBVIOUS
<1>5. g.dirSec = f.dirSec /\ g.unlinked = f.unlinked
  BY <1>4 DEF File
<1>6. /\ obj' = [obj EXCEPT ![o] = g]
      /\ \/ pend' = FatEntDir(g, fatDirty, fat, files', obj')
         \/ pend' = EntFatDir(g, fatDirty, fat, files', obj')
  BY <1>1, <1>2, <1>3, <1>4
<1>7. /\ pend = <<>> /\ io = NoIO /\ io' = io /\ io.file = 0
      /\ img' = img /\ fatDirty' = FALSE /\ fat' = fat
  BY DEF Rename, Idle, NoIO
<1>8. /\ Sound(files, obj, fat) /\ 0 \notin Elems(files) /\ fatDirty \in BOOLEAN
      /\ Settled(img, files, obj, fat, fatDirty, io.file)
  BY <1>7, IdleImage
<1>9. Sound(files', obj', fat') /\ Sorted(files', obj')
  BY SoundNext DEF DirectorySorted, Sorted
<1>10. /\ Listed = Elems(files) /\ Listed' = Elems(files') /\ Listed' = Listed
       /\ Listed \subseteq Objs
  BY ListFacts, RenameKeeps
<1>11. \A x \in Listed : obj'[x] = IF x = o THEN g ELSE obj[x]
  BY <1>6, <1>10 DEF IInv, MemoryTypeOK
<1>12. PICK gs, q : gs = files' /\ q = obj'
  OBVIOUS
<1>13. /\ Sound(gs, q, fat) /\ Sorted(gs, q) /\ Elems(gs) = Elems(files)
       /\ o \in Elems(files) /\ q[o] = g
       /\ \A x \in Elems(files) \ {o} : q[x] = obj[x]
       /\ q[o].dirSec = obj[o].dirSec /\ q[o].unlinked = obj[o].unlinked
  BY <1>3, <1>5, <1>7, <1>9, <1>10, <1>11, <1>12
<1>14. /\ LET i1 == PutEnt(img, q[o])
              i2 == PutFat(i1, fatDirty, fat)
          IN Outcome(img, <<i1, i2, PutDir(i2, gs, q)>>, gs, q, fat)
       /\ LET i1 == PutFat(img, fatDirty, fat)
              i2 == PutEnt(i1, q[o])
          IN Outcome(img, <<i1, i2, PutDir(i2, gs, q)>>, gs, q, fat)
  BY <1>7, <1>8, <1>13, RenameOutcome
<1>15. /\ Outcome(img, EntFatDir(g, fatDirty, fat, gs, q), gs, q, fat)
       /\ Outcome(img, FatEntDir(g, fatDirty, fat, gs, q), gs, q, fat)
  BY <1>13, <1>14 DEF EntFatDir, FatEntDir
<1>16. Outcome(img, pend', files', obj', fat')
  BY <1>6, <1>7, <1>12, <1>15
<1>17. QED
  BY <1>7, <1>16, AfterHandler

LEMMA UnlinkImage ==
  ASSUME IInv, IInv', DirectorySorted', ImageInv, NEW n \in Names, Unlink(n)
  PROVE  ImageInv'
<1>1. PICK i \in DOMAIN files :
        /\ LET o == files[i]
               f == obj[o]
           IN  \/ f.ref = 0 /\ DeleteAt(i)
               \/ /\ f.ref # 0
                  /\ obj' = [obj EXCEPT ![o].unlinked = TRUE]
                  /\ UNCHANGED <<fat, files>>
        /\ LET dirty == fatDirty \/ obj[files[i]].ref = 0
           IN  pend' = IF Linked(files', obj') # <<>>
                       THEN LET i1 == PutFat(img, dirty, fat')
                            IN <<i1, PutDir(i1, files', obj')>>
                       ELSE LET i1 == PutDir(img, files', obj')
                            IN <<i1, PutFat(i1, dirty, fat')>>
  BY Zenon DEF Unlink
<1>2. PICK o \in Listed : o = files[i]
  BY DEF Listed
<1>3. PICK d \in BOOLEAN : d = (fatDirty \/ obj[o].ref = 0)
  OBVIOUS
<1>4. /\ pend = <<>> /\ io = NoIO /\ io' = io /\ io.file = 0
      /\ img' = img /\ fatDirty' = FALSE
  BY DEF Unlink, Idle, NoIO
<1>5. /\ Sound(files, obj, fat) /\ 0 \notin Elems(files) /\ fatDirty \in BOOLEAN
      /\ Settled(img, files, obj, fat, fatDirty, io.file)
  BY <1>4, IdleImage
<1>6. Sound(files', obj', fat') /\ Sorted(files', obj')
  BY SoundNext DEF DirectorySorted, Sorted
<1>7. Listed = Elems(files) /\ Listed' = Elems(files') /\ Listed \subseteq Objs
  BY ListFacts
<1>8. /\ LinkedFiles' = LinkedFiles \ {o} /\ \A x \in Listed \ {o} : obj'[x] = obj[x]
      /\ d \/ (~fatDirty /\ fat' = fat)
  <2>1. CASE obj[o].ref = 0 /\ DeleteAt(i)
    <3>1. Listed' = Listed \ {o} /\ \A p \in Listed' : obj'[p] = obj[p]
      BY <1>2, <2>1, DeleteInv
    <3>2. QED
      BY <1>3, <2>1, <3>1 DEF LinkedFiles
  <2>2. CASE /\ obj[o].ref # 0 /\ obj' = [obj EXCEPT ![o].unlinked = TRUE]
             /\ UNCHANGED <<fat, files>>
    <3>1. Listed' = Listed
      BY <2>2 DEF Listed
    <3>2. PICK f \in File : f = obj[o]
      BY ListFacts
    <3>3. PICK g : g = [f EXCEPT !.unlinked = TRUE]
      OBVIOUS
    <3>0. g.unlinked
      BY <3>3 DEF File
    <3>4. \A x \in Listed : obj'[x] = IF x = o THEN g ELSE obj[x]
      BY <1>7, <2>2, <3>2, <3>3 DEF IInv, MemoryTypeOK
    <3>5. LinkedFiles' = LinkedFiles \ {o}
      BY <3>0, <3>1, <3>4 DEF LinkedFiles
    <3>6. d \/ (~fatDirty /\ fat' = fat)
      BY <1>3, <2>2
    <3>7. QED
      BY <3>4, <3>5, <3>6
  <2>3. QED
    BY <1>1, <1>2, <2>1, <2>2
<1>9. PICK gs, q, G : gs = files' /\ q = obj' /\ G = fat'
  OBVIOUS
<1>10. /\ Sound(gs, q, G) /\ Sorted(gs, q)
       /\ d \/ (~fatDirty /\ G = fat)
       /\ o \in Elems(files) /\ \A x \in Elems(files) \ {o} : q[x] = obj[x]
       /\ LinkedIn(Elems(gs), q) = LinkedIn(Elems(files), obj) \ {o}
  BY <1>6, <1>7, <1>8, <1>9, LinkedIsIn
<1>11. /\ LET i1 == PutFat(img, d, G)
          IN Outcome(img, <<i1, PutDir(i1, gs, q)>>, gs, q, G)
       /\ LET i1 == PutDir(img, gs, q)
          IN Outcome(img, <<i1, PutFat(i1, d, G)>>, gs, q, G)
  BY <1>4, <1>5, <1>10, UnlinkOutcome
<1>12. \/ LET i1 == PutFat(img, d, G) IN pend' = <<i1, PutDir(i1, gs, q)>>
       \/ LET i1 == PutDir(img, gs, q) IN pend' = <<i1, PutFat(i1, d, G)>>
  BY <1>1, <1>2, <1>3, <1>9
<1>13. Outcome(img, pend', gs, q, G)
  BY <1>11, <1>12
<1>14. Outcome(img, pend', files', obj', fat')
  BY <1>9, <1>13
<1>15. QED
  BY <1>4, <1>14, AfterHandler

(* A sector of the data of a file, or a free one, holds no entry. *)
LEMMA DataIsNoEntry ==
  ASSUME IInv, NEW s, s \notin fat \/ \E o \in Listed : s \in DataSectors(obj[o])
  PROVE  \A x \in LinkedFiles : obj[x].dirSec \in Sectors \ {s}
<1>1. /\ \A x \in Listed : /\ FileSectors(obj[x]) \subseteq fat
                           /\ obj[x].dirSec \notin DataSectors(obj[x])
      /\ \A x, y \in Listed : x # y => FileSectors(obj[x]) \cap FileSectors(obj[y]) = {}
      /\ fat \subseteq Sectors
  BY DEF IInv, OwnedSectors, MemoryTypeOK
<1>2. \A x \in Listed : /\ obj[x].dirSec \in FileSectors(obj[x])
                        /\ DataSectors(obj[x]) \subseteq FileSectors(obj[x])
  BY DEF FileSectors
<1>3. \A x \in Listed : obj[x].dirSec \in Sectors /\ obj[x].dirSec # s
  BY <1>1, <1>2
<1>4. QED
  BY <1>3 DEF LinkedFiles

LEMMA WriteExistingImage ==
  ASSUME WriteInv, IInv', ImageInv, WriteExisting
  PROVE  ImageInv'
<1>1. /\ io.len # 0 /\ io.avail # 0 /\ PutData(io.sector)
      /\ UNCHANGED <<fat, fatDirty, files, obj, fd, pend>>
  BY DEF WriteExisting
<1>2. IInv
  BY DEF WriteInv
<1>3. io.file \in Listed
  BY <1>1, <1>2, WritingListed
<1>4. pend = <<>>
  BY <1>1 DEF ImageInv, NoIO
<1>5. PICK s : s = io.sector
  OBVIOUS
<1>6. s \in DataSectors(obj[io.file])
  BY <1>1, <1>5 DEF WriteInv, WritePlace, DataSectors
<1>7. s \in Sectors
  BY <1>2, <1>3, <1>6 DEF IInv, OwnedSectors, FileSectors, MemoryTypeOK
<1>8. \A x \in LinkedFiles : obj[x].dirSec \in Sectors \ {s}
  BY <1>2, <1>3, <1>6, DataIsNoEntry
<1>9. io'.file = io.file
  BY <1>2 DEF WriteExisting, IInv, MemoryTypeOK
<1>10. LinkedFiles' = LinkedFiles
  BY <1>1 DEF LinkedFiles, Listed
<1>11. fatDirty' \/ (~fatDirty /\ fat' = fat)
  BY <1>1
<1>12. \A x \in LinkedFiles : /\ obj[x].dirSec \in Sectors \ {s}
                              /\ obj'[x].dirSec = obj[x].dirSec /\ obj'[x].ti = obj[x].ti
                              /\ FileSectors(obj[x]) \subseteq FileSectors(obj'[x])
                              /\ x # io.file => obj'[x] = obj[x]
  BY <1>1, <1>8
<1>13. PutData(s) /\ pend' = pend
  BY <1>1, <1>5
<1>14. QED
  BY <1>4, <1>7, <1>9, <1>10, <1>11, <1>12, <1>13, AfterData

LEMMA WriteExtendImage ==
  ASSUME IInv, IInv', ImageInv, WriteExtend
  PROVE  ImageInv'
<1>1. /\ io.len # 0 /\ fatDirty' = TRUE /\ pend' = pend
  BY DEF WriteExtend
<1>2. io.file \in Listed
  BY <1>1, WritingListed
<1>3. pend = <<>>
  BY <1>1 DEF ImageInv, NoIO
<1>4. PICK s \in Sectors, g \in File :
        /\ FindFree(FirstDataSector, s) /\ PutData(s)
        /\ Extends(io.file, obj[io.file], g, s)
  BY ExtendStep
<1>5. \A x \in LinkedFiles : obj[x].dirSec \in Sectors \ {s}
  BY <1>4, DataIsNoEntry DEF FindFree
<1>6. io'.file = io.file
  BY DEF WriteExtend, IInv, MemoryTypeOK
<1>7. /\ Listed' = Listed /\ \A x \in Listed : obj'[x] = IF x = io.file THEN g ELSE obj[x]
      /\ g.ti = obj[io.file].ti /\ g.dirSec = obj[io.file].dirSec
      /\ g.unlinked = obj[io.file].unlinked
      /\ SectorsOf(g.chains) = SectorsOf(obj[io.file].chains) \cup {s}
  BY <1>4 DEF Extends
<1>8. FileSectors(obj[io.file]) \subseteq FileSectors(g)
  BY <1>7 DEF FileSectors, DataSectors, SectorsOf
<1>9. LinkedFiles' = LinkedFiles
  BY <1>7 DEF LinkedFiles
<1>10. \A x \in LinkedFiles : /\ obj[x].dirSec \in Sectors \ {s}
                              /\ obj'[x].dirSec = obj[x].dirSec /\ obj'[x].ti = obj[x].ti
                              /\ FileSectors(obj[x]) \subseteq FileSectors(obj'[x])
                              /\ x # io.file => obj'[x] = obj[x]
  BY <1>5, <1>7, <1>8 DEF LinkedFiles
<1>11. QED
  BY <1>1, <1>3, <1>4, <1>6, <1>9, <1>10, AfterData

LEMMA ImageNext ==
  ASSUME MidSectorAppend = FALSE, WriteInv, DirectorySorted, ImageInv, [Next]_vars
  PROVE  ImageInv'
<1>0. IInv /\ WriteInv' /\ DirectorySorted' /\ IInv'
  <2>1. WriteInv' /\ DirectorySorted'
    BY WriteNext
  <2>2. QED
    BY <2>1 DEF WriteInv
<1>1. CASE \E n \in Names, h \in Handles : Create(n, h)
  BY <1>0, <1>1, CreateImage
<1>2. CASE \E n \in Names, h \in Handles : Open(n, h)
  BY <1>0, <1>2, OpenImage
<1>3. CASE \E h \in Handles : Release(h)
  BY <1>0, <1>3, ReleaseImage
<1>4. CASE \E n \in Names : Unlink(n)
  BY <1>0, <1>4, UnlinkImage
<1>5. CASE \E n, m \in Names : Rename(n, m)
  BY <1>0, <1>5, RenameImage
<1>6. CASE \E n \in Names, a \in Attrs : SetXattr(n, a)
  BY <1>0, <1>6, SetXattrImage
<1>7. CASE \E h \in Handles, r \in Requests : WriteStart(h, r[1], r[2])
  BY <1>0, <1>7, WriteStartImage
<1>8. CASE WriteExisting
  BY <1>0, <1>8, WriteExistingImage
<1>9. CASE WriteExtend
  BY <1>0, <1>9, WriteExtendImage
<1>10. CASE WriteFull
  BY <1>0, <1>10, WriteFullImage
<1>11. CASE WriteEnd
  BY <1>0, <1>11, WriteEndImage
<1>12. CASE DiskWrite
  BY <1>0, <1>12, DiskWriteImage
<1>13. CASE UNCHANGED vars
  BY <1>0, <1>13, StutterImage
<1>14. QED
  BY <1>1, <1>2, <1>3, <1>4, <1>5, <1>6, <1>7, <1>8, <1>9, <1>10, <1>11, <1>12, <1>13
     DEF Next, Handler, WriteLoop

LEMMA ImageInit == Init => ImageInv
<1> SUFFICES ASSUME Init PROVE ImageInv
  OBVIOUS
<1>1. /\ fat = {0, 1} /\ fatDirty = FALSE /\ files = <<>> /\ io = NoIO /\ pend = <<>>
      /\ img = [fat |-> {0, 1}, dir |-> <<>>, ent |-> [s \in Sectors |-> NoEnt]]
  BY DEF Init
<1>2. DOMAIN files = {} /\ Elems(files) = {} /\ LinkedIn(Elems(files), obj) = {}
  BY <1>1 DEF Elems, LinkedIn
<1>3. img \in Image /\ img.dir = <<>> /\ DOMAIN img.dir = {} /\ Elems(img.dir) = {} /\ img.fat = fat
  <2>1. fat \in SUBSET Sectors
    BY <1>1, InitInv DEF IInv, MemoryTypeOK
  <2>2. [s \in Sectors |-> NoEnt] \in [Sectors -> Dirent \cup {NoEnt}]
    OBVIOUS
  <2>3. QED
    BY <1>1, <2>1, <2>2 DEF Image, Elems
<1>4. Sound(files, obj, fat)
  BY InitInv, SoundNow
<1>5. Shows(img, LinkedIn(Elems(files), obj), obj) /\ InNameOrder(img)
  BY <1>2, <1>3 DEF Shows, Lists, NoRepeat, InNameOrder
<1>6. Settled(img, files, obj, fat, FALSE, 0) /\ Good(img)
  BY <1>2, <1>3, <1>4, <1>5, FinalImage
<1>7. Settled(LastImage, files, obj, fat, fatDirty, io.file)
  BY <1>1, <1>6 DEF LastImage, NoIO
<1>8. pend \in Seq(Image) /\ DOMAIN pend = {}
  BY <1>1
<1>9. InStep(img, pend) /\ \A i \in DOMAIN pend : Good(pend[i])
  BY <1>8 DEF InStep
<1>10. QED
  BY <1>1, <1>3, <1>6, <1>7, <1>8, <1>9 DEF ImageInv

LEMMA SpecImageInv ==
  ASSUME MidSectorAppend = FALSE
  PROVE  Spec => [](WriteInv /\ DirectorySorted /\ ImageInv)
<1>1. WriteInv /\ DirectorySorted /\ ImageInv /\ [Next]_vars
        => WriteInv' /\ DirectorySorted' /\ ImageInv'
  BY WriteNext, ImageNext
<1>2. QED
  BY <1>1, WriteInit, ImageInit, PTL DEF Spec

(* Memory, the image and every image the writes of a handler produce have  *)
(* their types: no file, sector number or list is out of range.            *)
THEOREM EverythingTyped ==
  ASSUME MidSectorAppend = FALSE PROVE Spec => []TypeOK
<1>1. WriteInv /\ ImageInv => TypeOK
  BY DEF WriteInv, IInv, ImageInv, TypeOK, ImageTypeOK
<1>2. QED
  BY <1>1, SpecImageInv, PTL

(* At any moment, also between the writes of a handler, each directory     *)
(* entry of the image names a sector that holds the entry of a file.       *)
THEOREM AlwaysMountable ==
  ASSUME MidSectorAppend = FALSE PROVE Spec => []ImageMountable
<1>1. ImageInv => ImageMountable
  BY DEF ImageInv, Good, ImageMountable
<1>2. QED
  BY <1>1, SpecImageInv, PTL

(* The names in the image change in one of the writes of a handler.        *)
THEOREM NamesChangeInOneWrite ==
  ASSUME MidSectorAppend = FALSE PROVE Spec => []NamesChangeAtOnce
<1>1. ImageInv => NamesChangeAtOnce
  BY DEF ImageInv, InStep, NamesChangeAtOnce
<1>2. QED
  BY <1>1, SpecImageInv, PTL

(* At any moment the sectors the image calls free although a file has them *)
(* belong to one file, and no two files of the image share a sector, on a  *)
(* volume whose sector numbers fit in the 12 bits an entry has for them.   *)
THEOREM CrashesExposeOneFile ==
  ASSUME MidSectorAppend = FALSE, SectorCount <= 4096 PROVE Spec => []CrashExposesOneFile
<1>1. ImageInv => CrashExposesOneFile
  <2>1. ImageInv => ExposesOneFile(img)
    BY DEF ImageInv, Good
  <2>2. ASSUME ExposesOneFile(img) PROVE CrashExposesOneFile
    <3>1. \E i \in DOMAIN img.dir \cup {0} :
            \A j \in DOMAIN img.dir \ {i} : EntrySectors(img, j) \subseteq img.fat
      BY <2>2 DEF ExposesOneFile
    <3>2. \A i, j \in DOMAIN img.dir :
            i # j => EntrySectors(img, i) \cap EntrySectors(img, j) = {}
      BY <2>2 DEF ExposesOneFile
    <3>3. QED
      BY <3>1, <3>2 DEF CrashExposesOneFile
  <2>3. QED
    BY <2>1, <2>2
<1>2. QED
  BY <1>1, SpecImageInv, PTL

(* When no handler runs, the directory of the image holds the files memory *)
(* has linked, each once and in name order, with the entries of memory,    *)
(* and its bitmap is that of memory unless one is still to be written.     *)
ImageHoldsMemory ==
  Idle =>
    /\ Elems(img.dir) = {obj[x].dirSec : x \in LinkedFiles} /\ NoRepeat(img.dir)
    /\ InNameOrder(img)
    /\ \A x \in LinkedFiles : img.ent[obj[x].dirSec] = EntOf(obj[x])
    /\ fatDirty \/ img.fat = fat

(* Every handler that changes a file leaves the change in the image: no    *)
(* entry and no directory waits in memory for a later sync.                *)
THEOREM NoChangeWaits ==
  ASSUME MidSectorAppend = FALSE PROVE Spec => []ImageHoldsMemory
<1>1. IInv /\ ImageInv => ImageHoldsMemory
  <2> SUFFICES ASSUME IInv, ImageInv, Idle PROVE ImageHoldsMemory
    BY DEF ImageHoldsMemory
  <2>1. Settled(img, files, obj, fat, fatDirty, 0)
    BY DEF ImageInv, LastImage, Idle, NoIO
  <2>2. LinkedFiles = LinkedIn(Elems(files), obj) /\ 0 \notin LinkedFiles
    BY LinkedIsIn, ListedNotZero DEF LinkedIn
  <2>3. QED
    BY <2>1, <2>2 DEF Settled, Shows, Lists, Holds, ImageHoldsMemory
<1>2. WriteInv => IInv
  BY DEF WriteInv
<1>3. QED
  BY <1>1, <1>2, SpecImageInv, PTL

-----------------------------------------------------------------------------
(* What a mount makes of an image                                          *)

Count(n) == [i \in 1 .. n |-> i]

(* Where addFileToList puts a file among files in name order. *)
LEMMA PlaceExists ==
  ASSUME NEW n \in Nat, NEW fs \in Seq(1 .. n), NEW o, \A i \in 1 .. n : o[i].ti \in Nat,
         NEW t \in Nat
  PROVE  InsertPlaces(fs, o, t) # {} /\ InsertPlaces(fs, o, t) \subseteq 1 .. Len(fs) + 1
<1>1. PICK l \in Nat : l = Len(fs) /\ DOMAIN fs = 1 .. l
  BY LenProperties
<1>2. \A i \in 1 .. l : o[fs[i]].ti \in Nat
  BY <1>1, ElementOfSeq
<1> DEFINE P == {p \in 1 .. l + 1 : \A i \in 1 .. p - 1 : o[fs[i]].ti <= t}
<1>3. 1 \in P
  OBVIOUS
<1>4. PICK p \in P : \A q \in P : p >= q
  <2>1. P \in SUBSET (1 .. l + 1)
    OBVIOUS
  <2>2. PICK m \in Nat : m = l + 1
    OBVIOUS
  <2>3. P # {}
    BY <1>3
  <2> HIDE DEF P
  <2>4. P \in SUBSET (1 .. m)
    BY <2>1, <2>2
  <2> QED BY <2>3, <2>4, LargestExists
<1>5. p \in 1 .. l + 1 /\ \A i \in 1 .. p - 1 : o[fs[i]].ti <= t
  BY <1>4
<1>6. p <= l => t < o[fs[p]].ti
  <2> SUFFICES ASSUME p <= l, ~(t < o[fs[p]].ti) PROVE FALSE
    OBVIOUS
  <2>0. p \in 1 .. l
    BY <1>5
  <2>1. PICK m \in Nat : m = o[fs[p]].ti /\ m <= t
    BY <1>2, <2>0
  <2>2. \A i \in 1 .. p : o[fs[i]].ti <= t
    <3> SUFFICES ASSUME NEW i \in 1 .. p PROVE o[fs[i]].ti <= t
      OBVIOUS
    <3>1. CASE i = p
      BY <2>1, <3>1
    <3>2. CASE i # p
      <4>1. i \in 1 .. p - 1
        BY <2>0, <3>2
      <4> QED BY <1>5, <4>1
    <3> QED BY <3>1, <3>2
  <2>3. p + 1 \in 1 .. l + 1 /\ (p + 1) - 1 = p
    BY <2>0
  <2>4. p + 1 \in P
    BY <2>2, <2>3
  <2>5. p >= p + 1
    BY <1>4, <2>4
  <2> QED BY <2>0, <2>5
<1>7. p \in InsertPlaces(fs, o, t)
  BY <1>1, <1>5, <1>6 DEF InsertPlaces
<1> QED BY <1>1, <1>7 DEF InsertPlaces

(* A file whose name is not before those of the list goes to its end. *)
LEMMA PlaceLast ==
  ASSUME NEW n \in Nat, NEW o, NEW k \in 1 .. n, \A i \in 1 .. n : o[i].ti \in Nat,
         \A i \in 1 .. n : i <= k => o[i].ti <= o[k].ti
  PROVE  InsertPlaces(Count(k - 1), o, o[k].ti) = {k}
<1>1. PICK l \in Nat : l = k - 1 /\ l + 1 = k /\ l + 1 <= n
  OBVIOUS
<1>2. Count(l) \in Seq(Nat) /\ Len(Count(l)) = l
  BY DEF Count
<1>3. \A i \in 1 .. l : Count(l)[i] = i /\ o[i].ti <= o[k].ti
  BY <1>1 DEF Count
<1>4. k \in InsertPlaces(Count(l), o, o[k].ti)
  BY <1>1, <1>2, <1>3 DEF InsertPlaces
<1>5. ASSUME NEW p \in InsertPlaces(Count(l), o, o[k].ti) PROVE p = k
  <2>1. p \in 1 .. l + 1 /\ (p <= l => o[k].ti < o[Count(l)[p]].ti)
    BY <1>2 DEF InsertPlaces
  <2>2. ~(p <= l)
    <3> SUFFICES ASSUME p <= l PROVE FALSE
      OBVIOUS
    <3>1. p \in 1 .. l /\ p \in 1 .. n
      BY <1>1, <2>1
    <3>2. PICK a \in Nat, b \in Nat : a = o[k].ti /\ b = o[p].ti
      BY <3>1
    <3>3. a < b /\ b <= a
      BY <1>3, <2>1, <3>1, <3>2
    <3> QED BY <3>3
  <2> QED BY <1>1, <2>1, <2>2
<1> QED BY <1>1, <1>4, <1>5

(* The list after the first k entries of a directory in name order. *)
LEMMA NextEntry ==
  ASSUME NEW n \in Nat, NEW k \in 1 .. n
  PROVE  InsertAt(Count(k - 1), k, k) = Count(k)
<1>1. PICK l \in Nat : l = k - 1 /\ l + 1 = k
  OBVIOUS
<1>2. Count(l) \in Seq(Nat) /\ Len(Count(l)) = l /\ k \in 1 .. l + 1 /\ k \in Nat
  BY <1>1 DEF Count
<1>0. PICK S : S = Nat
  OBVIOUS
<1>3. PICK s \in Seq(S), e \in S : s = Count(l) /\ e = k
  BY <1>2, <1>0
<1>10. PICK p \in 1 .. Len(s) + 1 : p = k
  BY <1>2, <1>3
<1>9. InsertAt(s, p, e) \in Seq(S) /\ Inserted(InsertAt(s, p, e), s, p, e)
  BY ONLY s \in Seq(S), e \in S, p \in 1 .. Len(s) + 1, InsertAtInserts
<1>8. PICK r \in Seq(Nat) : r = InsertAt(s, p, e)
  BY <1>0, <1>9
<1>4. /\ DOMAIN r = 1 .. l + 1
      /\ \A j \in 1 .. l + 1 : r[j] = IF j < k THEN s[j] ELSE IF j = k THEN k ELSE s[j - 1]
  BY <1>2, <1>3, <1>8, <1>9, <1>10 DEF Inserted
<1>5. \A j \in 1 .. l : s[j] = j
  BY <1>3 DEF Count
<1>6. \A j \in 1 .. k : r[j] = j
  <2> SUFFICES ASSUME NEW j \in 1 .. k PROVE r[j] = j
    OBVIOUS
  <2>1. j = k \/ j \in 1 .. l
    BY <1>1
  <2> QED BY <1>1, <1>4, <1>5, <2>1
<1>7. r = [j \in 1 .. k |-> j]
  BY <1>1, <1>4, <1>6
<1> QED BY <1>1, <1>3, <1>7, <1>8, <1>10 DEF Count

(* The list of an image whose directory is in name order.                  *)
Insertion(o, fs, i) == InsertAt(fs, CHOOSE p \in InsertPlaces(fs, o, o[i].ti) : TRUE, i)

InsertedList(o, all) == FoldLeft(LAMBDA fs, i : Insertion(o, fs, i), <<>>, all)

LEMMA InsertedInOrder ==
  ASSUME NEW n \in Nat, NEW o, \A i \in 1 .. n : o[i].ti \in Nat,
         \A i, j \in 1 .. n : i <= j => o[i].ti <= o[j].ti
  PROVE  InsertedList(o, [i \in 1 .. n |-> i]) = Count(n)
<1> DEFINE D == Seq(1 .. n)
           F == [k \in 1 .. n |-> [fs \in D |-> Insertion(o, fs, k)]]
           all == [i \in 1 .. n |-> i]
           result == FoldLeft(LAMBDA fs, i : Insertion(o, fs, i), <<>>, all)
<1>1. ASSUME NEW k \in 1 .. n, NEW fs \in D PROVE Insertion(o, fs, k) \in D
  <2>1. InsertPlaces(fs, o, o[k].ti) # {} /\ InsertPlaces(fs, o, o[k].ti) \subseteq 1 .. Len(fs) + 1
    BY PlaceExists
  <2>2. PICK p \in 1 .. Len(fs) + 1 : p = CHOOSE q \in InsertPlaces(fs, o, o[k].ti) : TRUE
    BY <2>1
  <2>3. InsertAt(fs, p, k) \in Seq(1 .. n)
    BY InsertAtFacts
  <2> QED BY <2>2, <2>3 DEF Insertion
<1>2. F \in [1 .. n -> [D -> D]]
  BY <1>1
<1>3. result =
        (CHOOSE it : it = [s \in SUBSET DOMAIN all |->
           IF s = {} THEN <<>> ELSE Insertion(o, it[s \ {Max(s)}], all[Max(s)])])[DOMAIN all]
  BY Zenon DEF FoldLeft, MapThenFoldSet
<1> DEFINE Folds(it) == it = [s \in SUBSET (1 .. n) |->
                                IF s = {} THEN <<>> ELSE Insertion(o, it[s \ {Max(s)}], all[Max(s)])]
<1>4. result = (CHOOSE it : Folds(it))[1 .. n]
  <2>1. DOMAIN all = 1 .. n
    OBVIOUS
  <2> HIDE DEF all, result
  <2> QED BY <1>3, <2>1, Zenon
<1>5. \A s \in SUBSET (1 .. n) : s # {} => Max(s) \in 1 .. n /\ all[Max(s)] = Max(s)
  BY MaxIsLargest
<1> HIDE DEF all, result
<1>6. \E it : Folds(it)
  <2> HIDE DEF F
  <2>0. <<>> \in D
    OBVIOUS
  <2> HIDE DEF D
  <2>1. PICK it \in [SUBSET (1 .. n) -> D] : IsFold(it, n, <<>>, F)
    BY <1>2, <2>0, FoldExists
  <2>2. ASSUME NEW s \in SUBSET (1 .. n), s # {}
        PROVE  it[s] = Insertion(o, it[s \ {Max(s)}], all[Max(s)])
    <3>1. it[s] = F[Max(s)][it[s \ {Max(s)}]] /\ Max(s) \in 1 .. n /\ all[Max(s)] = Max(s)
      BY <1>5, <2>1, <2>2 DEF IsFold
    <3>2. s \ {Max(s)} \in SUBSET (1 .. n)
      OBVIOUS
    <3>3. it[s \ {Max(s)}] \in D
      BY <2>1, <3>2
    <3> QED BY <3>1, <3>3 DEF F
  <2>3. it[{}] = <<>>
    BY <2>1 DEF IsFold
  <2>4. Folds(it)
    <3>1. it = [s \in SUBSET (1 .. n) |-> it[s]]
      BY <2>1
    <3>2. \A s \in SUBSET (1 .. n) :
            it[s] = IF s = {} THEN <<>> ELSE Insertion(o, it[s \ {Max(s)}], all[Max(s)])
      BY <2>2, <2>3
    <3> QED BY <3>1, <3>2
  <2> QED BY <2>4
<1>7. PICK it : Folds(it) /\ result = it[1 .. n]
  <2> HIDE DEF Folds
  <2> QED BY <1>4, <1>6
<1>8. it[{}] = <<>>
  BY <1>7
<1>9. \A s \in SUBSET (1 .. n) :
        s # {} /\ it[s \ {Max(s)}] \in D => it[s] = F[Max(s)][it[s \ {Max(s)}]]
  <2> SUFFICES ASSUME NEW s \in SUBSET (1 .. n), s # {}, it[s \ {Max(s)}] \in D
               PROVE  it[s] = F[Max(s)][it[s \ {Max(s)}]]
    OBVIOUS
  <2>1. it[s] = Insertion(o, it[s \ {Max(s)}], all[Max(s)])
    BY <1>7
  <2>2. Max(s) \in 1 .. n /\ all[Max(s)] = Max(s)
    BY <1>5
  <2> HIDE DEF D
  <2> QED BY <2>1, <2>2
<1>10. FoldsWithin(D, n, <<>>, F, it)
  <2>0. <<>> \in D
    OBVIOUS
  <2> HIDE DEF F, Folds, D
  <2> QED BY <1>2, <1>8, <1>9, <2>0 DEF FoldsWithin
<1>11. PICK f \in [0 .. n -> D] : /\ f[0] = <<>> /\ f[n] = it[1 .. n]
                                  /\ \A k \in 1 .. n : f[k] = F[k][f[k - 1]]
  <2> HIDE DEF F, D, Folds
  <2>1. PICK b : b = <<>>
    OBVIOUS
  <2>2. FoldsWithin(D, n, b, F, it)
    BY <1>10, <2>1
  <2>3. \E f \in [0 .. n -> D] : /\ f[0] = b /\ f[n] = it[1 .. n]
                                 /\ \A k \in 1 .. n : f[k] = F[k][f[k - 1]]
    BY ONLY <2>2, FoldSteps
  <2> QED BY <2>1, <2>3
<1> HIDE DEF Folds
<1> DEFINE S == {k \in 0 .. n : f[k] = Count(k)}
<1>12. 0 \in S
  BY <1>11 DEF Count
<1>13. ASSUME NEW k \in 0 .. n - 1, k \in S PROVE k + 1 \in S
  <2>1. PICK l \in 1 .. n : l = k + 1 /\ l - 1 = k
    OBVIOUS
  <2>2. f[k] \in D /\ f[k] = Count(k)
    BY <1>11, <1>13
  <2>3. f[l] = Insertion(o, Count(k), l)
    <3>1. f[l] = F[l][f[k]]
      BY <1>11, <2>1
    <3> QED BY <2>2, <3>1
  <2>4. InsertPlaces(Count(l - 1), o, o[l].ti) = {l}
    BY PlaceLast
  <2>5. (CHOOSE p \in InsertPlaces(Count(k), o, o[l].ti) : TRUE) = l
    BY <2>1, <2>4
  <2>6. Insertion(o, Count(k), l) = InsertAt(Count(k), l, l)
    BY <2>5 DEF Insertion
  <2>7. InsertAt(Count(k), l, l) = Count(l)
    BY <2>1, NextEntry
  <2> QED BY <2>1, <2>3, <2>6, <2>7
<1>14. f[n] = Count(n)
  <2>1. \A k \in 0 .. n : k \in S
    <3> HIDE DEF S
    <3> QED BY <1>12, <1>13, BoundedInduction
  <2> QED BY <2>1
<1>15. result = Count(n)
  BY <1>7, <1>11, <1>14
<1> QED BY <1>15, Zenon DEF InsertedList, result, all

(* All the elements of a list, in its order. *)
LEMMA RankOfAll ==
  ASSUME NEW n \in Nat, NEW i \in 1 .. n
  PROVE  Rank(1 .. n, i) = i
<1>1. {j \in 1 .. n : j <= i} = 1 .. i
  OBVIOUS
<1>2. Cardinality(1 .. i) = i
  BY FS_Interval
<1> QED BY <1>1, <1>2 DEF Rank

LEMMA PickAll ==
  ASSUME NEW S, NEW s \in Seq(S)
  PROVE  Pick(s, DOMAIN s) = s
<1>1. PICK n \in Nat : n = Len(s) /\ DOMAIN s = 1 .. n
  BY LenProperties
<1>2. Cardinality(1 .. n) = n
  BY FS_Interval
<1> DEFINE place(k) == CHOOSE i \in 1 .. n : Rank(1 .. n, i) = k
<1>3. \A k \in 1 .. n : place(k) = k
  <2>1. \A i \in 1 .. n : Rank(1 .. n, i) = i
    BY RankOfAll
  <2> QED BY <2>1
<1>4. Pick(s, DOMAIN s) = [k \in 1 .. n |-> s[place(k)]]
  BY <1>1, <1>2 DEF Pick, Rank
<1> HIDE DEF place
<1>5. Pick(s, DOMAIN s) = [k \in 1 .. n |-> s[k]]
  BY <1>3, <1>4
<1> QED BY <1>1, <1>5

(* A sector number has the 12 bits that an entry has for it. *)
TwelveBits == SectorCount <= 4096

(* The entry of a directory carries the chain c as the numbers e. *)
StoredAs(c, e) ==
  /\ e \in Nat \X Nat /\ e # <<0, 0>>
  /\ c = [start |-> e[1], end |-> e[1] + e[2]]

LEMMA ChainStored ==
  ASSUME TwelveBits, NEW c \in Chain, c.start <= c.end, 0 \notin ChainSectors(c)
  PROVE  StoredAs(c, <<c.start % 4096, (c.end - c.start) % 4096>>)
<1>1. c = [start |-> c.start, end |-> c.end]
  BY DEF Chain
<1>2. c.start \in 0 .. SectorCount - 1 /\ c.end \in 0 .. SectorCount - 1
  BY DEF Chain, Sectors
<1>3. PICK a \in Nat, b \in Nat : a = c.start /\ b = c.end
  BY <1>2, SizeAssumption
<1>4. a <= b /\ a < 4096 /\ b < 4096
  BY <1>2, <1>3, SizeAssumption DEF TwelveBits
<1>5. a # 0
  BY <1>3, <1>4 DEF ChainSectors
<1>6. PICK d \in Nat : d = b - a /\ d < 4096 /\ b = a + d
  BY <1>4
<1>7. a % 4096 = a /\ d % 4096 = d
  BY <1>4, <1>6
<1>8. c.start % 4096 = a /\ (c.end - c.start) % 4096 = d
  BY <1>3, <1>6, <1>7
<1>9. c = [start |-> a, end |-> a + d]
  BY <1>1, <1>3, <1>6
<1>10. PICK x, y : x = c.start % 4096 /\ y = (c.end - c.start) % 4096
  OBVIOUS
<1>11. PICK e : e = <<x, y>>
  BY Zenon
<1>12. e = <<a, d>>
  BY <1>8, <1>10, <1>11
<1>13. e[1] = a /\ e[2] = d
  BY <1>12
<1>14. e \in Nat \X Nat
  BY <1>12
<1>15. e # <<0, 0>>
  BY <1>12, <1>5
<1>16. StoredAs(c, e)
  BY <1>9, <1>13, <1>14, <1>15 DEF StoredAs
<1> QED BY <1>10, <1>11, <1>16

(* readDirEnt gives back the chains an entry can carry. *)
LEMMA ChainsReadBack ==
  ASSUME TwelveBits, NEW ch \in Seq(Chain), Ordered(ch),
         \A i \in DOMAIN ch : 0 \notin ChainSectors(ch[i]), Len(ch) <= HdrChains
  PROVE  DecodeChains(EncodeChains(ch)) = ch
<1>1. PICK n \in Nat : n = Len(ch) /\ DOMAIN ch = 1 .. n
  BY LenProperties
<1> DEFINE enc == EncodeChains(ch)
<1>2. (IF Len(ch) < HdrChains THEN Len(ch) ELSE HdrChains) = n
  BY <1>1, BoundAssumption
<1>3. enc = [i \in 1 .. n |-> <<ch[i].start % 4096, (ch[i].end - ch[i].start) % 4096>>]
  BY <1>2 DEF EncodeChains
<1>4. ASSUME NEW i \in 1 .. n PROVE StoredAs(ch[i], enc[i])
  <2>1. PICK c \in Chain : c = ch[i]
    BY <1>1, ElementOfSeq
  <2>2. c.start <= c.end /\ 0 \notin ChainSectors(c)
    BY <1>1, <2>1 DEF Ordered
  <2>3. StoredAs(c, <<c.start % 4096, (c.end - c.start) % 4096>>)
    BY <2>2, ChainStored
  <2>4. enc[i] = <<c.start % 4096, (c.end - c.start) % 4096>>
    BY <1>3, <2>1
  <2> QED BY <2>1, <2>3, <2>4
<1>5. DOMAIN enc = 1 .. n
  BY <1>3
<1>6. enc = [i \in 1 .. n |-> enc[i]]
  BY <1>3
<1> HIDE DEF enc
<1>7. \A i \in DOMAIN enc : enc[i] \in Nat \X Nat /\ enc[i] # <<0, 0>>
  BY <1>4, <1>5, Zenon DEF StoredAs
<1>8. enc \in [1 .. n -> Nat \X Nat]
  BY <1>5, <1>6, <1>7
<1>9. enc \in Seq(Nat \X Nat)
  BY <1>8
<1>10. {i \in DOMAIN enc : enc[i] # <<0, 0>>} = DOMAIN enc
  BY <1>7, Zenon
<1>11. Pick(enc, DOMAIN enc) = enc
  BY <1>9, PickAll
<1>12. PICK used : used = Pick(enc, {i \in DOMAIN enc : enc[i] # <<0, 0>>}) /\ used = enc
  BY <1>10, <1>11, Zenon
<1>13. DecodeChains(enc) =
         [i \in DOMAIN used |-> [start |-> used[i][1], end |-> used[i][1] + used[i][2]]]
  BY <1>12 DEF DecodeChains
<1>14. \A i \in 1 .. n : [start |-> used[i][1], end |-> used[i][1] + used[i][2]] = ch[i]
  BY <1>4, <1>12, Zenon DEF StoredAs
<1>15. DecodeChains(enc) = [i \in 1 .. n |-> ch[i]]
  BY <1>5, <1>12, <1>13, <1>14, Zenon
<1>16. ch = [i \in 1 .. n |-> ch[i]]
  BY <1>1
<1> QED BY <1>15, <1>16 DEF enc

(* readDirEnt takes the name and the place of the entry. *)
LEMMA NameRead ==
  ASSUME NEW s, NEW e
  PROVE  ReadDirEnt(s, e).ti = e.ti /\ ReadDirEnt(s, e).dirSec = s
<1>1. PICK g, os, ch, len :
        /\ g = ReadDirEnt(s, e) /\ os = LinuxName[e.ti] /\ ch = DecodeChains(e.chains)
        /\ len = e.secCount * SectorBytes - (IF e.eof = 0 THEN 0 ELSE SectorBytes - e.eof)
  OBVIOUS
<1>2. g = [os |-> os, ti |-> e.ti, attr |-> e.attr, dirSec |-> s, chains |-> ch,
           secCount |-> e.secCount, eof |-> e.eof, len |-> len, ref |-> 0, unlinked |-> FALSE]
  BY <1>1, Zenon DEF ReadDirEnt
<1>3. g.ti = e.ti /\ g.dirSec = s
  BY <1>2
<1> QED BY <1>1, <1>3

(* DiskVolume::open gives the objects 1 to n to the entries of a directory *)
(* in name order, and the list their order.                                *)
LEMMA MountLists ==
  ASSUME NEW im \in Image, DOMAIN im.dir \subseteq Objs, InNameOrder(im), Mountable(im),
         NEW n \in Nat, n = Len(im.dir)
  PROVE  /\ MountedFiles(im) = Count(n)
         /\ DOMAIN im.dir = 1 .. n
         /\ \A i \in 1 .. n : MountedObjs(im)[i] = ReadDirEnt(im.dir[i], im.ent[im.dir[i]])
         /\ \A i \in Objs \ 1 .. n : MountedObjs(im)[i] = NilFile
         /\ DOMAIN MountedObjs(im) = Objs
<1>1. DOMAIN im.dir = 1 .. n /\ 1 .. n \subseteq Objs
  BY LenProperties DEF Image
<1>2. PICK o : o = MountedObjs(im)
  OBVIOUS
<1>3. /\ DOMAIN o = Objs
      /\ \A i \in Objs : o[i] = IF i \in 1 .. n THEN ReadDirEnt(im.dir[i], im.ent[im.dir[i]])
                                ELSE NilFile
  BY <1>1, <1>2, Zenon DEF MountedObjs
<1>4. \A i \in 1 .. n : o[i] = ReadDirEnt(im.dir[i], im.ent[im.dir[i]])
  BY <1>1, <1>3, Zenon
<1>5. \A i \in 1 .. n : o[i].ti = im.ent[im.dir[i]].ti
  BY <1>4, NameRead
<1>6. ASSUME NEW i \in 1 .. n PROVE im.ent[im.dir[i]].ti \in Nat
  <2>1. im.dir \in Seq(Sectors) /\ im.ent \in [Sectors -> Dirent \cup {NoEnt}]
    BY DEF Image
  <2>2. im.dir[i] \in Sectors
    BY <1>1, <2>1, ElementOfSeq
  <2>3. im.ent[im.dir[i]] \in Dirent
    BY <1>1, <2>1, <2>2 DEF Mountable
  <2> QED BY <2>3, TINumbers DEF Dirent
<1>7. \A i \in 1 .. n : o[i].ti \in Nat
  BY <1>5, <1>6
<1>8. \A i, j \in 1 .. n : i <= j => o[i].ti <= o[j].ti
  <2> SUFFICES ASSUME NEW i \in 1 .. n, NEW j \in 1 .. n, i <= j PROVE o[i].ti <= o[j].ti
    OBVIOUS
  <2>1. CASE i = j
    BY <1>7, <2>1
  <2>2. CASE i < j
    BY <1>1, <1>5, <2>2 DEF InNameOrder
  <2> QED BY <2>1, <2>2
<1>9. InsertedList(MountedObjs(im), [i \in 1 .. n |-> i]) = Count(n)
  <2>1. InsertedList(o, [i \in 1 .. n |-> i]) = Count(n)
    BY <1>7, <1>8, InsertedInOrder
  <2> QED BY <1>2, <2>1
<1>10. MountedFiles(im) = InsertedList(MountedObjs(im), [i \in DOMAIN im.dir |-> i])
  BY Zenon DEF MountedFiles, InsertedList, Insertion
<1>11. MountedFiles(im) = Count(n)
  BY <1>1, <1>9, <1>10, Zenon
<1> QED BY <1>1, <1>2, <1>3, <1>4, <1>11

(* The file that readDirEnt makes of the entry of f. *)
LEMMA HeaderReadBack ==
  ASSUME TwelveBits, NEW f \in File, Ordered(f.chains), 0 \notin DataSectors(f),
         Len(f.chains) <= HdrChains, NEW g, g = ReadDirEnt(f.dirSec, EntOf(f))
  PROVE  /\ g \in File /\ g.ref = 0 /\ ~g.unlinked
         /\ g.ti = f.ti /\ g.attr = f.attr /\ g.chains = f.chains
         /\ g.secCount = f.secCount /\ g.eof = f.eof /\ g.dirSec = f.dirSec
<1>1. /\ f.ti \in TINames /\ f.attr \in Attrs /\ f.secCount \in Nat /\ f.eof \in Nat
      /\ f.dirSec \in Sectors /\ f.chains \in Seq(Chain)
  BY DEF File
<1>2. DecodeChains(EncodeChains(f.chains)) = f.chains
  <2>1. \A i \in DOMAIN f.chains : 0 \notin ChainSectors(f.chains[i])
    BY DEF DataSectors
  <2> QED BY <1>1, <2>1, ChainsReadBack
<1>3. PICK len \in Int :
        len = f.secCount * SectorBytes - (IF f.eof = 0 THEN 0 ELSE SectorBytes - f.eof)
  BY <1>1, SizeAssumption
<1>4. PICK os \in Names : os = LinuxName[f.ti]
  BY <1>1, NameAssumption
<1>5. EntOf(f) = [ti |-> f.ti, attr |-> f.attr, chains |-> EncodeChains(f.chains),
                  secCount |-> f.secCount, eof |-> f.eof]
  BY Zenon DEF EntOf
<1>6. PICK e : e = EntOf(f)
  OBVIOUS
<1>7. /\ e.ti = f.ti /\ e.attr = f.attr /\ e.chains = EncodeChains(f.chains)
      /\ e.secCount = f.secCount /\ e.eof = f.eof
  BY <1>5, <1>6
<1>8. g = [os |-> LinuxName[e.ti], ti |-> e.ti, attr |-> e.attr, dirSec |-> f.dirSec,
           chains |-> DecodeChains(e.chains), secCount |-> e.secCount, eof |-> e.eof,
           len |-> e.secCount * SectorBytes - (IF e.eof = 0 THEN 0 ELSE SectorBytes - e.eof),
           ref |-> 0, unlinked |-> FALSE]
  BY <1>6, Zenon DEF ReadDirEnt
<1>9. g = [os |-> os, ti |-> f.ti, attr |-> f.attr, dirSec |-> f.dirSec,
           chains |-> f.chains, secCount |-> f.secCount, eof |-> f.eof,
           len |-> len, ref |-> 0, unlinked |-> FALSE]
  BY <1>2, <1>3, <1>4, <1>7, <1>8
<1>10. g \in File
  BY <1>1, <1>9 DEF File
<1> QED BY <1>9, <1>10

(* The shortest list of distinct objects is not longer than their number. *)
LEMMA ListFits ==
  ASSUME NEW s \in Seq(Objs), NoRepeat(s)
  PROVE  DOMAIN s \subseteq Objs
<1>1. PICK n \in Nat : n = Len(s) /\ DOMAIN s = 1 .. n
  BY LenProperties
<1>2. PICK m \in Nat : m = MaxObjs /\ Objs = 1 .. m
  BY BoundAssumption DEF Objs
<1>3. IsFiniteSet(1 .. m) /\ Cardinality(1 .. m) = m /\ Cardinality(1 .. n) = n
  BY FS_Interval
<1>4. s \in [1 .. n -> 1 .. m]
  BY <1>1, <1>2
<1>5. \A i, j \in 1 .. n : s[i] = s[j] => i = j
  BY <1>1 DEF NoRepeat
<1>6. s \in Injection(1 .. n, 1 .. m)
  BY <1>4, <1>5 DEF Injection, IsInjective
<1>7. ExistsInjection(1 .. n, 1 .. m)
  BY <1>6 DEF ExistsInjection
<1>8. n <= m
  BY <1>3, <1>6, FS_Injection
<1> QED BY <1>1, <1>2, <1>8

(* The same elements are picked from two lists. *)
LEMMA PickSame ==
  ASSUME NEW S, NEW s \in Seq(S), NEW r \in Seq(S),
         NEW I \in SUBSET DOMAIN s, NEW J \in SUBSET DOMAIN r, NEW from \in [J -> I],
         \A i, j \in J : i < j => from[i] < from[j],
         \A i \in I : \E j \in J : from[j] = i,
         \A j \in J : r[j] = s[from[j]]
  PROVE  Pick(r, J) = Pick(s, I)
<1>1. PICK m \in Nat, n \in Nat : /\ m = Len(r) /\ DOMAIN r = 1 .. m /\ J \in SUBSET (1 .. m)
                                  /\ n = Len(s) /\ DOMAIN s = 1 .. n /\ I \in SUBSET (1 .. n)
  BY LenProperties
<1>2. \A i, j \in J : i <= j <=> from[i] <= from[j]
  <2> SUFFICES ASSUME NEW i \in J, NEW j \in J PROVE i <= j <=> from[i] <= from[j]
    OBVIOUS
  <2>1. PICK a \in Nat, b \in Nat : a = from[i] /\ b = from[j]
    BY <1>1
  <2>2. i \in Nat /\ j \in Nat
    BY <1>1
  <2>3. (i < j => a < b) /\ (j < i => b < a) /\ (i = j => a = b)
    BY <2>1
  <2> QED BY <2>1, <2>2, <2>3
<1>3. \A i, j \in J : from[i] = from[j] => i = j
  <2> SUFFICES ASSUME NEW i \in J, NEW j \in J, from[i] = from[j] PROVE i = j
    OBVIOUS
  <2>1. PICK a \in Nat : a = from[i] /\ a = from[j]
    BY <1>1
  <2>2. i <= j /\ j <= i
    BY <1>2, <2>1
  <2>3. i \in Nat /\ j \in Nat
    BY <1>1
  <2> QED BY <2>2, <2>3
<1>4. /\ IsFiniteSet(J) /\ IsFiniteSet(I)
      /\ \A T \in SUBSET J : IsFiniteSet(T)
  BY <1>1, RankFacts, FS_Subset
<1>5. \A T \in SUBSET J : Cardinality({from[j] : j \in T}) = Cardinality(T)
  <2> SUFFICES ASSUME NEW T \in SUBSET J PROVE Cardinality({from[j] : j \in T}) = Cardinality(T)
    OBVIOUS
  <2> DEFINE U == {from[j] : j \in T}
             g == [j \in T |-> from[j]]
  <2>1. g \in [T -> U] /\ (\A i, j \in T : g[i] = g[j] => i = j)
        /\ \A u \in U : \E j \in T : g[j] = u
    BY <1>3
  <2> HIDE DEF U, g
  <2>2. g \in Bijection(T, U)
    BY <2>1 DEF Bijection, Injection, Surjection, IsInjective
  <2>3. ExistsBijection(T, U)
    BY <2>2 DEF ExistsBijection
  <2>4. Cardinality(U) = Cardinality(T)
    BY <1>4, <2>3, FS_Bijection
  <2> QED BY <2>4 DEF U
<1>6. Cardinality(I) = Cardinality(J)
  <2>1. I = {from[j] : j \in J}
    OBVIOUS
  <2> QED BY <1>5, <2>1
<1>7. ASSUME NEW j \in J PROVE Rank(I, from[j]) = Rank(J, j)
  <2>1. {i \in I : i <= from[j]} = {from[i] : i \in {h \in J : h <= j}}
    <3>1. ASSUME NEW i \in I, i <= from[j] PROVE i \in {from[h] : h \in {h \in J : h <= j}}
      <4>1. PICK h \in J : from[h] = i
        OBVIOUS
      <4>2. h <= j
        BY <1>2, <3>1, <4>1
      <4> QED BY <4>1, <4>2
    <3>2. ASSUME NEW h \in J, h <= j PROVE from[h] \in I /\ from[h] <= from[j]
      BY <1>2, <3>2
    <3> QED BY <3>1, <3>2
  <2> QED BY <1>5, <2>1 DEF Rank
<1> DEFINE at(k) == CHOOSE j \in J : Rank(J, j) = k
           to(k) == CHOOSE i \in I : Rank(I, i) = k
           K == 1 .. Cardinality(J)
<1>8. ASSUME NEW k \in K PROVE r[at(k)] = s[to(k)]
  <2>1. /\ \A i, j \in I : Rank(I, i) = Rank(I, j) => i = j
        /\ \E j \in J : Rank(J, j) = k
    BY <1>1, RankFacts
  <2>2. at(k) \in J /\ Rank(J, at(k)) = k
    BY <2>1
  <2>3. PICK j : j \in J /\ j = at(k) /\ Rank(J, j) = k
    BY <2>2
  <2>4. from[j] \in I /\ Rank(I, from[j]) = k
    BY <1>7, <2>3
  <2>5. to(k) \in I /\ Rank(I, to(k)) = k
    BY <2>4
  <2>6. to(k) = from[j]
    BY <2>1, <2>4, <2>5
  <2>7. r[j] = s[from[j]]
    BY <2>3
  <2> QED BY <2>3, <2>6, <2>7
<1>9. Pick(r, J) = [k \in K |-> r[at(k)]] /\ Pick(s, I) = [k \in K |-> s[to(k)]]
  BY <1>6, Zenon DEF Pick, Rank
<1> HIDE DEF at, to, K
<1> QED BY <1>8, <1>9

(* The directory updateDirectory would write does not change. *)
LEMMA DirOfSame ==
  ASSUME NEW S, NEW fs \in Seq(S), NEW o, NEW q,
         \A x \in Elems(fs) : q[x].dirSec = o[x].dirSec /\ q[x].unlinked = o[x].unlinked
  PROVE  DirOf(fs, q) = DirOf(fs, o)
<1> DEFINE I == {i \in DOMAIN fs : ~o[fs[i]].unlinked}
<1>1. {i \in DOMAIN fs : ~q[fs[i]].unlinked} = I
  BY DEF Elems
<1>2. Linked(fs, q) = Pick(fs, I) /\ Linked(fs, o) = Pick(fs, I)
  BY <1>1, Zenon DEF Linked
<1>3. I \in SUBSET DOMAIN fs
  OBVIOUS
<1>4. Elems(Pick(fs, I)) = {fs[i] : i \in I}
  <2> HIDE DEF I
  <2> QED BY <1>3, PickFacts
<1>5. PICK linked : linked = Pick(fs, I)
  OBVIOUS
<1>6. \A k \in DOMAIN linked : linked[k] \in Elems(fs)
  <2>1. \A k \in DOMAIN linked : linked[k] \in {fs[i] : i \in I}
    BY <1>4, <1>5 DEF Elems
  <2> QED BY <2>1 DEF Elems
<1>7. /\ DirOf(fs, q) = [k \in DOMAIN linked |-> q[linked[k]].dirSec]
      /\ DirOf(fs, o) = [k \in DOMAIN linked |-> o[linked[k]].dirSec]
  BY <1>2, <1>5, Zenon DEF DirOf
<1> HIDE DEF I
<1>8. \A k \in DOMAIN linked : q[linked[k]].dirSec = o[linked[k]].dirSec
  BY <1>6
<1> QED BY <1>7, <1>8

(* An unlinked file leaves the list. *)
LEMMA DirOfRemove ==
  ASSUME NEW S, NEW fs \in Seq(S), NoRepeat(fs), NEW k \in DOMAIN fs, NEW o, NEW q,
         o[fs[k]].unlinked,
         \A x \in Elems(fs) \ {fs[k]} : q[x] = o[x]
  PROVE  DirOf(RemoveAt(fs, k), q) = DirOf(fs, o)
<1> DEFINE r == RemoveAt(fs, k)
           I == {i \in DOMAIN fs : ~o[fs[i]].unlinked}
           J == {j \in DOMAIN r : ~o[r[j]].unlinked}
           from == [j \in J |-> IF j < k THEN j ELSE j + 1]
<1>1. PICK n \in Nat : n = Len(fs) /\ DOMAIN fs = 1 .. n
  BY LenProperties
<1>2. /\ r \in Seq(S) /\ DOMAIN r = 1 .. n - 1
      /\ \A j \in 1 .. n - 1 : r[j] = IF j < k THEN fs[j] ELSE fs[j + 1]
  <2>1. RemoveAt(fs, k) \in Seq(S) /\ DOMAIN RemoveAt(fs, k) = 1 .. Len(fs) - 1
    BY RemoveAtFacts
  <2>2. \A j \in 1 .. Len(fs) - 1 : RemoveAt(fs, k)[j] = IF j < k THEN fs[j] ELSE fs[j + 1]
    BY RemoveAtFacts
  <2> QED BY <1>1, <2>1, <2>2
<1> HIDE DEF r
<1>3. \A j \in J : from[j] \in 1 .. n /\ from[j] # k /\ r[j] = fs[from[j]]
  BY <1>1, <1>2
<1>4. from \in [J -> I]
  <2>1. \A j \in J : from[j] \in I
    BY <1>1, <1>3
  <2> QED BY <2>1
<1>5. \A i, j \in J : i < j => from[i] < from[j]
  BY <1>1, <1>2
<1>6. \A i \in I : \E j \in J : from[j] = i
  <2> SUFFICES ASSUME NEW i \in I PROVE \E j \in J : from[j] = i
    OBVIOUS
  <2>1. i \in 1 .. n /\ i # k /\ ~o[fs[i]].unlinked
    BY <1>1
  <2>2. PICK j \in 1 .. n - 1 : i = IF j < k THEN j ELSE j + 1
    <3>1. CASE i < k
      <4>1. i \in 1 .. n - 1
        BY <1>1, <2>1, <3>1
      <4> QED BY <3>1, <4>1
    <3>2. CASE i > k
      <4>1. i - 1 \in 1 .. n - 1 /\ ~(i - 1 < k) /\ (i - 1) + 1 = i
        BY <1>1, <2>1, <3>2
      <4> QED BY <4>1
    <3> QED BY <1>1, <2>1, <3>1, <3>2
  <2>3. r[j] = fs[i]
    BY <1>2, <2>2
  <2>4. j \in J
    BY <1>2, <2>1, <2>3
  <2> QED BY <2>2, <2>4
<1>7. I \in SUBSET DOMAIN fs /\ J \in SUBSET DOMAIN r
  OBVIOUS
<1> HIDE DEF from, I, J
<1>8. Pick(r, J) = Pick(fs, I)
  <2>1. r \in Seq(S) /\ \A j \in J : r[j] = fs[from[j]]
    BY <1>2, <1>3
  <2>2. PICK f, A, B, h : f = from /\ A = I /\ B = J /\ h = r
    OBVIOUS
  <2>3. h \in Seq(S) /\ A \in SUBSET DOMAIN fs /\ B \in SUBSET DOMAIN h /\ f \in [B -> A]
    BY <1>4, <1>7, <2>1, <2>2
  <2>4. \A i, j \in B : i < j => f[i] < f[j]
    BY <1>5, <2>2
  <2>5. \A i \in A : \E j \in B : f[j] = i
    BY <1>6, <2>2
  <2>6. \A j \in B : h[j] = fs[f[j]]
    BY <2>1, <2>2
  <2>7. Pick(h, B) = Pick(fs, A)
    BY ONLY fs \in Seq(S), <2>3, <2>4, <2>5, <2>6, PickSame, SMTT(40)
  <2> QED BY <2>2, <2>7
<1>9. \A x \in Elems(r) : q[x] = o[x]
  <2>1. Elems(r) = Elems(fs) \ {fs[k]}
    BY RemoveFromList DEF r
  <2> QED BY <2>1
<1>10. DirOf(r, o) = DirOf(fs, o)
  BY <1>8, Zenon DEF DirOf, Linked, I, J
<1>11. DirOf(r, q) = DirOf(r, o)
  BY <1>2, <1>9, DirOfSame
<1> QED BY <1>10, <1>11 DEF r

-----------------------------------------------------------------------------
(* The directory of the image, in its order                                *)

(* The last image has the directory updateDirectory makes of the list, and *)
(* never calls the header and the directory free.                          *)
Directed(im, fs, o) == im.dir = DirOf(fs, o) /\ {0, 1} \subseteq im.fat

DirInv == Directed(LastImage, files, obj)

LEMMA DirectoryTyped ==
  ASSUME NEW fs, NEW o, NEW F, Sound(fs, o, F)
  PROVE  DirOf(fs, o) \in Seq(Sectors)
<1>1. /\ fs \in Seq(Objs) /\ NoRepeat(fs)
      /\ \A x \in Elems(fs) : o[x] \in File
      /\ \A x, y \in Elems(fs) : x # y => o[x].dirSec # o[y].dirSec
  BY SoundFacts DEF Sound
<1> QED BY <1>1, DirOfFacts

(* What the writes of a handler end with. *)
LEMMA EndsDirected ==
  ASSUME img \in Image, {0, 1} \subseteq img.fat, NEW d \in BOOLEAN,
         NEW F \in SUBSET Sectors, {0, 1} \subseteq F,
         NEW fs, NEW o, DirOf(fs, o) \in Seq(Sectors)
  PROVE  /\ LET i1 == PutFat(img, d, F) IN Directed(PutDir(i1, fs, o), fs, o)
         /\ LET i1 == PutDir(img, fs, o) IN Directed(PutFat(i1, d, F), fs, o)
         /\ \A f \in File : /\ Directed(Last(EntFatDir(f, d, F, fs, o)), fs, o)
                            /\ Directed(Last(FatEntDir(f, d, F, fs, o)), fs, o)
                            /\ EntFatDir(f, d, F, fs, o) # <<>>
                            /\ FatEntDir(f, d, F, fs, o) # <<>>
                            /\ Last(EntFat(f, d, F)).dir = img.dir
                            /\ {0, 1} \subseteq Last(EntFat(f, d, F)).fat
                            /\ EntFat(f, d, F) # <<>>
<1> DEFINE Ready(im) == im \in Image /\ {0, 1} \subseteq im.fat
<1>1. ASSUME NEW im, Ready(im)
      PROVE  /\ Ready(PutFat(im, d, F)) /\ Ready(PutDir(im, fs, o))
             /\ PutFat(im, d, F).dir = im.dir /\ PutDir(im, fs, o).dir = DirOf(fs, o)
  <2>1. im \in Image /\ {0, 1} \subseteq im.fat
    BY <1>1
  <2>2. /\ PutFat(im, d, F) \in Image /\ PutFat(im, d, F).dir = im.dir
        /\ PutFat(im, d, F).fat = IF d THEN F ELSE im.fat
    BY <2>1, PutFatFacts
  <2>3. /\ PutDir(im, fs, o) \in Image /\ PutDir(im, fs, o).dir = DirOf(fs, o)
        /\ PutDir(im, fs, o).fat = im.fat
    BY <2>1, PutDirFacts
  <2> QED BY <2>1, <2>2, <2>3
<1>2. ASSUME NEW im, Ready(im), NEW f \in File
      PROVE  Ready(PutEnt(im, f)) /\ PutEnt(im, f).dir = im.dir
  BY <1>2, PutEntFacts
<1>3. Ready(img)
  OBVIOUS
<1>4. \A im : Ready(im) /\ im.dir = DirOf(fs, o) => Directed(im, fs, o)
  BY DEF Directed
<1>5. \A im : Ready(im) => {0, 1} \subseteq im.fat
  OBVIOUS
<1> HIDE DEF Ready
<1>6. LET i1 == PutFat(img, d, F) IN Directed(PutDir(i1, fs, o), fs, o)
  BY <1>1, <1>3, <1>4
<1>7. LET i1 == PutDir(img, fs, o) IN Directed(PutFat(i1, d, F), fs, o)
  BY <1>1, <1>3, <1>4
<1>8. ASSUME NEW f \in File
      PROVE  /\ Directed(Last(EntFatDir(f, d, F, fs, o)), fs, o)
             /\ Directed(Last(FatEntDir(f, d, F, fs, o)), fs, o)
             /\ EntFatDir(f, d, F, fs, o) # <<>> /\ FatEntDir(f, d, F, fs, o) # <<>>
             /\ Last(EntFat(f, d, F)).dir = img.dir
             /\ {0, 1} \subseteq Last(EntFat(f, d, F)).fat
             /\ EntFat(f, d, F) # <<>>
  <2>1. PICK a, b, c : /\ a = PutEnt(img, f) /\ b = PutFat(a, d, F) /\ c = PutDir(b, fs, o)
                       /\ Ready(b) /\ b.dir = img.dir /\ Directed(c, fs, o)
    BY <1>1, <1>2, <1>3, <1>4
  <2>2. PICK x, y, z : /\ x = PutFat(img, d, F) /\ y = PutEnt(x, f) /\ z = PutDir(y, fs, o)
                       /\ Directed(z, fs, o)
    BY <1>1, <1>2, <1>3, <1>4
  <2>3. /\ EntFatDir(f, d, F, fs, o) = <<a, b, c>> /\ EntFat(f, d, F) = <<a, b>>
        /\ FatEntDir(f, d, F, fs, o) = <<x, y, z>>
    BY <2>1, <2>2, Zenon DEF EntFatDir, FatEntDir, EntFat
  <2>4. Last(<<a, b, c>>) = c /\ Last(<<x, y, z>>) = z /\ Last(<<a, b>>) = b
    BY DEF Last
  <2>5. <<a, b, c>> # <<>> /\ <<x, y, z>> # <<>> /\ <<a, b>> # <<>>
    OBVIOUS
  <2> QED BY <1>5, <2>1, <2>2, <2>3, <2>4, <2>5
<1> QED BY <1>6, <1>7, <1>8

(* Steps that keep the list, and of its files what the directory shows. *)
LEMMA DirKept ==
  ASSUME IInv, DirInv, LastImage'.dir = LastImage.dir, {0, 1} \subseteq LastImage'.fat,
         files' = files,
         \A x \in Listed : obj'[x].dirSec = obj[x].dirSec /\ obj'[x].unlinked = obj[x].unlinked
  PROVE  DirInv'
<1>1. files \in Seq(Objs) /\ Listed = Elems(files)
  BY ListFacts
<1>2. PICK q : q = obj'
  OBVIOUS
<1>3. DirOf(files, q) = DirOf(files, obj)
  BY <1>1, <1>2, DirOfSame
<1>4. DirOf(files', obj') = DirOf(files, obj)
  BY <1>2, <1>3
<1> QED BY <1>4 DEF DirInv, Directed

(* One file of the list changes. *)
LEMMA DirUpdated ==
  ASSUME IInv, DirInv, LastImage'.dir = LastImage.dir, {0, 1} \subseteq LastImage'.fat,
         files' = files, NEW o \in Listed, NEW g, obj' = [obj EXCEPT ![o] = g],
         g.dirSec = obj[o].dirSec, g.unlinked = obj[o].unlinked
  PROVE  DirInv'
<1>1. \A x \in Listed : obj'[x] = IF x = o THEN g ELSE obj[x]
  BY ListFacts DEF IInv, MemoryTypeOK
<1> QED BY <1>1, DirKept

LEMMA DiskKept ==
  ASSUME DirInv, UNCHANGED disk
  PROVE  LastImage'.dir = LastImage.dir /\ {0, 1} \subseteq LastImage'.fat
<1>1. LastImage' = LastImage
  BY DEF disk, LastImage
<1> QED BY <1>1 DEF DirInv, Directed

(* A header is synced. *)
LEMMA SyncKept ==
  ASSUME IInv, ImageInv, DirInv, pend = <<>>, NEW g \in File, pend' = EntFat(g, fatDirty, fat)
  PROVE  LastImage'.dir = LastImage.dir /\ {0, 1} \subseteq LastImage'.fat
<1>1. LastImage = img /\ img \in Image /\ {0, 1} \subseteq img.fat
  BY DEF LastImage, ImageInv, DirInv, Directed
<1>2. fatDirty \in BOOLEAN /\ fat \in SUBSET Sectors /\ {0, 1} \subseteq fat
  BY DEF IInv, MemoryTypeOK, Reserved
<1>3. DirOf(files, obj) \in Seq(Sectors)
  BY SoundNow, DirectoryTyped
<1>4. /\ Last(EntFat(g, fatDirty, fat)).dir = img.dir
      /\ {0, 1} \subseteq Last(EntFat(g, fatDirty, fat)).fat
      /\ EntFat(g, fatDirty, fat) # <<>>
  BY <1>1, <1>2, <1>3, EndsDirected
<1>5. LastImage' = Last(pend')
  BY <1>4 DEF LastImage
<1> QED BY <1>1, <1>4, <1>5

(* The write loop fills a sector. *)
LEMMA DataKept ==
  ASSUME ImageInv, DirInv, pend = <<>>, pend' = pend, NEW s \in Sectors, PutData(s)
  PROVE  LastImage'.dir = LastImage.dir /\ {0, 1} \subseteq LastImage'.fat
<1>1. LastImage = img /\ LastImage' = img' /\ img \in Image
  BY DEF LastImage, ImageInv
<1>2. img'.dir = img.dir /\ img'.fat = img.fat
  BY <1>1, PutDataFacts
<1> QED BY <1>1, <1>2 DEF DirInv, Directed

LEMMA OpenDir ==
  ASSUME IInv, DirInv, NEW n \in Names, NEW h \in Handles, Open(n, h)
  PROVE  DirInv'
<1>1. PICK o \in Listed : obj' = [obj EXCEPT ![o] = [obj[o] EXCEPT !.ref = @ + 1]]
  BY DEF Open, Listed
<1>2. PICK f \in File : f = obj[o]
  BY ListFacts
<1>3. PICK r \in Int : r = f.ref + 1
  BY DEF File
<1>4. PICK g : g = [f EXCEPT !.ref = r]
  OBVIOUS
<1>5. obj' = [obj EXCEPT ![o] = g]
  BY <1>1, <1>2, <1>3, <1>4
<1>6. g.dirSec = obj[o].dirSec /\ g.unlinked = obj[o].unlinked
  BY <1>2, <1>4, RefShowsSame
<1>7. files' = files /\ UNCHANGED disk
  BY DEF Open
<1>8. LastImage'.dir = LastImage.dir /\ {0, 1} \subseteq LastImage'.fat
  BY <1>7, DiskKept
<1> QED BY <1>5, <1>6, <1>7, <1>8, DirUpdated

LEMMA ReleaseDir ==
  ASSUME IInv, DirInv, NEW h \in Handles, Release(h)
  PROVE  DirInv'
<1>1. PICK o \in Listed : o = fd[h]
  BY DEF Release, IInv, HandlesLive
<1>2. UNCHANGED disk
  BY DEF Release
<1>3. LastImage'.dir = LastImage.dir /\ {0, 1} \subseteq LastImage'.fat
  BY <1>2, DiskKept
<1>4. ASSUME NEW i \in DOMAIN files, files[i] = o, DeleteAt(i), obj[o].unlinked
      PROVE  DirInv'
  <2>1. files \in Seq(Objs) /\ NoRepeat(files) /\ Listed = Elems(files)
    BY ListFacts
  <2>2. Listed' = Listed \ {o} /\ \A p \in Listed' : obj'[p] = obj[p]
    BY <1>4, DeleteInv
  <2>3. PICK q : q = obj'
    OBVIOUS
  <2>4. \A x \in Elems(files) \ {files[i]} : q[x] = obj[x]
    BY <1>4, <2>1, <2>2, <2>3
  <2>5. DirOf(RemoveAt(files, i), q) = DirOf(files, obj)
    BY <1>4, <2>1, <2>4, DirOfRemove
  <2>6. DirOf(files', obj') = DirOf(files, obj)
    BY <1>4, <2>3, <2>5 DEF DeleteAt
  <2> QED BY <1>3, <2>6 DEF DirInv, Directed
<1>5. ASSUME obj' = [obj EXCEPT ![o].ref = @ - 1], files' = files
      PROVE  DirInv'
  <2>1. obj' = [obj EXCEPT ![o] = [obj[o] EXCEPT !.ref = @ - 1]]
    BY <1>5
  <2>2. PICK f \in File : f = obj[o]
    BY ListFacts
  <2>3. PICK r \in Int : r = f.ref - 1
    BY DEF File
  <2>4. PICK g : g = [f EXCEPT !.ref = r]
    OBVIOUS
  <2>5. obj' = [obj EXCEPT ![o] = g]
    BY <2>1, <2>2, <2>3, <2>4
  <2>6. g.dirSec = obj[o].dirSec /\ g.unlinked = obj[o].unlinked
    BY <2>2, <2>4, RefShowsSame
  <2> QED BY <1>3, <1>5, <2>5, <2>6, DirUpdated
<1>6. \/ obj[o].unlinked /\ (\E i \in DOMAIN files : files[i] = o /\ DeleteAt(i))
      \/ obj' = [obj EXCEPT ![o].ref = @ - 1] /\ files' = files
  BY <1>1 DEF Release
<1> QED BY <1>4, <1>5, <1>6

LEMMA SetXattrDir ==
  ASSUME IInv, IInv', ImageInv, DirInv, NEW n \in Names, NEW a \in Attrs, SetXattr(n, a)
  PROVE  DirInv'
<1>1. PICK o \in Listed :
        /\ obj' = [obj EXCEPT ![o] = [obj[o] EXCEPT !.attr = a]]
        /\ pend' = EntFat([obj[o] EXCEPT !.attr = a], fatDirty, fat)
  BY DEF SetXattr, Listed
<1>2. PICK f \in File : f = obj[o]
  BY ListFacts
<1>3. PICK g : g = [f EXCEPT !.attr = a]
  OBVIOUS
<1>4. g \in File /\ g.dirSec = f.dirSec /\ g.unlinked = f.unlinked
  BY <1>3 DEF File
<1>5. pend = <<>> /\ files' = files
  BY DEF SetXattr, Idle
<1>6. obj' = [obj EXCEPT ![o] = g] /\ pend' = EntFat(g, fatDirty, fat)
  BY <1>1, <1>2, <1>3
<1>7. LastImage'.dir = LastImage.dir /\ {0, 1} \subseteq LastImage'.fat
  BY <1>4, <1>5, <1>6, SyncKept
<1> QED BY <1>2, <1>4, <1>5, <1>6, <1>7, DirUpdated

LEMMA WriteEndDir ==
  ASSUME IInv, IInv', ImageInv, DirInv, WriteEnd
  PROVE  DirInv'
<1>1. PICK o \in Listed : o = io.file
  BY WritingListed DEF WriteEnd
<1>2. PICK f \in File : f = obj[o]
  BY ListFacts
<1>3. PICK g : /\ obj' = [obj EXCEPT ![o] = g] /\ pend' = EntFat(g, fatDirty, fat)
               /\ \/ g = [f EXCEPT !.len = io.newLen, !.eof = io.newLen % SectorBytes]
                  \/ g = f
  BY <1>1, <1>2 DEF WriteEnd
<1>4. g.dirSec = f.dirSec /\ g.unlinked = f.unlinked
  BY <1>3 DEF File
<1>5. files' = files /\ io.file # 0
  BY DEF WriteEnd
<1>6. pend = <<>>
  BY <1>5 DEF ImageInv, NoIO
<1>7. g \in File
  <2>1. Listed \subseteq Objs /\ Listed' = Listed
    BY <1>5, ListFacts DEF Listed
  <2>2. obj'[o] = g
    BY <1>3, <2>1 DEF IInv, MemoryTypeOK
  <2>3. \A x \in Listed' : obj'[x] \in File
    BY DEF IInv, MemoryTypeOK, Listed
  <2> QED BY <2>1, <2>2, <2>3
<1>8. LastImage'.dir = LastImage.dir /\ {0, 1} \subseteq LastImage'.fat
  BY <1>3, <1>6, <1>7, SyncKept
<1> QED BY <1>2, <1>3, <1>4, <1>5, <1>8, DirUpdated

LEMMA WriteExistingDir ==
  ASSUME WriteInv, ImageInv, DirInv, WriteExisting
  PROVE  DirInv'
<1>1. /\ io.len # 0 /\ io.avail # 0 /\ PutData(io.sector)
      /\ UNCHANGED <<fat, fatDirty, files, obj, fd, pend>>
  BY DEF WriteExisting
<1>2. IInv
  BY DEF WriteInv
<1>3. io.file \in Listed
  BY <1>1, <1>2, WritingListed
<1>4. pend = <<>>
  BY <1>1 DEF ImageInv, NoIO
<1>5. PICK s : s = io.sector
  OBVIOUS
<1>6. s \in DataSectors(obj[io.file])
  BY <1>1, <1>5 DEF WriteInv, WritePlace, DataSectors
<1>7. s \in Sectors
  BY <1>2, <1>3, <1>6 DEF IInv, OwnedSectors, FileSectors, MemoryTypeOK
<1>8. LastImage'.dir = LastImage.dir /\ {0, 1} \subseteq LastImage'.fat
  BY <1>1, <1>4, <1>5, <1>7, DataKept
<1> QED BY <1>1, <1>2, <1>8, DirKept

LEMMA WriteExtendDir ==
  ASSUME IInv, ImageInv, DirInv, WriteExtend
  PROVE  DirInv'
<1>1. io.len # 0 /\ pend' = pend /\ files' = files
  BY DEF WriteExtend
<1>2. io.file \in Listed
  BY <1>1, WritingListed
<1>3. pend = <<>>
  BY <1>1 DEF ImageInv, NoIO
<1>4. PICK s \in Sectors, g \in File :
        /\ FindFree(FirstDataSector, s) /\ PutData(s)
        /\ Extends(io.file, obj[io.file], g, s)
  BY ExtendStep
<1>5. /\ \A x \in Listed : obj'[x] = IF x = io.file THEN g ELSE obj[x]
      /\ g.dirSec = obj[io.file].dirSec /\ g.unlinked = obj[io.file].unlinked
  BY <1>4 DEF Extends
<1>6. LastImage'.dir = LastImage.dir /\ {0, 1} \subseteq LastImage'.fat
  BY <1>1, <1>3, <1>4, DataKept
<1> QED BY <1>1, <1>5, <1>6, DirKept

(* A write of a handler does not change the last. *)
LEMMA DiskWriteDir ==
  ASSUME IInv, ImageInv, DirInv, DiskWrite
  PROVE  DirInv'
<1>1. /\ pend # <<>> /\ img' = Head(pend) /\ pend' = Tail(pend)
      /\ files' = files /\ obj' = obj
  BY DEF DiskWrite, memory
<1>2. pend \in Seq(Image) /\ InStep(img, pend) /\ \A i \in DOMAIN pend : Good(pend[i])
  BY DEF ImageInv
<1>3. Last(pend) = IF Tail(pend) = <<>> THEN Head(pend) ELSE Last(Tail(pend))
  BY <1>1, <1>2, TailImages
<1>4. LastImage' = LastImage
  BY <1>1, <1>3 DEF LastImage
<1> QED BY <1>1, <1>4 DEF DirInv, Directed

LEMMA SameFilesDir ==
  ASSUME IInv, DirInv, UNCHANGED <<files, obj>>, UNCHANGED disk
  PROVE  DirInv'
<1>1. LastImage'.dir = LastImage.dir /\ {0, 1} \subseteq LastImage'.fat
  BY DiskKept
<1> QED BY <1>1, DirKept

(* What the last write of a handler finds. *)
LEMMA HandlerEnd ==
  ASSUME IInv, IInv', ImageInv, DirInv, pend = <<>>,
         NEW fs, NEW o, NEW F, fs = files', o = obj', F = fat'
  PROVE  /\ img \in Image /\ {0, 1} \subseteq img.fat /\ fatDirty \in BOOLEAN
         /\ F \in SUBSET Sectors /\ {0, 1} \subseteq F
         /\ DirOf(fs, o) \in Seq(Sectors)
         /\ \A x \in Elems(fs) : o[x] \in File
<1>1. img \in Image /\ {0, 1} \subseteq img.fat
  BY DEF ImageInv, DirInv, Directed, LastImage
<1>2. Sound(fs, o, F)
  BY SoundNext
<1>3. {0, 1} \subseteq F
  BY DEF IInv, Reserved
<1> QED BY <1>1, <1>2, <1>3, DirectoryTyped DEF IInv, MemoryTypeOK, Sound

LEMMA CreateDir ==
  ASSUME IInv, IInv', ImageInv, DirInv, NEW n \in Names, NEW h \in Handles, Create(n, h)
  PROVE  DirInv'
<1> DEFINE new(d) == [os |-> n, ti |-> TIName[n], attr |-> 0, dirSec |-> d,
                      chains |-> <<>>, secCount |-> 0, eof |-> 0, len |-> 0,
                      ref |-> 1, unlinked |-> FALSE]
<1>1. PICK o \in Objs, d \in Sectors :
        /\ NewObject(o)
        /\ obj' = [obj EXCEPT ![o] = new(d)]
        /\ \E p \in InsertPlaces(files, obj, TIName[n]) : files' = InsertAt(files, p, o)
        /\ pend' = EntFatDir(new(d), TRUE, fat', files', obj')
  BY DEF Create
<1>. HIDE DEF new
<1>2. pend = <<>>
  BY DEF Create, Idle
<1>3. /\ files \in Seq(Objs) /\ NoRepeat(files) /\ Listed = Elems(files)
      /\ o \notin Listed
  BY <1>1, ListFacts DEF NewObject
<1>4. o \in Elems(files')
  <2>1. PICK p \in 1 .. Len(files) + 1 : files' = InsertAt(files, p, o)
    BY <1>1 DEF InsertPlaces
  <2> QED BY <1>3, <2>1, InsertIntoList
<1>5. PICK fs, q, F, f : fs = files' /\ q = obj' /\ F = fat' /\ f = new(d)
  OBVIOUS
<1>6. /\ img \in Image /\ {0, 1} \subseteq img.fat
      /\ F \in SUBSET Sectors /\ {0, 1} \subseteq F /\ DirOf(fs, q) \in Seq(Sectors)
      /\ \A x \in Elems(fs) : q[x] \in File
  BY <1>2, <1>5, HandlerEnd
<1>7. f \in File
  <2>1. obj'[o] = new(d)
    BY <1>1 DEF IInv, MemoryTypeOK
  <2> QED BY <1>4, <1>5, <1>6, <2>1
<1>8. /\ Directed(Last(EntFatDir(f, TRUE, F, fs, q)), fs, q)
      /\ EntFatDir(f, TRUE, F, fs, q) # <<>>
  BY <1>6, <1>7, EndsDirected
<1>9. pend' = EntFatDir(f, TRUE, F, fs, q)
  BY <1>1, <1>5
<1>10. LastImage' = Last(pend')
  BY <1>8, <1>9 DEF LastImage
<1> QED BY <1>5, <1>8, <1>9, <1>10 DEF DirInv

LEMMA RenameDir ==
  ASSUME IInv, IInv', ImageInv, DirInv, NEW n \in Names, NEW m \in Names, Rename(n, m)
  PROVE  DirInv'
<1>1. PICK i \in DOMAIN files :
        LET o == files[i]
            f == [obj[o] EXCEPT !.os = m, !.ti = TIName[m], !.ref = @ + 1]
        IN  /\ obj' = [obj EXCEPT ![o] = f]
            /\ LET linked == Linked(files', obj')
               IN pend' = IF linked # <<>> /\ linked[1] # o
                          THEN FatEntDir(f, fatDirty, fat, files', obj')
                          ELSE EntFatDir(f, fatDirty, fat, files', obj')
  BY Zenon DEF Rename
<1>2. PICK o \in Listed : o = files[i]
  BY DEF Listed
<1>3. PICK g : g = [obj[o] EXCEPT !.os = m, !.ti = TIName[m], !.ref = @ + 1]
  OBVIOUS
<1>4. /\ obj' = [obj EXCEPT ![o] = g]
      /\ \/ pend' = FatEntDir(g, fatDirty, fat, files', obj')
         \/ pend' = EntFatDir(g, fatDirty, fat, files', obj')
  BY <1>1, <1>2, <1>3
<1>5. pend = <<>> /\ fat' = fat
  BY DEF Rename, Idle
<1>6. /\ Listed' = Elems(files') /\ Listed' = Listed /\ Listed \subseteq Objs
  BY ListFacts, RenameKeeps
<1>7. obj'[o] = g
  BY <1>4, <1>6 DEF IInv, MemoryTypeOK
<1>8. PICK fs, q, F : fs = files' /\ q = obj' /\ F = fat'
  OBVIOUS
<1>9. /\ img \in Image /\ {0, 1} \subseteq img.fat /\ fatDirty \in BOOLEAN
      /\ F \in SUBSET Sectors /\ {0, 1} \subseteq F /\ DirOf(fs, q) \in Seq(Sectors)
      /\ \A x \in Elems(fs) : q[x] \in File
  BY <1>5, <1>8, HandlerEnd
<1>10. g \in File
  BY <1>6, <1>7, <1>8, <1>9
<1>11. /\ Directed(Last(EntFatDir(g, fatDirty, F, fs, q)), fs, q)
       /\ Directed(Last(FatEntDir(g, fatDirty, F, fs, q)), fs, q)
       /\ EntFatDir(g, fatDirty, F, fs, q) # <<>>
       /\ FatEntDir(g, fatDirty, F, fs, q) # <<>>
  BY <1>9, <1>10, EndsDirected
<1>12. pend' = FatEntDir(g, fatDirty, F, fs, q) \/ pend' = EntFatDir(g, fatDirty, F, fs, q)
  BY <1>4, <1>5, <1>8
<1>13. LastImage' = Last(pend')
  BY <1>11, <1>12 DEF LastImage
<1> QED BY <1>8, <1>11, <1>12, <1>13 DEF DirInv

LEMMA UnlinkDir ==
  ASSUME IInv, IInv', ImageInv, DirInv, NEW n \in Names, Unlink(n)
  PROVE  DirInv'
<1>1. PICK i \in DOMAIN files :
        LET dirty == fatDirty \/ obj[files[i]].ref = 0
        IN  pend' = IF Linked(files', obj') # <<>>
                    THEN LET i1 == PutFat(img, dirty, fat')
                         IN <<i1, PutDir(i1, files', obj')>>
                    ELSE LET i1 == PutDir(img, files', obj')
                         IN <<i1, PutFat(i1, dirty, fat')>>
  BY Zenon DEF Unlink
<1>2. PICK d \in BOOLEAN : d = (fatDirty \/ obj[files[i]].ref = 0)
  OBVIOUS
<1>3. pend = <<>>
  BY DEF Unlink, Idle
<1>4. PICK fs, q, F : fs = files' /\ q = obj' /\ F = fat'
  OBVIOUS
<1>5. /\ img \in Image /\ {0, 1} \subseteq img.fat
      /\ F \in SUBSET Sectors /\ {0, 1} \subseteq F /\ DirOf(fs, q) \in Seq(Sectors)
  BY <1>3, <1>4, HandlerEnd
<1>6. /\ LET i1 == PutFat(img, d, F) IN Directed(PutDir(i1, fs, q), fs, q)
      /\ LET i1 == PutDir(img, fs, q) IN Directed(PutFat(i1, d, F), fs, q)
  BY <1>5, EndsDirected
<1>7. \/ LET i1 == PutFat(img, d, F) IN pend' = <<i1, PutDir(i1, fs, q)>>
      \/ LET i1 == PutDir(img, fs, q) IN pend' = <<i1, PutFat(i1, d, F)>>
  BY <1>1, <1>2, <1>4
<1>8. PICK a, b : pend' = <<a, b>> /\ Directed(b, fs, q)
  BY <1>6, <1>7
<1>9. pend' # <<>> /\ Last(pend') = b
  BY <1>8 DEF Last
<1>10. LastImage' = b
  BY <1>9 DEF LastImage
<1> QED BY <1>4, <1>8, <1>10 DEF DirInv

LEMMA DirNext ==
  ASSUME MidSectorAppend = FALSE, WriteInv, DirectorySorted, ImageInv, DirInv, [Next]_vars
  PROVE  WriteInv' /\ DirectorySorted' /\ ImageInv' /\ DirInv'
<1>0. IInv /\ WriteInv' /\ DirectorySorted' /\ ImageInv' /\ IInv'
  <2>1. WriteInv' /\ DirectorySorted' /\ ImageInv'
    BY WriteNext, ImageNext
  <2> QED BY <2>1 DEF WriteInv
<1>1. CASE \E n \in Names, h \in Handles : Create(n, h)
  BY <1>0, <1>1, CreateDir
<1>2. CASE \E n \in Names, h \in Handles : Open(n, h)
  BY <1>0, <1>2, OpenDir
<1>3. CASE \E h \in Handles : Release(h)
  BY <1>0, <1>3, ReleaseDir
<1>4. CASE \E n \in Names : Unlink(n)
  BY <1>0, <1>4, UnlinkDir
<1>5. CASE \E n, m \in Names : Rename(n, m)
  BY <1>0, <1>5, RenameDir
<1>6. CASE \E n \in Names, a \in Attrs : SetXattr(n, a)
  BY <1>0, <1>6, SetXattrDir
<1>7. CASE \E h \in Handles, r \in Requests : WriteStart(h, r[1], r[2])
  BY <1>0, <1>7, SameFilesDir DEF WriteStart
<1>8. CASE WriteExisting
  BY <1>0, <1>8, WriteExistingDir
<1>9. CASE WriteExtend
  BY <1>0, <1>9, WriteExtendDir
<1>10. CASE WriteFull
  BY <1>0, <1>10, SameFilesDir DEF WriteFull
<1>11. CASE WriteEnd
  BY <1>0, <1>11, WriteEndDir
<1>12. CASE DiskWrite
  BY <1>0, <1>12, DiskWriteDir
<1>13. CASE UNCHANGED vars
  BY <1>0, <1>13, SameFilesDir DEF vars, memory
<1>14. DirInv'
  BY <1>1, <1>2, <1>3, <1>4, <1>5, <1>6, <1>7, <1>8, <1>9, <1>10, <1>11, <1>12, <1>13
     DEF Next, Handler, WriteLoop
<1> QED BY <1>0, <1>14

LEMMA DirInit == Init => DirInv
<1> SUFFICES ASSUME Init PROVE DirInv
  OBVIOUS
<1>1. files = <<>> /\ pend = <<>> /\ img.dir = <<>> /\ img.fat = {0, 1}
  BY DEF Init
<1>2. Sound(files, obj, fat)
  BY InitInv, SoundNow
<1>3. DirOf(files, obj) \in Seq(Sectors) /\ Elems(DirOf(files, obj)) = {}
  <2>1. /\ files \in Seq(Objs) /\ NoRepeat(files)
        /\ \A x \in Elems(files) : obj[x] \in File
        /\ \A x, y \in Elems(files) : x # y => obj[x].dirSec # obj[y].dirSec
    BY <1>2, SoundFacts DEF Sound
  <2>2. Elems(files) = {} /\ LinkedIn(Elems(files), obj) = {}
    BY <1>1 DEF Elems, LinkedIn
  <2> QED BY <2>1, <2>2, DirOfFacts
<1>4. DirOf(files, obj) = <<>>
  <2>1. DOMAIN DirOf(files, obj) = {}
    BY <1>3 DEF Elems
  <2> QED BY <1>3, <2>1
<1> QED BY <1>1, <1>4 DEF DirInv, Directed, LastImage

LEMMA SpecDirInv ==
  ASSUME MidSectorAppend = FALSE
  PROVE  Spec => [](WriteInv /\ DirectorySorted /\ ImageInv /\ DirInv)
<1>1. WriteInv /\ DirectorySorted /\ ImageInv /\ DirInv /\ [Next]_vars
        => WriteInv' /\ DirectorySorted' /\ ImageInv' /\ DirInv'
  BY DirNext
<1>2. QED
  BY <1>1, WriteInit, ImageInit, DirInit, PTL DEF Spec

-----------------------------------------------------------------------------
(* What a mount finds                                                      *)

(* Object i of the mounted volume is read from the entry of the i-th       *)
(* linked file, and the list has the objects in their order.               *)
Remounted(l, n) ==
  /\ l \in Seq(Objs) /\ DOMAIN l = 1 .. n /\ 1 .. n \subseteq Objs
  /\ NoRepeat(l) /\ Elems(l) = LinkedFiles
  /\ MountedFiles(img) = Count(n)
  /\ DOMAIN MountedObjs(img) = Objs
  /\ \A i \in 1 .. n : /\ img.dir[i] = obj[l[i]].dirSec
                       /\ MountedObjs(img)[i] = ReadDirEnt(obj[l[i]].dirSec, EntOf(obj[l[i]]))
  /\ \A i \in Objs \ 1 .. n : MountedObjs(img)[i] = NilFile
  /\ DOMAIN img.dir = 1 .. n

LEMMA MountShows ==
  ASSUME IInv, ImageInv, DirInv, Idle
  PROVE  \E n \in Nat : n = Len(Linked(files, obj)) /\ Remounted(Linked(files, obj), n)
<1>1. /\ img \in Image /\ Good(img) /\ LastImage = img
      /\ Settled(img, files, obj, fat, fatDirty, 0)
  BY DEF ImageInv, LastImage, Idle, NoIO
<1>2. Mountable(img) /\ InNameOrder(img)
  BY <1>1 DEF Good, Settled
<1>3. /\ files \in Seq(Objs) /\ NoRepeat(files) /\ Listed = Elems(files)
  BY ListFacts
<1> DEFINE I == {i \in DOMAIN files : ~obj[files[i]].unlinked}
<1>4. PICK l : l = Linked(files, obj) /\ l = Pick(files, I)
  BY Zenon DEF Linked
<1>5. /\ l \in Seq(Objs) /\ NoRepeat(l) /\ Elems(l) = {files[i] : i \in I}
  <2>1. I \in SUBSET DOMAIN files
    OBVIOUS
  <2> HIDE DEF I
  <2> QED BY <1>3, <1>4, <2>1, PickFacts
<1>6. Elems(l) = LinkedFiles
  BY <1>3, <1>5 DEF LinkedFiles, Elems
<1>7. DOMAIN l \subseteq Objs
  BY <1>5, ListFits
<1>8. PICK n \in Nat : n = Len(l) /\ DOMAIN l = 1 .. n
  BY <1>5, LenProperties
<1>9. img.dir = [i \in DOMAIN l |-> obj[l[i]].dirSec]
  <2>1. img.dir = DirOf(files, obj)
    BY <1>1 DEF DirInv, Directed
  <2> QED BY <1>4, <2>1, Zenon DEF DirOf
<1>10. DOMAIN img.dir = 1 .. n /\ \A i \in 1 .. n : img.dir[i] = obj[l[i]].dirSec
  BY <1>8, <1>9
<1>11. Len(img.dir) = n
  BY <1>1, <1>8, <1>10, LenProperties DEF Image
<1>12. /\ MountedFiles(img) = Count(n)
       /\ \A i \in 1 .. n : MountedObjs(img)[i] = ReadDirEnt(img.dir[i], img.ent[img.dir[i]])
       /\ \A i \in Objs \ 1 .. n : MountedObjs(img)[i] = NilFile
       /\ DOMAIN MountedObjs(img) = Objs
  <2>1. DOMAIN img.dir \subseteq Objs
    BY <1>7, <1>8, <1>10
  <2> QED BY <1>1, <1>2, <1>11, <2>1, MountLists
<1>13. \A x \in LinkedFiles : img.ent[obj[x].dirSec] = EntOf(obj[x])
  <2>1. LinkedFiles = LinkedIn(Elems(files), obj) /\ 0 \notin LinkedFiles
    BY LinkedIsIn, ListedNotZero DEF LinkedIn
  <2> QED BY <1>1, <2>1 DEF Settled, Holds
<1>14. \A i \in 1 .. n : l[i] \in LinkedFiles
  BY <1>6, <1>8 DEF Elems
<1>15. \A i \in 1 .. n : MountedObjs(img)[i] = ReadDirEnt(obj[l[i]].dirSec, EntOf(obj[l[i]]))
  BY <1>10, <1>12, <1>13, <1>14
<1>16. Remounted(l, n)
  BY <1>5, <1>6, <1>7, <1>8, <1>10, <1>12, <1>15 DEF Remounted
<1> QED BY <1>4, <1>8, <1>16

(* No file has more chains than its header can carry. *)
Fits == \A o \in Listed : Len(obj[o].chains) <= HdrChains

(* A file read back has the header, and so the sectors, of the file.       *)
LEMMA ReadBack ==
  ASSUME TwelveBits, IInv, Fits, NEW x \in Listed, NEW g,
         g = ReadDirEnt(obj[x].dirSec, EntOf(obj[x]))
  PROVE  /\ g \in File /\ g.ref = 0 /\ ~g.unlinked
         /\ Header(g) = Header(obj[x])
         /\ g.chains = obj[x].chains /\ g.secCount = obj[x].secCount
         /\ g.ti = obj[x].ti /\ g.dirSec = obj[x].dirSec
         /\ EntOf(g) = EntOf(obj[x]) /\ FileSectors(g) = FileSectors(obj[x])
<1>1. PICK f \in File : f = obj[x]
  BY ListFacts
<1>2. Ordered(f.chains) /\ 0 \notin DataSectors(f)
  BY <1>1 DEF IInv, ChainsOrdered, Ordered, OwnedSectors, FileSectors
<1>3. Len(f.chains) <= HdrChains
  BY <1>1 DEF Fits
<1>4. g = ReadDirEnt(f.dirSec, EntOf(f))
  BY <1>1
<1>5. /\ g \in File /\ g.ref = 0 /\ ~g.unlinked
      /\ g.ti = f.ti /\ g.attr = f.attr /\ g.chains = f.chains
      /\ g.secCount = f.secCount /\ g.eof = f.eof /\ g.dirSec = f.dirSec
  BY <1>2, <1>3, <1>4, HeaderReadBack
<1>6. Header(g) = Header(f) /\ EntOf(g) = EntOf(f)
  BY <1>5, Zenon DEF Header, EntOf
<1>7. FileSectors(g) = FileSectors(f)
  BY <1>5, Zenon DEF FileSectors, DataSectors
<1> QED BY <1>1, <1>5, <1>6, <1>7

LEMMA MountIsCurrent ==
  ASSUME TwelveBits, IInv, ImageInv, DirInv
  PROVE  ImageCurrent
<1> SUFFICES ASSUME Idle, Fits
             PROVE  LET linked == Linked(files, obj)
                        mounted == MountedFiles(img)
                    IN  /\ Len(mounted) = Len(linked)
                        /\ \A i \in DOMAIN linked :
                             Header(MountedObjs(img)[mounted[i]]) = Header(obj[linked[i]])
  BY Zenon DEF ImageCurrent, Fits
<1>0. PICK l : l = Linked(files, obj)
  OBVIOUS
<1>1. PICK n \in Nat : n = Len(l) /\ Remounted(l, n)
  BY <1>0, MountShows
<1>2. PICK m : m = MountedFiles(img) /\ m = Count(n)
  BY <1>1 DEF Remounted
<1>3. Len(m) = n /\ \A i \in 1 .. n : m[i] = i
  BY <1>2 DEF Count
<1>4. ASSUME NEW i \in DOMAIN l PROVE Header(MountedObjs(img)[m[i]]) = Header(obj[l[i]])
  <2>1. i \in 1 .. n /\ m[i] = i /\ l[i] \in Listed
    BY <1>1, <1>3 DEF Remounted, Elems, LinkedFiles
  <2>2. PICK g : g = MountedObjs(img)[i] /\ g = ReadDirEnt(obj[l[i]].dirSec, EntOf(obj[l[i]]))
    BY <1>1, <2>1 DEF Remounted
  <2>3. Header(g) = Header(obj[l[i]])
    BY <2>1, <2>2, ReadBack
  <2> QED BY <2>1, <2>2, <2>3
<1> QED BY <1>0, <1>1, <1>2, <1>3, <1>4

(* Between handlers a mount of the image would show the files memory has,  *)
(* in the same order, on a volume whose sector numbers fit in 12 bits.     *)
THEOREM MountShowsMemory ==
  ASSUME MidSectorAppend = FALSE, SectorCount <= 4096 PROVE Spec => []ImageCurrent
<1>1. TwelveBits
  BY DEF TwelveBits
<1>2. WriteInv /\ ImageInv /\ DirInv => ImageCurrent
  BY <1>1, MountIsCurrent DEF WriteInv
<1> QED BY <1>2, SpecDirInv, PTL

-----------------------------------------------------------------------------
(* Several sessions                                                        *)

LEMMA RemountFiles ==
  ASSUME TwelveBits, IInv, Fits, Remount, NEW l, NEW n \in Nat, Remounted(l, n)
  PROVE  /\ files' = Count(n) /\ files' \in Seq(Objs) /\ NoRepeat(files')
         /\ Listed' = 1 .. n /\ 1 .. n \subseteq Objs
         /\ obj' \in [Objs -> File \cup {NilFile}]
         /\ \A i \in 1 .. n :
              /\ l[i] \in Listed /\ obj'[i] \in File
              /\ obj'[i].ref = 0 /\ ~obj'[i].unlinked
              /\ obj'[i].chains = obj[l[i]].chains /\ obj'[i].secCount = obj[l[i]].secCount
              /\ obj'[i].ti = obj[l[i]].ti /\ obj'[i].dirSec = obj[l[i]].dirSec
              /\ EntOf(obj'[i]) = EntOf(obj[l[i]])
              /\ FileSectors(obj'[i]) = FileSectors(obj[l[i]])
         /\ \A i, j \in 1 .. n : i # j => l[i] # l[j]
<1>1. /\ l \in Seq(Objs) /\ DOMAIN l = 1 .. n /\ 1 .. n \subseteq Objs
      /\ NoRepeat(l) /\ Elems(l) = LinkedFiles
      /\ MountedFiles(img) = Count(n)
      /\ \A i \in 1 .. n : MountedObjs(img)[i] = ReadDirEnt(obj[l[i]].dirSec, EntOf(obj[l[i]]))
      /\ \A i \in Objs \ 1 .. n : MountedObjs(img)[i] = NilFile
  BY DEF Remounted
<1>2. PICK q : q = MountedObjs(img) /\ q = [o \in Objs |-> q[o]]
  BY Zenon DEF MountedObjs
<1>3. obj' = q /\ files' = Count(n)
  BY <1>1, <1>2 DEF Remount
<1>4. \A i \in 1 .. n : l[i] \in Listed
  BY <1>1 DEF Elems, LinkedFiles
<1>5. \A i \in 1 .. n :
        /\ q[i] \in File /\ q[i].ref = 0 /\ ~q[i].unlinked
        /\ q[i].chains = obj[l[i]].chains /\ q[i].secCount = obj[l[i]].secCount
        /\ q[i].ti = obj[l[i]].ti /\ q[i].dirSec = obj[l[i]].dirSec
        /\ EntOf(q[i]) = EntOf(obj[l[i]])
        /\ FileSectors(q[i]) = FileSectors(obj[l[i]])
  <2> SUFFICES ASSUME NEW i \in 1 .. n
               PROVE  /\ q[i] \in File /\ q[i].ref = 0 /\ ~q[i].unlinked
                      /\ q[i].chains = obj[l[i]].chains /\ q[i].secCount = obj[l[i]].secCount
                      /\ q[i].ti = obj[l[i]].ti /\ q[i].dirSec = obj[l[i]].dirSec
                      /\ EntOf(q[i]) = EntOf(obj[l[i]])
                      /\ FileSectors(q[i]) = FileSectors(obj[l[i]])
    OBVIOUS
  <2>1. q[i] = ReadDirEnt(obj[l[i]].dirSec, EntOf(obj[l[i]])) /\ l[i] \in Listed
    BY <1>1, <1>2, <1>4
  <2>2. PICK x \in Listed : x = l[i]
    BY <2>1
  <2>3. PICK g : g = q[i]
    OBVIOUS
  <2>4. g = ReadDirEnt(obj[x].dirSec, EntOf(obj[x]))
    BY <2>1, <2>2, <2>3
  <2>5. /\ g \in File /\ g.ref = 0 /\ ~g.unlinked
        /\ g.chains = obj[x].chains /\ g.secCount = obj[x].secCount
        /\ g.ti = obj[x].ti /\ g.dirSec = obj[x].dirSec
        /\ EntOf(g) = EntOf(obj[x]) /\ FileSectors(g) = FileSectors(obj[x])
    BY <2>4, ReadBack
  <2> QED BY <2>2, <2>3, <2>5
<1>6. \A i \in Objs : q[i] \in File \cup {NilFile}
  BY <1>1, <1>2, <1>5
<1>7. q \in [Objs -> File \cup {NilFile}]
  BY <1>2, <1>6
<1>8. \A i, j \in 1 .. n : i # j => l[i] # l[j]
  BY <1>1 DEF NoRepeat
<1>9. files' \in Seq(Objs) /\ NoRepeat(files') /\ DOMAIN files' = 1 .. n
      /\ \A i \in 1 .. n : files'[i] = i
  BY <1>1, <1>3 DEF Count, NoRepeat
<1>10. Listed' = 1 .. n
  BY <1>9 DEF Listed
<1> QED BY <1>1, <1>3, <1>4, <1>5, <1>7, <1>8, <1>9, <1>10

LEMMA RemountInv ==
  ASSUME TwelveBits, IInv, ImageInv, DirInv, Fits, Remount, NEW l, NEW n \in Nat, Remounted(l, n)
  PROVE  IInv'
<1>1. /\ files' = Count(n) /\ files' \in Seq(Objs) /\ NoRepeat(files')
      /\ Listed' = 1 .. n /\ 1 .. n \subseteq Objs
      /\ obj' \in [Objs -> File \cup {NilFile}]
      /\ \A i \in 1 .. n :
              /\ l[i] \in Listed /\ obj'[i] \in File
              /\ obj'[i].ref = 0 /\ ~obj'[i].unlinked
              /\ obj'[i].chains = obj[l[i]].chains /\ obj'[i].dirSec = obj[l[i]].dirSec
              /\ FileSectors(obj'[i]) = FileSectors(obj[l[i]])
      /\ \A i, j \in 1 .. n : i # j => l[i] # l[j]
  BY RemountFiles
<1>2. /\ fat' = img.fat /\ fatDirty' = FALSE /\ fd' = [h \in Handles |-> 0]
      /\ io' = io /\ img' = img /\ pend' = pend /\ pend = <<>> /\ io = NoIO
  BY DEF Remount, Idle, disk
<1>3. img \in Image /\ {0, 1} \subseteq img.fat /\ img.fat \in SUBSET Sectors
  BY <1>2 DEF ImageInv, DirInv, Directed, LastImage, Image
<1>4. MemoryTypeOK'
  <2>1. \A i \in DOMAIN files' : obj'[files'[i]] \in File
    BY <1>1, FilesTyped
  <2>2. fd' \in [Handles -> Objs \cup {0}]
    BY <1>2
  <2>3. /\ fat' \in SUBSET Sectors /\ fatDirty' \in BOOLEAN /\ files' \in Seq(Objs)
        /\ obj' \in [Objs -> File \cup {NilFile}]
    BY <1>1, <1>2, <1>3
  <2>4. io' \in [file : Objs \cup {0}, chain : Nat, sector : Nat, avail : Int,
                 off : Nat, len : Nat, newLen : Nat]
    BY <1>2 DEF IInv, MemoryTypeOK
  <2> QED BY <2>1, <2>2, <2>3, <2>4 DEF MemoryTypeOK
<1>5. HandlesLive'
  <2>1. \A h \in Handles : fd'[h] = 0
    BY <1>2
  <2>2. \A o \in Listed' : HandlesOf(o)' = {}
    BY <1>1, <2>1 DEF HandlesOf, Objs
  <2>3. \A o \in Listed' : Cardinality(HandlesOf(o)') <= obj'[o].ref
    <3> SUFFICES ASSUME NEW o \in Listed' PROVE Cardinality(HandlesOf(o)') <= obj'[o].ref
      OBVIOUS
    <3>1. Cardinality(HandlesOf(o)') = 0
      BY <2>2, FS_EmptySet
    <3>2. obj'[o].ref = 0
      BY <1>1
    <3> QED BY <3>1, <3>2
  <2>4. \A i, j \in DOMAIN files' : files'[i] = files'[j] => i = j
    BY <1>1 DEF NoRepeat
  <2>5. io'.file = 0
    BY <1>2 DEF NoIO
  <2> QED BY <2>1, <2>3, <2>4, <2>5 DEF HandlesLive
<1>6. \A i \in 1 .. n : /\ FileSectors(obj[l[i]]) \subseteq img.fat \ {0, 1}
                        /\ obj'[i].dirSec \notin DataSectors(obj'[i])
  <2> SUFFICES ASSUME NEW i \in 1 .. n
               PROVE  /\ FileSectors(obj[l[i]]) \subseteq img.fat \ {0, 1}
                      /\ obj'[i].dirSec \notin DataSectors(obj'[i])
    OBVIOUS
  <2>1. l[i] \in LinkedFiles /\ l[i] \in Listed
    BY DEF Remounted, Elems, LinkedFiles
  <2>2. PICK x \in Listed : x = l[i] /\ x \in LinkedFiles
    BY <2>1
  <2>3. Settled(img, files, obj, fat, fatDirty, 0)
    BY <1>2 DEF ImageInv, LastImage, NoIO
  <2>4. Holds(img, obj[x]) /\ Accounts(img, obj[x])
    <3>1. x \in LinkedIn(Elems(files), obj) /\ x # 0
      BY <2>2, LinkedIsIn, ListedNotZero DEF LinkedIn
    <3> QED BY <2>3, <3>1 DEF Settled
  <2>5. Claims(img, obj[x]) \subseteq img.fat
    BY <2>4 DEF Accounts, TwelveBits
  <2>6. Claims(img, obj[x]) = FileSectors(ReadDirEnt(obj[x].dirSec, EntOf(obj[x])))
    BY <2>4 DEF Claims, Holds
  <2>7. FileSectors(ReadDirEnt(obj[x].dirSec, EntOf(obj[x]))) = FileSectors(obj[x])
    BY ReadBack
  <2>8. FileSectors(obj[x]) \subseteq fat \ {0, 1} /\ obj[x].dirSec \notin DataSectors(obj[x])
    BY DEF IInv, OwnedSectors
  <2>9. FileSectors(obj[x]) \subseteq img.fat \ {0, 1}
    BY <2>5, <2>6, <2>7, <2>8
  <2>10. obj'[i].dirSec = obj[x].dirSec /\ DataSectors(obj'[i]) = DataSectors(obj[x])
    BY <1>1, <2>2 DEF DataSectors
  <2> QED BY <2>2, <2>8, <2>9, <2>10
<1>7. OwnedSectors'
  <2>1. \A o \in Listed' : FileSectors(obj'[o]) \subseteq fat' \ {0, 1}
                           /\ obj'[o].dirSec \notin DataSectors(obj'[o])
    BY <1>1, <1>2, <1>6
  <2>2. \A o, p \in Listed' : o # p => FileSectors(obj'[o]) \cap FileSectors(obj'[p]) = {}
    <3> SUFFICES ASSUME NEW o \in 1 .. n, NEW p \in 1 .. n, o # p
                 PROVE  FileSectors(obj'[o]) \cap FileSectors(obj'[p]) = {}
      BY <1>1
    <3>1. l[o] \in Listed /\ l[p] \in Listed /\ l[o] # l[p]
      BY <1>1
    <3>2. FileSectors(obj[l[o]]) \cap FileSectors(obj[l[p]]) = {}
      BY <3>1 DEF IInv, OwnedSectors
    <3> QED BY <1>1, <3>2
  <2> QED BY <2>1, <2>2 DEF OwnedSectors
<1>8. Reserved'
  BY <1>2, <1>3 DEF Reserved
<1>9. ChainsOrdered'
  <2>1. \A o \in 1 .. n : \A i \in DOMAIN obj'[o].chains :
          obj'[o].chains[i].start <= obj'[o].chains[i].end
    <3> SUFFICES ASSUME NEW o \in 1 .. n, NEW i \in DOMAIN obj'[o].chains
                 PROVE  obj'[o].chains[i].start <= obj'[o].chains[i].end
      OBVIOUS
    <3>1. l[o] \in Listed /\ obj'[o].chains = obj[l[o]].chains
      BY <1>1
    <3> QED BY <3>1 DEF IInv, ChainsOrdered
  <2> QED BY <1>1, <2>1 DEF ChainsOrdered
<1>10. WriteWithinOrAtEnd'
  BY <1>2 DEF WriteWithinOrAtEnd, NoIO
<1> QED BY <1>4, <1>5, <1>7, <1>8, <1>9, <1>10 DEF IInv

LEMMA RemountImage ==
  ASSUME TwelveBits, IInv, IInv', ImageInv, DirInv, Fits, Remount,
         NEW l, NEW n \in Nat, Remounted(l, n)
  PROVE  ImageInv' /\ DirInv'
<1>1. /\ files' = Count(n) /\ files' \in Seq(Objs) /\ NoRepeat(files')
      /\ Listed' = 1 .. n /\ 1 .. n \subseteq Objs
      /\ \A i \in 1 .. n :
              /\ l[i] \in Listed /\ obj'[i] \in File /\ ~obj'[i].unlinked
              /\ obj'[i].chains = obj[l[i]].chains
              /\ obj'[i].dirSec = obj[l[i]].dirSec
              /\ EntOf(obj'[i]) = EntOf(obj[l[i]])
  BY RemountFiles
<1>2. /\ fat' = img.fat /\ fatDirty' = FALSE /\ io' = io /\ img' = img /\ pend' = pend
      /\ pend = <<>> /\ io = NoIO /\ LastImage = img /\ LastImage' = img /\ io'.file = 0
  BY DEF Remount, Idle, disk, LastImage, NoIO
<1>3. /\ img \in Image /\ {0, 1} \subseteq img.fat /\ Good(img)
      /\ Settled(img, files, obj, fat, fatDirty, 0)
  BY <1>2 DEF ImageInv, DirInv, Directed, NoIO
<1>4. /\ DOMAIN img.dir = 1 .. n /\ \A i \in 1 .. n : img.dir[i] = obj[l[i]].dirSec
      /\ DOMAIN l = 1 .. n /\ Elems(l) = LinkedFiles
  BY DEF Remounted
<1>5. PICK gs, q, G : gs = files' /\ q = obj' /\ G = fat'
  OBVIOUS
<1>6. Sound(gs, q, G)
  BY <1>5, SoundNext
<1>7. Elems(gs) = 1 .. n /\ LinkedIn(Elems(gs), q) = 1 .. n
  <2>1. Elems(gs) = 1 .. n
    BY <1>1, <1>5, ListedIsElems
  <2>2. \A i \in 1 .. n : ~q[i].unlinked
    BY <1>1, <1>5
  <2> QED BY <2>1, <2>2 DEF LinkedIn
<1>8. \A i \in 1 .. n : img.dir[i] = q[i].dirSec
  BY <1>1, <1>4, <1>5
<1>9. \A i \in 1 .. n : Holds(img, q[i])
  <2> SUFFICES ASSUME NEW i \in 1 .. n PROVE Holds(img, q[i])
    OBVIOUS
  <2>1. PICK x \in LinkedFiles : x = l[i]
    BY <1>4 DEF Elems
  <2>2. Holds(img, obj[x])
    <3>1. x \in LinkedIn(Elems(files), obj) /\ x # 0
      BY LinkedIsIn, ListedNotZero DEF LinkedIn
    <3> QED BY <1>3, <3>1 DEF Settled
  <2>3. q[i].dirSec = obj[x].dirSec /\ EntOf(q[i]) = EntOf(obj[x])
    BY <1>1, <1>5, <2>1
  <2> QED BY <2>2, <2>3 DEF Holds
<1>10. \A i \in 1 .. n : Describes(img, q[i])
  <2> SUFFICES ASSUME NEW i \in 1 .. n PROVE Describes(img, q[i])
    OBVIOUS
  <2>1. q[i] \in File /\ Ordered(q[i].chains)
    BY <1>6, <1>7 DEF Sound
  <2> QED BY <1>9, <2>1, HoldsDescribes
<1>11. Shows(img, 1 .. n, q)
  <2>1. Elems(img.dir) = {q[x].dirSec : x \in 1 .. n}
    BY <1>4, <1>8 DEF Elems
  <2>2. NoRepeat(img.dir)
    BY <1>3 DEF Settled, Shows, Lists
  <2> QED BY <1>3, <1>10, <2>1, <2>2 DEF Shows, Lists
<1>12. InNameOrder(img) /\ img.fat = G
  BY <1>2, <1>3, <1>5 DEF Settled
<1>13. Settled(img, gs, q, G, FALSE, 0)
  BY <1>6, <1>7, <1>9, <1>11, <1>12, FinalImage
<1>14. ImageInv'
  <2>1. Settled(LastImage', files', obj', fat', fatDirty', io'.file)
    BY <1>2, <1>5, <1>13
  <2>2. InStep(img', pend') /\ pend' \in Seq(Image) /\ DOMAIN pend' = {}
    BY <1>2 DEF InStep, ImageInv
  <2> QED BY <1>2, <1>3, <2>1, <2>2 DEF ImageInv
<1>15. DirInv'
  <2>1. {i \in DOMAIN gs : ~q[gs[i]].unlinked} = DOMAIN gs
    <3>1. \A i \in DOMAIN gs : gs[i] \in 1 .. n
      BY <1>7 DEF Elems
    <3> QED BY <1>1, <1>5, <3>1
  <2>2. Linked(gs, q) = Pick(gs, DOMAIN gs)
    BY <2>1, Zenon DEF Linked
  <2>3. Pick(gs, DOMAIN gs) = gs
    BY <1>1, <1>5, PickAll
  <2>4. DirOf(gs, q) = [i \in DOMAIN gs |-> q[gs[i]].dirSec]
    BY <2>2, <2>3, Zenon DEF DirOf
  <2>5. DOMAIN gs = 1 .. n /\ \A i \in 1 .. n : gs[i] = i
    BY <1>1, <1>5 DEF Count
  <2>6. DirOf(gs, q) = [i \in 1 .. n |-> q[i].dirSec]
    BY <2>4, <2>5
  <2>7. img.dir = [i \in 1 .. n |-> q[i].dirSec]
    <3>1. img.dir = [i \in 1 .. n |-> img.dir[i]]
      BY <1>3, <1>4 DEF Image
    <3> QED BY <1>8, <3>1
  <2>8. Directed(LastImage', files', obj')
    BY <1>2, <1>3, <1>5, <2>6, <2>7 DEF Directed
  <2> QED BY <2>8 DEF DirInv
<1> QED BY <1>14, <1>15

(* What holds from one session to the next. *)
SessionInv == WriteInv /\ DirectorySorted /\ ImageInv /\ DirInv

LEMMA RemountNext ==
  ASSUME TwelveBits, SessionInv, Fits, Remount
  PROVE  SessionInv'
<1>1. IInv /\ ImageInv /\ DirInv /\ DirectorySorted /\ Idle
  BY DEF SessionInv, WriteInv, Remount
<1>2. PICK l : l = Linked(files, obj)
  OBVIOUS
<1>3. PICK n \in Nat : n = Len(l) /\ Remounted(l, n)
  BY <1>1, <1>2, MountShows
<1>4. IInv'
  BY <1>1, <1>3, RemountInv
<1>5. ImageInv' /\ DirInv'
  BY <1>1, <1>3, <1>4, RemountImage
<1>6. /\ files' = Count(n) /\ Listed' = 1 .. n
      /\ \A i \in 1 .. n : /\ l[i] \in Listed /\ obj'[i].chains = obj[l[i]].chains
                           /\ obj'[i].secCount = obj[l[i]].secCount
                           /\ obj'[i].ti = obj[l[i]].ti
  BY <1>1, <1>3, RemountFiles
<1>7. ChainsMatchHeader'
  <2>1. \A i \in 1 .. n :
          SectorsBefore(obj'[i].chains, Len(obj'[i].chains) + 1) = obj'[i].secCount
    <3> SUFFICES ASSUME NEW i \in 1 .. n
                 PROVE SectorsBefore(obj'[i].chains, Len(obj'[i].chains) + 1) = obj'[i].secCount
      OBVIOUS
    <3>1. PICK x \in Listed : /\ obj'[i].chains = obj[x].chains
                              /\ obj'[i].secCount = obj[x].secCount
      BY <1>6
    <3>2. SectorsBefore(obj[x].chains, Len(obj[x].chains) + 1) = obj[x].secCount
      BY DEF SessionInv, WriteInv, ChainsMatchHeader
    <3> QED BY <3>1, <3>2
  <2> QED BY <1>6, <2>1 DEF ChainsMatchHeader
<1>8. WritePlace'
  BY <1>1 DEF Remount, Idle, NoIO, WritePlace
<1>9. DirectorySorted'
  <2>1. \A i, j \in 1 .. n : i < j => obj[l[i]].ti <= obj[l[j]].ti
    <3>1. InNameOrder(img) /\ \A x \in LinkedFiles : img.ent[obj[x].dirSec].ti = obj[x].ti
      <4>1. Settled(img, files, obj, fat, fatDirty, 0)
        BY <1>1 DEF ImageInv, LastImage, Idle, NoIO
      <4>2. LinkedFiles = LinkedIn(Elems(files), obj)
        BY LinkedIsIn
      <4> QED BY <4>1, <4>2 DEF Settled, Shows, Describes
    <3>2. \A i \in 1 .. n : l[i] \in LinkedFiles /\ img.dir[i] = obj[l[i]].dirSec
      BY <1>3 DEF Remounted, Elems
    <3>3. DOMAIN img.dir = 1 .. n
      BY <1>3 DEF Remounted
    <3> QED BY <3>1, <3>2, <3>3 DEF InNameOrder
  <2>2. DOMAIN files' = 1 .. n /\ \A i \in 1 .. n : files'[i] = i
    BY <1>6 DEF Count
  <2>3. \A i, j \in 1 .. n : i < j => obj'[i].ti <= obj'[j].ti
    BY <1>6, <2>1
  <2> QED BY <2>2, <2>3 DEF DirectorySorted
<1> QED BY <1>4, <1>5, <1>7, <1>8, <1>9 DEF SessionInv, WriteInv

LEMMA SessionNext ==
  ASSUME MidSectorAppend = FALSE, TwelveBits, SessionInv, Fits, [Next \/ Remount]_vars
  PROVE  SessionInv'
<1>1. CASE Remount
  BY <1>1, RemountNext
<1>2. CASE [Next]_vars
  <2>1. WriteInv /\ DirectorySorted /\ ImageInv /\ DirInv
    BY DEF SessionInv
  <2>2. WriteInv' /\ DirectorySorted' /\ ImageInv' /\ DirInv'
    BY <1>2, <2>1, DirNext
  <2> QED BY <2>2 DEF SessionInv
<1> QED BY <1>1, <1>2

LEMMA SessionsInv ==
  ASSUME MidSectorAppend = FALSE, TwelveBits
  PROVE  SessionsSpec /\ []Fits => []SessionInv
<1>1. SessionInv /\ Fits /\ [Next \/ Remount]_vars => SessionInv'
  BY SessionNext
<1>2. Init => SessionInv
  BY WriteInit, ImageInit, DirInit DEF SessionInv
<1>3. QED
  BY <1>1, <1>2, PTL DEF SessionsSpec

(* The sessions below are any number, with a kill of the driver or an      *)
(* unmount and a mount between two of them wherever no handler runs, as    *)
(* long as no file has more chains than its header can carry: the next     *)
(* mount loses those beyond.                                               *)

(* No handle or write refers to a file that a mount has replaced.          *)
THEOREM HandlesAcrossSessions ==
  ASSUME MidSectorAppend = FALSE, SectorCount <= 4096
  PROVE  SessionsSpec /\ []Fits => []HandlesLive
<1>1. TwelveBits
  BY DEF TwelveBits
<1>2. SessionInv => HandlesLive
  BY DEF SessionInv, WriteInv, IInv
<1> QED BY <1>1, <1>2, SessionsInv, PTL

(* A file read back has as many sectors in its chains as its header says,  *)
(* and keeps that when it is written again.                                *)
THEOREM CountsAcrossSessions ==
  ASSUME MidSectorAppend = FALSE, SectorCount <= 4096
  PROVE  SessionsSpec /\ []Fits => []ChainsMatchHeader
<1>1. TwelveBits
  BY DEF TwelveBits
<1>2. SessionInv => ChainsMatchHeader
  BY DEF SessionInv, WriteInv
<1> QED BY <1>1, <1>2, SessionsInv, PTL

(* Writes to files of earlier sessions land in the sectors of their        *)
(* offsets too.                                                            *)
THEOREM PlacesAcrossSessions ==
  ASSUME MidSectorAppend = FALSE, SectorCount <= 4096
  PROVE  SessionsSpec /\ []Fits => []WriteLandsInPlace
<1>1. TwelveBits
  BY DEF TwelveBits
<1>2. SessionInv => WriteInv
  BY DEF SessionInv
<1> QED BY <1>1, <1>2, WriteLands, SessionsInv, PTL

(* Memory and every image have their types after any number of mounts.     *)
THEOREM TypedAcrossSessions ==
  ASSUME MidSectorAppend = FALSE, SectorCount <= 4096
  PROVE  SessionsSpec /\ []Fits => []TypeOK
<1>1. TwelveBits
  BY DEF TwelveBits
<1>2. SessionInv => TypeOK
  BY DEF SessionInv, WriteInv, IInv, ImageInv, TypeOK, ImageTypeOK
<1> QED BY <1>1, <1>2, SessionsInv, PTL

(* A mount gives every file back the sectors it had, and no two files, old *)
(* or new, ever share one.                                                 *)
THEOREM OwnedAcrossSessions ==
  ASSUME MidSectorAppend = FALSE, SectorCount <= 4096
  PROVE  SessionsSpec /\ []Fits => []OwnedSectors
<1>1. TwelveBits
  BY DEF TwelveBits
<1>2. SessionInv => OwnedSectors
  BY DEF SessionInv, WriteInv, IInv
<1> QED BY <1>1, <1>2, SessionsInv, PTL

(* The list a mount builds by insertion is in name order, as is the one    *)
(* create and rename keep.                                                 *)
THEOREM SortedAcrossSessions ==
  ASSUME MidSectorAppend = FALSE, SectorCount <= 4096
  PROVE  SessionsSpec /\ []Fits => []DirectorySorted
<1>1. TwelveBits
  BY DEF TwelveBits
<1>2. SessionInv => DirectorySorted
  BY DEF SessionInv
<1> QED BY <1>1, <1>2, SessionsInv, PTL

(* A mount leaves an image whose directory names entries only, and so do   *)
(* the writes of the handlers after it.                                    *)
THEOREM MountableAcrossSessions ==
  ASSUME MidSectorAppend = FALSE, SectorCount <= 4096
  PROVE  SessionsSpec /\ []Fits => []ImageMountable
<1>1. TwelveBits
  BY DEF TwelveBits
<1>2. SessionInv => ImageMountable
  BY DEF SessionInv, ImageInv, Good, ImageMountable
<1> QED BY <1>1, <1>2, SessionsInv, PTL

(* Mounting twice shows the same files: a mount loses none of the changes  *)
(* of the sessions before it.                                              *)
THEOREM CurrentAcrossSessions ==
  ASSUME MidSectorAppend = FALSE, SectorCount <= 4096
  PROVE  SessionsSpec /\ []Fits => []ImageCurrent
<1>1. TwelveBits
  BY DEF TwelveBits
<1>2. SessionInv => ImageCurrent
  BY <1>1, MountIsCurrent DEF SessionInv, WriteInv
<1> QED BY <1>1, <1>2, SessionsInv, PTL

(* The names on disk change in one write of a handler in every session.    *)
THEOREM NamesAcrossSessions ==
  ASSUME MidSectorAppend = FALSE, SectorCount <= 4096
  PROVE  SessionsSpec /\ []Fits => []NamesChangeAtOnce
<1>1. TwelveBits
  BY DEF TwelveBits
<1>2. SessionInv => NamesChangeAtOnce
  BY DEF SessionInv, ImageInv, InStep, NamesChangeAtOnce
<1> QED BY <1>1, <1>2, SessionsInv, PTL

(* A bitmap change that the last session lost in memory never makes the    *)
(* image call free the sectors of more than one file.                      *)
THEOREM ExposureAcrossSessions ==
  ASSUME MidSectorAppend = FALSE, SectorCount <= 4096
  PROVE  SessionsSpec /\ []Fits => []CrashExposesOneFile
<1>1. TwelveBits
  BY DEF TwelveBits
<1>2. SessionInv => CrashExposesOneFile
  <2>1. SessionInv => ExposesOneFile(img)
    BY DEF SessionInv, ImageInv, Good
  <2>2. ASSUME ExposesOneFile(img) PROVE CrashExposesOneFile
    <3>1. \E i \in DOMAIN img.dir \cup {0} :
            \A j \in DOMAIN img.dir \ {i} : EntrySectors(img, j) \subseteq img.fat
      BY <2>2 DEF ExposesOneFile
    <3>2. \A i, j \in DOMAIN img.dir :
            i # j => EntrySectors(img, i) \cap EntrySectors(img, j) = {}
      BY <2>2 DEF ExposesOneFile
    <3> QED BY <3>1, <3>2 DEF CrashExposesOneFile
  <2> QED BY <2>1, <2>2
<1> QED BY <1>1, <1>2, SessionsInv, PTL
=============================================================================
