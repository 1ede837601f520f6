--------------------------- MODULE DebuggerProofs ---------------------------
(* For tables of any size, any scripts and any lines at the keyboard: the   *)
(* tables of break points and conditions hold what the user asked for, and  *)
(* the run loop stops exactly where he did.  Scripts that call others that  *)
(* call none go on where they called.                                       *)
EXTENDS Debugger, FiniteSetTheorems, SequenceTheorems, WellFoundedInduction, TLAPS

DebuggerSpec == DebuggerInit /\ [][DebuggerNext]_debuggerVars

-----------------------------------------------------------------------------
(* Tables                                                                   *)

Distinct(table) == \A i, j \in DOMAIN table : table[i].addr = table[j].addr => i = j

Addrs(table) == {table[i].addr : i \in DOMAIN table}

LEMMA Least ==
  ASSUME NEW T \in SUBSET Nat, T # {}
  PROVE  \E x \in T : \A y \in T : x <= y
<1> DEFINE R == OpToRel(<, Nat)
<1>1. IsWellFoundedOn(R, Nat)
  BY NatLessThanWellFounded
<1>2. \A x, y \in Nat : x < y => <<x, y>> \in R
  BY DEF OpToRel
<1> HIDE DEF R
<1>3. PICK x \in T : \A y \in T : ~ (<<y, x>> \in R)
  BY <1>1, WFMin
<1>4. \A y \in T : y \in Nat /\ ~(y < x)
  BY <1>2, <1>3
<1> QED BY <1>3, <1>4

LEMMA CountOfAddrs ==
  ASSUME NEW S, NEW t \in Seq(S), Distinct(t)
  PROVE  IsFiniteSet(Addrs(t)) /\ Cardinality(Addrs(t)) = Len(t)
<1> DEFINE f == [i \in 1 .. Len(t) |-> t[i].addr]
<1>1. Len(t) \in Nat /\ DOMAIN t = 1 .. Len(t)
  OBVIOUS
<1>2. f \in Bijection(1 .. Len(t), Addrs(t))
  BY <1>1 DEF Bijection, Injection, Surjection, IsInjective, Addrs, Distinct
<1>3. ExistsBijection(1 .. Len(t), Addrs(t))
  BY <1>2 DEF ExistsBijection
<1>4. IsFiniteSet(1 .. Len(t)) /\ Cardinality(1 .. Len(t)) = Len(t)
  BY <1>1, FS_Interval, SMTT(40)
<1> QED BY <1>3, <1>4, FS_Bijection

LEMMA HasAddrIsAddrs ==
  ASSUME NEW t, NEW a PROVE HasAddr(t, a) <=> a \in Addrs(t)
  BY DEF HasAddr, Addrs

LEMMA AddFacts ==
  ASSUME NEW S, NEW t \in Seq(S), NEW e \in S, NEW max \in Nat, Distinct(t), Len(t) <= max
  PROVE  LET r == TableAdd(t, e, max)
         IN  /\ r \in Seq(S) /\ Distinct(r) /\ Len(r) <= max
             /\ Addrs(r) = IF Cardinality(Addrs(t)) < max THEN Addrs(t) \cup {e.addr} ELSE Addrs(t)
             /\ \A i \in DOMAIN r : \/ i \in DOMAIN t /\ r[i] = t[i]
                                    \/ r[i] = e /\ e.addr \notin Addrs(t)
<1>1. Cardinality(Addrs(t)) = Len(t) /\ Len(t) \in Nat /\ DOMAIN t = 1 .. Len(t)
  BY CountOfAddrs
<1>2. CASE HasAddr(t, e.addr) \/ Len(t) = max
  <2>1. TableAdd(t, e, max) = t
    BY <1>2 DEF TableAdd
  <2>2. Cardinality(Addrs(t)) < max => e.addr \in Addrs(t)
    BY <1>1, <1>2, HasAddrIsAddrs
  <2>3. Cardinality(Addrs(t)) < max => Addrs(t) \cup {e.addr} = Addrs(t)
    BY <2>2
  <2>4. Addrs(t) = IF Cardinality(Addrs(t)) < max THEN Addrs(t) \cup {e.addr} ELSE Addrs(t)
    BY <2>3, Zenon
  <2> QED BY <2>1, <2>4
<1>3. CASE ~(HasAddr(t, e.addr) \/ Len(t) = max)
  <2> DEFINE r == Append(t, e)
  <2>1. TableAdd(t, e, max) = r
    BY <1>3 DEF TableAdd
  <2>2. /\ r \in Seq(S) /\ Len(r) = Len(t) + 1 /\ DOMAIN r = 1 .. Len(t) + 1
        /\ \A i \in 1 .. Len(t) : r[i] = t[i]
        /\ r[Len(t) + 1] = e
    BY <1>1, AppendProperties
  <2> HIDE DEF r
  <2>3. e.addr \notin Addrs(t) /\ Cardinality(Addrs(t)) < max
    BY <1>1, <1>3, HasAddrIsAddrs
  <2>4. \A i \in DOMAIN r : \/ i \in DOMAIN t /\ r[i] = t[i]
                            \/ i = Len(t) + 1 /\ r[i] = e
    BY <1>1, <2>2
  <2>5. Distinct(r)
    <3> SUFFICES ASSUME NEW i \in DOMAIN r, NEW j \in DOMAIN r, r[i].addr = r[j].addr PROVE i = j
      BY DEF Distinct
    <3>1. \A k \in DOMAIN t : t[k].addr # e.addr
      BY <2>3 DEF Addrs
    <3> QED BY <2>4, <3>1 DEF Distinct
  <2>6. Addrs(r) = Addrs(t) \cup {e.addr}
    <3>1. ASSUME NEW a \in Addrs(r) PROVE a \in Addrs(t) \cup {e.addr}
      <4>1. PICK i \in DOMAIN r : a = r[i].addr
        BY <3>1 DEF Addrs
      <4> QED BY <2>4, <4>1 DEF Addrs
    <3>2. ASSUME NEW a \in Addrs(t) PROVE a \in Addrs(r)
      <4>1. PICK i \in DOMAIN t : a = t[i].addr
        BY <3>2 DEF Addrs
      <4>2. i \in DOMAIN r /\ r[i] = t[i]
        BY <1>1, <2>2, <4>1
      <4> QED BY <4>1, <4>2 DEF Addrs
    <3>3. e.addr \in Addrs(r)
      <4>1. Len(t) + 1 \in DOMAIN r
        BY <1>1, <2>2
      <4> QED BY <2>2, <4>1 DEF Addrs
    <3> QED BY <3>1, <3>2, <3>3
  <2>7. Len(r) <= max
    BY <1>1, <1>3, <2>2
  <2> QED BY <2>1, <2>2, <2>3, <2>4, <2>5, <2>6, <2>7
<1> QED BY <1>2, <1>3

LEMMA RemoveFacts ==
  ASSUME NEW S, NEW t \in Seq(S), NEW addr, Distinct(t)
  PROVE  LET r == TableRemove(t, addr)
         IN  /\ r \in Seq(S) /\ Distinct(r) /\ Len(r) <= Len(t)
             /\ Addrs(r) = Addrs(t) \ {addr}
             /\ \A i \in DOMAIN r : \E j \in DOMAIN t : r[i] = t[j]
<1>1. Len(t) \in Nat /\ DOMAIN t = 1 .. Len(t)
  OBVIOUS
<1>2. CASE ~HasAddr(t, addr)
  <2>1. TableRemove(t, addr) = t /\ addr \notin Addrs(t)
    BY <1>2, HasAddrIsAddrs DEF TableRemove
  <2>2. Addrs(t) \ {addr} = Addrs(t)
    BY <2>1
  <2> QED BY <1>1, <2>1, <2>2
<1>3. CASE HasAddr(t, addr)
  <2> DEFINE i0 == CHOOSE i \in DOMAIN t : t[i].addr = addr
             r == [j \in 1 .. Len(t) - 1 |-> IF j < i0 THEN t[j] ELSE t[j + 1]]
  <2>1. i0 \in DOMAIN t /\ t[i0].addr = addr
    BY <1>3 DEF HasAddr
  <2>2. TableRemove(t, addr) = r
    BY <1>3 DEF TableRemove
  <2> HIDE DEF i0
  <2>3. /\ DOMAIN r = 1 .. Len(t) - 1
        /\ \A j \in 1 .. Len(t) - 1 : r[j] = IF j < i0 THEN t[j] ELSE t[j + 1]
    OBVIOUS
  <2>4. \A j \in 1 .. Len(t) - 1 : r[j] \in S
    BY <1>1, <2>1, <2>3
  <2>5. Len(t) - 1 \in Nat
    BY <1>1, <2>1
  <2>6. r \in [1 .. Len(t) - 1 -> S]
    BY <2>4
  <2>7. r \in Seq(S) /\ Len(r) = Len(t) - 1
    BY <2>5, <2>6
  <2> HIDE DEF r
  <2>8. \A j \in DOMAIN r : \E k \in DOMAIN t : k # i0 /\ r[j] = t[k] /\ k = IF j < i0 THEN j ELSE j + 1
    BY <1>1, <2>1, <2>3
  <2>9. Distinct(r)
    <3> SUFFICES ASSUME NEW i \in DOMAIN r, NEW j \in DOMAIN r, r[i].addr = r[j].addr PROVE i = j
      BY DEF Distinct
    <3>1. PICK k \in DOMAIN t : r[i] = t[k] /\ k = IF i < i0 THEN i ELSE i + 1
      BY <2>8
    <3>2. PICK l \in DOMAIN t : r[j] = t[l] /\ l = IF j < i0 THEN j ELSE j + 1
      BY <2>8
    <3>3. k = l
      BY <3>1, <3>2 DEF Distinct
    <3> QED BY <1>1, <2>1, <2>3, <3>1, <3>2, <3>3
  <2>10. Addrs(r) = Addrs(t) \ {addr}
    <3>1. ASSUME NEW a \in Addrs(r) PROVE a \in Addrs(t) \ {addr}
      <4>1. PICK j \in DOMAIN r : a = r[j].addr
        BY <3>1 DEF Addrs
      <4>2. PICK k \in DOMAIN t : k # i0 /\ r[j] = t[k]
        BY <2>8
      <4>3. t[k].addr # t[i0].addr
        BY <2>1, <4>2 DEF Distinct
      <4> QED BY <2>1, <4>1, <4>2, <4>3 DEF Addrs
    <3>2. ASSUME NEW a \in Addrs(t) \ {addr} PROVE a \in Addrs(r)
      <4>1. PICK k \in DOMAIN t : a = t[k].addr
        BY <3>2 DEF Addrs
      <4>2. k # i0
        BY <2>1, <3>2, <4>1
      <4>3. CASE k < i0
        <5>1. k \in DOMAIN r /\ r[k] = t[k]
          BY <1>1, <2>1, <2>3, <4>1, <4>3
        <5> QED BY <4>1, <5>1 DEF Addrs
      <4>4. CASE k > i0
        <5>1. k - 1 \in DOMAIN r /\ r[k - 1] = t[k]
          BY <1>1, <2>1, <2>3, <4>1, <4>4
        <5> QED BY <4>1, <5>1 DEF Addrs
      <4> QED BY <1>1, <2>1, <4>1, <4>2, <4>3, <4>4
    <3> QED BY <3>1, <3>2
  <2> QED BY <1>1, <2>2, <2>7, <2>8, <2>9, <2>10
<1> QED BY <1>2, <1>3
-----------------------------------------------------------------------------
(* The input                                                                *)

Files == [name : DOMAIN Scripts, at : Nat, eof : BOOLEAN, open : BOOLEAN]

(* No script to read is the empty name.                                     *)
Names == STRING \cup {""}

Inputs == [fp : Nat, fpSave : Nat, fileToRead : Names, opened : Seq(Files), crashed : BOOLEAN]

InputOK(in) == in \in Inputs /\ in.fp <= Len(in.opened) /\ in.fpSave <= Len(in.opened)

(* What opening, reading and closing do to an input, field by field.        *)
AfterOpen(in, fp, fpSave, o) ==
  [in EXCEPT !.fpSave = fpSave, !.fp = fp, !.opened = o, !.fileToRead = ""]

LEMMA OpenedFields ==
  ASSUME NEW in \in Inputs, NEW fp, NEW fpSave, NEW o
  PROVE  LET r == AfterOpen(in, fp, fpSave, o)
         IN  /\ r.fp = fp /\ r.fpSave = fpSave /\ r.opened = o
             /\ fp \in Nat /\ fpSave \in Nat /\ o \in Seq(Files) => r \in Inputs
<1> DEFINE S == Seq(Files)
<1>1. Inputs = [fp : Nat, fpSave : Nat, fileToRead : Names, opened : S, crashed : BOOLEAN]
  BY DEF Inputs
<1> HIDE DEF S
<1>2. "" \in Names
  BY DEF Names
<1>3. LET r == AfterOpen(in, fp, fpSave, o)
      IN  /\ r.fp = fp /\ r.fpSave = fpSave /\ r.opened = o
          /\ fp \in Nat /\ fpSave \in Nat /\ o \in S => r \in Inputs
  BY <1>1, <1>2 DEF AfterOpen
<1> QED BY <1>3 DEF S

AfterFetch(in, o) ==
  [in EXCEPT !.opened = o]

LEMMA FetchedFields ==
  ASSUME NEW in \in Inputs, NEW o \in Seq(Files)
  PROVE  LET r == AfterFetch(in, o)
         IN  r \in Inputs /\ r.fp = in.fp /\ r.fpSave = in.fpSave /\ r.opened = o
<1> DEFINE S == Seq(Files)
<1>1. Inputs = [fp : Nat, fpSave : Nat, fileToRead : Names, opened : S, crashed : BOOLEAN] /\ o \in S
  BY DEF Inputs
<1> HIDE DEF S
<1> QED BY <1>1 DEF AfterFetch

AfterEnd(in, o, fp, fpSave) ==
  [in EXCEPT !.opened = o, !.fp = fp, !.fpSave = fpSave]

LEMMA EndedFields ==
  ASSUME NEW in \in Inputs, NEW fp, NEW fpSave, NEW o
  PROVE  LET r == AfterEnd(in, o, fp, fpSave)
         IN  /\ r.fp = fp /\ r.fpSave = fpSave /\ r.opened = o
             /\ fp \in Nat /\ fpSave \in Nat /\ o \in Seq(Files) => r \in Inputs
<1> DEFINE S == Seq(Files)
<1>1. Inputs = [fp : Nat, fpSave : Nat, fileToRead : Names, opened : S, crashed : BOOLEAN]
  BY DEF Inputs
<1> HIDE DEF S
<1>2. LET r == AfterEnd(in, o, fp, fpSave)
      IN  /\ r.fp = fp /\ r.fpSave = fpSave /\ r.opened = o
          /\ fp \in Nat /\ fpSave \in Nat /\ o \in S => r \in Inputs
  BY <1>1 DEF AfterEnd
<1> QED BY <1>2 DEF S

LEMMA InputFields ==
  ASSUME NEW in \in Inputs
  PROVE  /\ in.fp \in Nat /\ in.fpSave \in Nat /\ in.fileToRead \in Names
         /\ in.opened \in Seq(Files) /\ Len(in.opened) \in Nat
  BY DEF Inputs

LEMMA OpenedOK ==
  ASSUME NEW in, InputOK(in) PROVE InputOK(Opened(in))
<1>1. CASE in.fileToRead = ""
  BY <1>1 DEF Opened
<1>2. CASE in.fileToRead # "" /\ in.fileToRead \in DOMAIN Scripts
  <2> DEFINE file == [name |-> in.fileToRead, at |-> 0, eof |-> FALSE, open |-> TRUE]
             o == Append(in.opened, file)
  <2>1. in \in Inputs /\ in.opened \in Seq(Files) /\ file \in Files
    BY <1>2 DEF InputOK, Inputs, Files
  <2>2. o \in Seq(Files) /\ Len(o) = Len(in.opened) + 1 /\ Len(in.opened) \in Nat
    BY <2>1, AppendProperties
  <2> HIDE DEF file, o
  <2>3. Opened(in) = AfterOpen(in, Len(in.opened) + 1, in.fp, o)
    BY <1>2 DEF Opened, AfterOpen, o, file
  <2>4. /\ Opened(in) \in Inputs /\ Opened(in).fp = Len(in.opened) + 1
        /\ Opened(in).fpSave = in.fp /\ Opened(in).opened = o
    <3>1. Len(in.opened) + 1 \in Nat /\ in.fp \in Nat
      BY <2>1, <2>2, InputFields
    <3> DEFINE next == Len(in.opened) + 1
    <3>2. next \in Nat /\ Opened(in) = AfterOpen(in, next, in.fp, o)
      BY <2>3, <3>1
    <3> HIDE DEF next
    <3>3. /\ Opened(in) \in Inputs /\ Opened(in).fp = next
          /\ Opened(in).fpSave = in.fp /\ Opened(in).opened = o
      BY <2>1, <2>2, <3>1, <3>2, OpenedFields
    <3> QED BY <3>3 DEF next
  <2>5. in.fp <= Len(in.opened)
    BY DEF InputOK
  <2> QED BY <2>1, <2>2, <2>4, <2>5, InputFields DEF InputOK
<1>3. CASE in.fileToRead # "" /\ in.fileToRead \notin DOMAIN Scripts
  <2>1. Opened(in) = AfterOpen(in, in.fp, in.fp, in.opened)
    BY <1>3 DEF Opened, AfterOpen
  <2>2. in \in Inputs
    BY DEF InputOK
  <2>3. /\ Opened(in) \in Inputs /\ Opened(in).fp = in.fp
        /\ Opened(in).fpSave = in.fp /\ Opened(in).opened = in.opened
    BY <2>1, <2>2, InputFields, OpenedFields
  <2> QED BY <2>3 DEF InputOK
<1> QED BY <1>1, <1>2, <1>3

LEMMA FetchedOK ==
  ASSUME NEW in, InputOK(in), in.fp # NoFile
  PROVE  InputOK(Fetched(in)) /\ IsLine(LineOf(Fetched(in)))
<1> DEFINE file == in.opened[in.fp]
           script == Scripts[file.name]
           at == file.at + 1
           eof == at > Len(script.lines) \/ (at = Len(script.lines) /\ ~script.newline)
           new == [file EXCEPT !.at = at, !.eof = eof]
           o == [in.opened EXCEPT ![in.fp] = new]
<1>1. in \in Inputs /\ in.opened \in Seq(Files) /\ in.fp \in 1 .. Len(in.opened)
  BY DEF InputOK, Inputs, NoFile
<1>2. file \in Files
  BY <1>1
<1>3. file.name \in DOMAIN Scripts /\ at \in Nat /\ at >= 1 /\ eof \in BOOLEAN
  BY <1>2 DEF Files
<1>4. new \in Files /\ new.name = file.name /\ new.at = at
  <2> HIDE DEF eof, at, file
  <2> QED BY <1>2, <1>3 DEF Files
<1>5. o \in Seq(Files) /\ Len(o) = Len(in.opened) /\ o[in.fp] = new
  <2> HIDE DEF new
  <2> QED BY <1>1, <1>4
<1>6. Fetched(in) = AfterFetch(in, o)
  <2>1. Fetched(in) = [in EXCEPT !.opened[in.fp].at = at, !.opened[in.fp].eof = eof]
    BY DEF Fetched
  <2>2. DOMAIN in.opened = 1 .. Len(in.opened) /\ in = [in EXCEPT !.opened = in.opened]
    BY <1>1 DEF Inputs
  <2> HIDE DEF at, eof
  <2> QED BY <1>1, <1>2, <2>1, <2>2 DEF AfterFetch, Inputs, Files
<1> HIDE DEF o
<1>7. /\ Fetched(in) \in Inputs /\ Fetched(in).fp = in.fp
      /\ Fetched(in).fpSave = in.fpSave /\ Fetched(in).opened = o
  BY <1>1, <1>5, <1>6, FetchedFields
<1>8. InputOK(Fetched(in))
  BY <1>5, <1>7 DEF InputOK
<1>9. LineOf(Fetched(in)) = IF at > Len(script.lines) THEN [op |-> "none"] ELSE script.lines[at]
  <2>1. Fetched(in).opened = o /\ Fetched(in).fp = in.fp
    BY <1>7
  <2>2. Fetched(in).opened[Fetched(in).fp] = new
    BY <1>5, <2>1
  <2> HIDE DEF new, file, at
  <2> QED BY <1>4, <2>2 DEF LineOf
<1>10. IsLine(LineOf(Fetched(in)))
  <2>1. CASE at > Len(script.lines)
    <3>1. LineOf(Fetched(in)) = [op |-> "none"]
      BY <1>9, <2>1
    <3>2. LineOf(Fetched(in)).op = "none"
      BY <3>1
    <3> QED BY <3>2 DEF IsLine
  <2>2. CASE ~(at > Len(script.lines))
    <3>1. at \in 1 .. Len(script.lines)
      BY <1>3, <2>2, DebuggerAssumption
    <3> QED BY <1>3, <1>9, <2>2, <3>1, DebuggerAssumption
  <2> QED BY <2>1, <2>2
<1> QED BY <1>8, <1>10

LEMMA EndedOK ==
  ASSUME NEW in, InputOK(in) PROVE InputOK(Ended(in))
<1>1. CASE in.fp # NoFile /\ in.opened[in.fp].eof
  <2> DEFINE new == [in.opened[in.fp] EXCEPT !.open = FALSE]
             o == [in.opened EXCEPT ![in.fp] = new]
  <2>1. in \in Inputs /\ in.opened \in Seq(Files) /\ in.fp \in 1 .. Len(in.opened)
    BY <1>1 DEF InputOK, Inputs, NoFile
  <2>2. in.opened[in.fp] \in Files
    BY <2>1
  <2>3. new \in Files
    BY <2>2 DEF Files
  <2>4. o \in Seq(Files) /\ Len(o) = Len(in.opened)
    <3> HIDE DEF new
    <3> QED BY <2>1, <2>3
  <2>5. Ended(in) = AfterEnd(in, o, in.fpSave, 0)
    BY <1>1, <2>1 DEF Ended, AfterEnd, Inputs, NoFile
  <2> HIDE DEF o
  <2>6. /\ Ended(in) \in Inputs /\ Ended(in).fp = in.fpSave
        /\ Ended(in).fpSave = 0 /\ Ended(in).opened = o
    <3>1. in.fpSave \in Nat /\ 0 \in Nat
      BY <2>1, InputFields
    <3> DEFINE none == 0
    <3>2. none \in Nat /\ Ended(in) = AfterEnd(in, o, in.fpSave, none)
      BY <2>5
    <3> HIDE DEF none
    <3>3. /\ Ended(in) \in Inputs /\ Ended(in).fp = in.fpSave
          /\ Ended(in).fpSave = none /\ Ended(in).opened = o
      BY <2>1, <2>4, <3>1, <3>2, EndedFields
    <3> QED BY <3>3 DEF none
  <2> QED BY <2>1, <2>4, <2>6, InputFields DEF InputOK
<1>2. CASE ~(in.fp # NoFile /\ in.opened[in.fp].eof)
  BY <1>2 DEF Ended
<1> QED BY <1>1, <1>2

(* The name of a script to read, and a read from a file that is closed.     *)
LEMMA NamedOK ==
  ASSUME NEW in, InputOK(in), NEW name \in Names
  PROVE  InputOK([in EXCEPT !.fileToRead = name])
<1> DEFINE S == Seq(Files)
           r == [in EXCEPT !.fileToRead = name]
<1>1. Inputs = [fp : Nat, fpSave : Nat, fileToRead : Names, opened : S, crashed : BOOLEAN]
  BY DEF Inputs
<1>2. in \in Inputs
  BY DEF InputOK
<1> HIDE DEF S
<1>3. r \in Inputs /\ r.fp = in.fp /\ r.fpSave = in.fpSave /\ r.opened = in.opened
  BY <1>1, <1>2
<1> HIDE DEF r
<1>4. InputOK(r)
  BY <1>3 DEF InputOK
<1> QED BY <1>4 DEF r

LEMMA CrashedOK ==
  ASSUME NEW in, InputOK(in)
  PROVE  InputOK([in EXCEPT !.crashed = TRUE])
<1> DEFINE S == Seq(Files)
           r == [in EXCEPT !.crashed = TRUE]
<1>1. Inputs = [fp : Nat, fpSave : Nat, fileToRead : Names, opened : S, crashed : BOOLEAN]
  BY DEF Inputs
<1>2. in \in Inputs
  BY DEF InputOK
<1> HIDE DEF S
<1>3. r \in Inputs /\ r.fp = in.fp /\ r.fpSave = in.fpSave /\ r.opened = in.opened
  BY <1>1, <1>2
<1> HIDE DEF r
<1>4. InputOK(r)
  BY <1>3 DEF InputOK
<1> QED BY <1>4 DEF r
-----------------------------------------------------------------------------
(* The tables and what the user asked for                                   *)

BreakEntries == [addr : Nat]

ConditionEntries == [addr : Words, kind : Kinds, value : WordValues]

BreaksOK(b, a) ==
  /\ b \in Seq(BreakEntries) /\ Distinct(b) /\ Len(b) <= MaxBreaks
  /\ a = Addrs(b)

ConditionsOK(c, a) ==
  /\ c \in Seq(ConditionEntries) /\ Distinct(c) /\ Len(c) <= MaxConditions
  /\ DOMAIN a = Addrs(c)
  /\ \A i \in DOMAIN c : a[c[i].addr] = [kind |-> c[i].kind, value |-> c[i].value]

LEMMA BreakAdded ==
  ASSUME NEW b, NEW a, BreaksOK(b, a), NEW addr \in Nat
  PROVE  BreaksOK(TableAdd(b, [addr |-> addr], MaxBreaks),
                  IF Cardinality(a) < MaxBreaks THEN a \cup {addr} ELSE a)
<1> DEFINE e == [addr |-> addr]
<1>1. e \in BreakEntries /\ e.addr = addr /\ MaxBreaks \in Nat
  BY DebuggerAssumption DEF BreakEntries
<1>2. b \in Seq(BreakEntries) /\ Distinct(b) /\ Len(b) <= MaxBreaks /\ a = Addrs(b)
  BY DEF BreaksOK
<1> HIDE DEF e
<1> DEFINE r == TableAdd(b, e, MaxBreaks)
<1>3. /\ r \in Seq(BreakEntries) /\ Distinct(r) /\ Len(r) <= MaxBreaks
      /\ Addrs(r) = IF Cardinality(Addrs(b)) < MaxBreaks THEN Addrs(b) \cup {e.addr} ELSE Addrs(b)
  BY <1>1, <1>2, AddFacts
<1> HIDE DEF r
<1>4. BreaksOK(r, IF Cardinality(a) < MaxBreaks THEN a \cup {addr} ELSE a)
  BY <1>1, <1>2, <1>3 DEF BreaksOK
<1> QED BY <1>4 DEF r, e

LEMMA BreakRemoved ==
  ASSUME NEW b, NEW a, BreaksOK(b, a), NEW addr
  PROVE  BreaksOK(TableRemove(b, addr), a \ {addr})
<1> DEFINE r == TableRemove(b, addr)
<1>1. b \in Seq(BreakEntries) /\ Distinct(b) /\ Len(b) <= MaxBreaks /\ a = Addrs(b)
  BY DEF BreaksOK
<1>2. r \in Seq(BreakEntries) /\ Distinct(r) /\ Len(r) <= Len(b) /\ Addrs(r) = Addrs(b) \ {addr}
  BY <1>1, RemoveFacts
<1> HIDE DEF r
<1>3. Len(r) \in Nat /\ Len(b) \in Nat /\ MaxBreaks \in Nat
  BY <1>1, <1>2, DebuggerAssumption
<1>4. BreaksOK(r, a \ {addr})
  BY <1>1, <1>2, <1>3 DEF BreaksOK
<1> QED BY <1>4 DEF r

LEMMA ConditionAdded ==
  ASSUME NEW c, NEW a, ConditionsOK(c, a), NEW e \in ConditionEntries
  PROVE  ConditionsOK(TableAdd(c, e, MaxConditions),
                      IF Cardinality(DOMAIN a) < MaxConditions
                        THEN [x \in DOMAIN a \cup {e.addr} |->
                                IF x \in DOMAIN a THEN a[x] ELSE [kind |-> e.kind, value |-> e.value]]
                        ELSE a)
<1> DEFINE r == TableAdd(c, e, MaxConditions)
           new == [x \in DOMAIN a \cup {e.addr} |->
                     IF x \in DOMAIN a THEN a[x] ELSE [kind |-> e.kind, value |-> e.value]]
<1>1. /\ c \in Seq(ConditionEntries) /\ Distinct(c) /\ Len(c) <= MaxConditions /\ DOMAIN a = Addrs(c)
      /\ \A i \in DOMAIN c : a[c[i].addr] = [kind |-> c[i].kind, value |-> c[i].value]
  BY DEF ConditionsOK
<1>2. MaxConditions \in Nat
  BY DebuggerAssumption
<1>3. /\ r \in Seq(ConditionEntries) /\ Distinct(r) /\ Len(r) <= MaxConditions
      /\ Addrs(r) = IF Cardinality(Addrs(c)) < MaxConditions THEN Addrs(c) \cup {e.addr} ELSE Addrs(c)
      /\ \A i \in DOMAIN r : \/ i \in DOMAIN c /\ r[i] = c[i]
                             \/ r[i] = e /\ e.addr \notin Addrs(c)
  BY <1>1, <1>2, AddFacts
<1>4. \A i \in DOMAIN c : c[i].addr \in DOMAIN a
  BY <1>1 DEF Addrs
<1>5. \A i \in DOMAIN r : r[i].addr \in Addrs(r)
  BY DEF Addrs
<1> HIDE DEF r
<1>6. CASE Cardinality(DOMAIN a) < MaxConditions
  <2>1. DOMAIN new = Addrs(r)
    BY <1>1, <1>3, <1>6
  <2>2. \A i \in DOMAIN r : new[r[i].addr] = [kind |-> r[i].kind, value |-> r[i].value]
    <3> SUFFICES ASSUME NEW i \in DOMAIN r
                 PROVE  new[r[i].addr] = [kind |-> r[i].kind, value |-> r[i].value]
      OBVIOUS
    <3>1. CASE i \in DOMAIN c /\ r[i] = c[i]
      <4>1. new[r[i].addr] = a[r[i].addr]
        BY <1>4, <3>1
      <4> QED BY <1>1, <3>1, <4>1
    <3>2. CASE r[i] = e /\ e.addr \notin Addrs(c)
      BY <1>1, <3>2
    <3> QED BY <1>3, <3>1, <3>2
  <2> HIDE DEF new
  <2>3. ConditionsOK(r, new)
    BY <1>3, <2>1, <2>2 DEF ConditionsOK
  <2> QED BY <1>6, <2>3 DEF r, new
<1>7. CASE ~(Cardinality(DOMAIN a) < MaxConditions)
  <2>1. Addrs(r) = Addrs(c)
    BY <1>1, <1>3, <1>7
  <2>2. \A i \in DOMAIN r : a[r[i].addr] = [kind |-> r[i].kind, value |-> r[i].value]
    BY <1>1, <1>3, <1>5, <2>1
  <2>3. ConditionsOK(r, a)
    BY <1>1, <1>3, <2>1, <2>2 DEF ConditionsOK
  <2> QED BY <1>7, <2>3 DEF r
<1> QED BY <1>6, <1>7

LEMMA ConditionRemoved ==
  ASSUME NEW c, NEW a, ConditionsOK(c, a), NEW addr
  PROVE  ConditionsOK(TableRemove(c, addr), [x \in DOMAIN a \ {addr} |-> a[x]])
<1> DEFINE r == TableRemove(c, addr)
           new == [x \in DOMAIN a \ {addr} |-> a[x]]
<1>1. /\ c \in Seq(ConditionEntries) /\ Distinct(c) /\ Len(c) <= MaxConditions /\ DOMAIN a = Addrs(c)
      /\ \A i \in DOMAIN c : a[c[i].addr] = [kind |-> c[i].kind, value |-> c[i].value]
  BY DEF ConditionsOK
<1>2. /\ r \in Seq(ConditionEntries) /\ Distinct(r) /\ Len(r) <= Len(c)
      /\ Addrs(r) = Addrs(c) \ {addr}
      /\ \A i \in DOMAIN r : \E j \in DOMAIN c : r[i] = c[j]
  BY <1>1, RemoveFacts
<1>3. \A i \in DOMAIN r : r[i].addr \in Addrs(r)
  BY DEF Addrs
<1> HIDE DEF r
<1>4. Len(r) \in Nat /\ Len(c) \in Nat /\ MaxConditions \in Nat
  BY <1>1, <1>2, DebuggerAssumption
<1>5. DOMAIN new = Addrs(r)
  BY <1>1, <1>2
<1>6. ASSUME NEW i \in DOMAIN r PROVE new[r[i].addr] = [kind |-> r[i].kind, value |-> r[i].value]
  <2>1. PICK j \in DOMAIN c : r[i] = c[j]
    BY <1>2
  <2>2. new[r[i].addr] = a[r[i].addr]
    BY <1>1, <1>2, <1>3
  <2> QED BY <1>1, <2>1, <2>2
<1> HIDE DEF new
<1>7. ConditionsOK(r, new)
  BY <1>1, <1>2, <1>4, <1>5, <1>6 DEF ConditionsOK
<1> QED BY <1>7 DEF r, new

(* The conditions of the addresses in told are evaluated.                   *)
EvaluatedAt(c, told, mem) ==
  [i \in DOMAIN c |-> IF c[i].addr \in told THEN Evaluated(c[i], mem) ELSE c[i]]

AskedAfter(a, told, mem) ==
  [x \in DOMAIN a |-> IF x \in told /\ a[x].kind = "CH" THEN [a[x] EXCEPT !.value = mem[x]] ELSE a[x]]

LEMMA EvaluatedFacts ==
  ASSUME NEW e \in ConditionEntries, NEW mem \in [Words -> WordValues]
  PROVE  LET r == Evaluated(e, mem)
         IN  /\ r \in ConditionEntries /\ r.addr = e.addr /\ r.kind = e.kind
             /\ r.value = IF e.kind = "CH" THEN mem[e.addr] ELSE e.value
<1>1. CASE e.kind = "CH"
  BY <1>1 DEF Evaluated, ConditionEntries
<1>2. CASE e.kind # "CH"
  BY <1>2 DEF Evaluated, ConditionEntries
<1> QED BY <1>1, <1>2

LEMMA ConditionsTold ==
  ASSUME NEW c, NEW a, ConditionsOK(c, a), NEW told, NEW mem \in [Words -> WordValues]
  PROVE  ConditionsOK(EvaluatedAt(c, told, mem), AskedAfter(a, told, mem))
<1> DEFINE r == EvaluatedAt(c, told, mem)
           new == AskedAfter(a, told, mem)
<1>1. /\ c \in Seq(ConditionEntries) /\ Distinct(c) /\ Len(c) <= MaxConditions /\ DOMAIN a = Addrs(c)
      /\ \A i \in DOMAIN c : a[c[i].addr] = [kind |-> c[i].kind, value |-> c[i].value]
  BY DEF ConditionsOK
<1>2. Len(c) \in Nat /\ DOMAIN c = 1 .. Len(c) /\ \A i \in DOMAIN c : c[i] \in ConditionEntries
  BY <1>1
<1>3. DOMAIN r = DOMAIN c
      /\ \A i \in DOMAIN c : r[i] = IF c[i].addr \in told THEN Evaluated(c[i], mem) ELSE c[i]
  BY DEF EvaluatedAt
<1> HIDE DEF r
<1>4. \A i \in DOMAIN c : r[i] \in ConditionEntries /\ r[i].addr = c[i].addr /\ r[i].kind = c[i].kind
  BY <1>2, <1>3, EvaluatedFacts
<1>5. r = [i \in DOMAIN c |-> r[i]]
  BY <1>3 DEF r, EvaluatedAt
<1>6. r \in [1 .. Len(c) -> ConditionEntries]
  BY <1>2, <1>4, <1>5
<1>7. r \in Seq(ConditionEntries) /\ Len(r) = Len(c)
  BY <1>2, <1>6
<1>8. Distinct(r)
  BY <1>1, <1>3, <1>4 DEF Distinct
<1>9. Addrs(r) = Addrs(c)
  BY <1>3, <1>4 DEF Addrs
<1>10. DOMAIN new = Addrs(r)
  BY <1>1, <1>9 DEF AskedAfter
<1>11. ASSUME NEW i \in DOMAIN r
       PROVE  new[r[i].addr] = [kind |-> r[i].kind, value |-> r[i].value]
  <2> DEFINE x == c[i].addr
  <2>1. x \in DOMAIN a /\ a[x] = [kind |-> c[i].kind, value |-> c[i].value]
    BY <1>1, <1>3 DEF Addrs
  <2>2. new[x] = IF x \in told /\ a[x].kind = "CH" THEN [a[x] EXCEPT !.value = mem[x]] ELSE a[x]
    BY <2>1 DEF AskedAfter
  <2>3. r[i].addr = x /\ r[i].kind = c[i].kind
    BY <1>3, <1>4
  <2>4. r[i].value = IF x \in told /\ c[i].kind = "CH" THEN mem[x] ELSE c[i].value
    BY <1>2, <1>3, EvaluatedFacts
  <2> HIDE DEF new, x
  <2>5. CASE x \in told /\ c[i].kind = "CH"
    BY <2>1, <2>2, <2>3, <2>4, <2>5
  <2>6. CASE ~(x \in told /\ c[i].kind = "CH")
    BY <2>1, <2>2, <2>3, <2>4, <2>6
  <2> QED BY <2>5, <2>6
<1> HIDE DEF new
<1>12. ConditionsOK(r, new)
  BY <1>1, <1>7, <1>8, <1>10, <1>11 DEF ConditionsOK
<1> QED BY <1>12 DEF r, new

(* The first condition that holds is there exactly when one holds.          *)
LEMMA FirstTrueFacts ==
  ASSUME NEW c \in Seq(ConditionEntries), NEW mem
  PROVE  LET first == FirstTrue(c, mem)
         IN  /\ first # 0 <=> \E i \in DOMAIN c : Holds(c[i], mem)
             /\ first # 0 => first \in DOMAIN c
<1> DEFINE true == {i \in DOMAIN c : Holds(c[i], mem)}
<1>1. FirstTrue(c, mem) = IF true = {} THEN 0 ELSE CHOOSE i \in true : \A j \in true : i <= j
  BY DEF FirstTrue
<1>2. true \in SUBSET Nat /\ true \subseteq DOMAIN c /\ 0 \notin DOMAIN c
  OBVIOUS
<1>3. true = {} <=> ~ \E i \in DOMAIN c : Holds(c[i], mem)
  OBVIOUS
<1> HIDE DEF true
<1>4. CASE true = {}
  BY <1>1, <1>3, <1>4
<1>5. CASE true # {}
  <2>1. \E x \in true : \A y \in true : x <= y
    BY <1>2, <1>5, Least
  <2>2. FirstTrue(c, mem) \in true
    BY <1>1, <1>5, <2>1
  <2> QED BY <1>2, <1>3, <1>5, <2>2
<1> QED BY <1>4, <1>5

(* A condition holds by what was asked for at its address.                  *)
AskedHolds(a, x, mem) ==
  CASE a[x].kind = "EQ" -> mem[x] = a[x].value
    [] OTHER -> mem[x] # a[x].value

LEMMA StopsAsAsked ==
  ASSUME NEW c, NEW a, ConditionsOK(c, a), NEW mem
  PROVE  FirstTrue(c, mem) # 0 <=> \E x \in DOMAIN a : AskedHolds(a, x, mem)
<1>1. /\ c \in Seq(ConditionEntries) /\ DOMAIN a = Addrs(c)
      /\ \A i \in DOMAIN c : a[c[i].addr] = [kind |-> c[i].kind, value |-> c[i].value]
  BY DEF ConditionsOK
<1>2. \A i \in DOMAIN c : c[i] \in ConditionEntries
  BY <1>1
<1>3. ASSUME NEW i \in DOMAIN c PROVE Holds(c[i], mem) <=> AskedHolds(a, c[i].addr, mem)
  <2> DEFINE x == c[i].addr  k == c[i].kind  v == c[i].value
  <2>0. a[x] = [kind |-> k, value |-> v]
    BY <1>1
  <2> HIDE DEF x, k, v
  <2>1. a[x].kind = k /\ a[x].value = v
    BY <2>0
  <2> USE DEF x, k, v
  <2>2. c[i].kind \in {"EQ", "NE", "CH"}
    BY <1>2 DEF ConditionEntries, Kinds
  <2>3. CASE c[i].kind = "EQ"
    BY <2>1, <2>3 DEF Holds, AskedHolds
  <2>4. CASE c[i].kind \in {"NE", "CH"}
    BY <2>1, <2>4 DEF Holds, AskedHolds
  <2> QED BY <2>2, <2>3, <2>4
<1>4. (\E i \in DOMAIN c : Holds(c[i], mem)) <=> (\E x \in DOMAIN a : AskedHolds(a, x, mem))
  BY <1>1, <1>3 DEF Addrs
<1> QED BY <1>1, <1>4, FirstTrueFacts

(* conditionTrue and conditionList evaluate what the user is told of.       *)
LEMMA FirstTold ==
  ASSUME NEW c \in Seq(ConditionEntries), Distinct(c), NEW mem, FirstTrue(c, mem) # 0
  PROVE  ConditionTrue(c, mem) = EvaluatedAt(c, {c[FirstTrue(c, mem)].addr}, mem)
<1> DEFINE first == FirstTrue(c, mem)
<1>1. first \in DOMAIN c
  BY FirstTrueFacts
<1>2. \A i \in DOMAIN c : i = first <=> c[i].addr \in {c[first].addr}
  BY <1>1 DEF Distinct
<1> HIDE DEF first
<1>3. [i \in DOMAIN c |-> IF i = first THEN Evaluated(c[i], mem) ELSE c[i]] = EvaluatedAt(c, {c[first].addr}, mem)
  BY <1>2 DEF EvaluatedAt
<1> QED BY <1>3 DEF first, ConditionTrue

LEMMA AllTold ==
  ASSUME NEW c, NEW a, ConditionsOK(c, a), NEW mem
  PROVE  ConditionList(c, mem) = EvaluatedAt(c, DOMAIN a, mem)
<1>1. \A i \in DOMAIN c : c[i].addr \in DOMAIN a
  BY DEF ConditionsOK, Addrs
<1> QED BY <1>1 DEF ConditionList, EvaluatedAt
-----------------------------------------------------------------------------
(* The inductive invariant: the tables are what the user asked for.  That   *)
(* what is read are lines that parse, and files that were opened, is needed *)
(* because those lines change the tables.                                   *)
Cpus == [pc : 0 .. Pcs - 1, mem : [Words -> WordValues]]

Asked == [breaks |-> asked.breaks, conditions |-> asked.conditions]

DebuggerInv ==
  /\ cpu \in Cpus
  /\ run \in {"console", "run", "stop"}
  /\ InputOK(input)
  /\ asked = Asked
  /\ BreaksOK(breaks, asked.breaks)
  /\ ConditionsOK(conditions, asked.conditions)

(* The part of it that commands and instructions change.                    *)
StateOK ==
  /\ cpu \in Cpus
  /\ asked = Asked
  /\ BreaksOK(breaks, asked.breaks)
  /\ ConditionsOK(conditions, asked.conditions)

LEMMA ExecuteOK ==
  ASSUME cpu \in Cpus, Execute PROVE cpu' \in Cpus
<1>1. cpu.pc \in Int /\ cpu.mem \in [Words -> WordValues] /\ Pcs \in Nat \ {0}
  BY DebuggerAssumption DEF Cpus
<1>2. (cpu.pc + 1) % Pcs \in 0 .. Pcs - 1
  BY <1>1
<1> DEFINE pc == (cpu.pc + 1) % Pcs
<1>3. CASE cpu' = [cpu EXCEPT !.pc = (@ + 1) % Pcs]
  <2>1. cpu' = [cpu EXCEPT !.pc = pc]
    BY <1>3
  <2> HIDE DEF pc
  <2> QED BY <1>2, <2>1 DEF Cpus, pc
<1>4. ASSUME NEW w \in Words, NEW v \in WordValues,
             cpu' = [pc |-> (cpu.pc + 1) % Pcs, mem |-> [cpu.mem EXCEPT ![w] = v]]
      PROVE  cpu' \in Cpus
  <2> DEFINE mem == [cpu.mem EXCEPT ![w] = v]
  <2>1. mem \in [Words -> WordValues]
    BY <1>1
  <2>2. cpu' = [pc |-> pc, mem |-> mem]
    BY <1>4
  <2>3. pc \in 0 .. Pcs - 1
    BY <1>2
  <2> HIDE DEF pc, mem
  <2> QED BY <2>1, <2>2, <2>3 DEF Cpus
<1> QED BY <1>3, <1>4 DEF Execute

LEMMA BreakOK ==
  ASSUME StateOK, NEW line, IsLine(line), line.op \in {"break add", "break remove"}, Break(line)
  PROVE  StateOK'
<1>1. line.addr \in Nat /\ asked = Asked /\ BreaksOK(breaks, asked.breaks)
  BY DEF IsLine, StateOK
<1> DEFINE b == IF line.op = "break remove" THEN asked.breaks \ {line.addr}
                ELSE IF Cardinality(asked.breaks) < MaxBreaks THEN asked.breaks \cup {line.addr}
                ELSE asked.breaks
<1>2. asked' = [asked EXCEPT !.breaks = b]
  BY DEF Break
<1> HIDE DEF b
<1>3. asked'.breaks = b /\ asked'.conditions = asked.conditions /\ (asked = Asked)'
  BY <1>1, <1>2 DEF Asked
<1>4. BreaksOK(breaks', b)
  <2>1. CASE line.op = "break add"
    <3>1. breaks' = TableAdd(breaks, [addr |-> line.addr], MaxBreaks)
      BY <2>1 DEF Break
    <3>2. b = IF Cardinality(asked.breaks) < MaxBreaks THEN asked.breaks \cup {line.addr}
              ELSE asked.breaks
      BY <2>1 DEF b
    <3> QED BY <1>1, <3>1, <3>2, BreakAdded
  <2>2. CASE line.op = "break remove"
    <3>1. breaks' = TableRemove(breaks, line.addr) /\ b = asked.breaks \ {line.addr}
      BY <2>2 DEF Break, b
    <3> QED BY <1>1, <3>1, BreakRemoved
  <2> QED BY <2>1, <2>2
<1>5. UNCHANGED <<cpu, conditions>>
  BY DEF Break
<1>6. BreaksOK(breaks', asked'.breaks) /\ ConditionsOK(conditions', asked'.conditions)
  BY <1>3, <1>4, <1>5 DEF StateOK
<1> QED BY <1>3, <1>5, <1>6 DEF StateOK, Cpus

LEMMA ConditionOK ==
  ASSUME StateOK, NEW line, IsLine(line), line.op \in {"condition add", "condition remove"},
         Condition(line)
  PROVE  StateOK'
<1>1. asked = Asked /\ ConditionsOK(conditions, asked.conditions)
  BY DEF StateOK
<1> DEFINE a == asked.conditions
           n == IF line.op = "condition remove"
                  THEN [x \in DOMAIN a \ {line.addr} |-> a[x]]
                ELSE IF Cardinality(DOMAIN a) < MaxConditions
                  THEN [x \in DOMAIN a \cup {line.addr} |->
                          IF x \in DOMAIN a THEN a[x] ELSE [kind |-> line.kind, value |-> line.value]]
                ELSE a
<1>2. asked' = [asked EXCEPT !.conditions = n]
  BY DEF Condition
<1> HIDE DEF n
<1>3. asked'.conditions = n /\ asked'.breaks = asked.breaks /\ (asked = Asked)'
  BY <1>1, <1>2 DEF Asked
<1>4. ConditionsOK(conditions', n)
  <2>1. CASE line.op = "condition add"
    <3> DEFINE e == [addr |-> line.addr, kind |-> line.kind, value |-> line.value]
    <3>1. e \in ConditionEntries
      BY <2>1 DEF IsLine, ConditionEntries
    <3>2. conditions' = TableAdd(conditions, e, MaxConditions)
      BY <2>1 DEF Condition
    <3>3. e.addr = line.addr /\ e.kind = line.kind /\ e.value = line.value
      OBVIOUS
    <3> HIDE DEF e, a
    <3>4. n = IF Cardinality(DOMAIN a) < MaxConditions
                THEN [x \in DOMAIN a \cup {e.addr} |->
                        IF x \in DOMAIN a THEN a[x] ELSE [kind |-> e.kind, value |-> e.value]]
              ELSE a
      BY <2>1, <3>3 DEF n
    <3>5. ConditionsOK(conditions, a)
      BY <1>1 DEF a
    <3> QED BY <3>1, <3>2, <3>4, <3>5, ConditionAdded
  <2>2. CASE line.op = "condition remove"
    <3>1. conditions' = TableRemove(conditions, line.addr)
      BY <2>2 DEF Condition
    <3>2. n = [x \in DOMAIN a \ {line.addr} |-> a[x]]
      BY <2>2 DEF n
    <3> QED BY <1>1, <3>1, <3>2, ConditionRemoved
  <2> QED BY <2>1, <2>2
<1>5. UNCHANGED <<cpu, breaks>>
  BY DEF Condition
<1>6. BreaksOK(breaks', asked'.breaks) /\ ConditionsOK(conditions', asked'.conditions)
  BY <1>3, <1>4, <1>5 DEF StateOK
<1> QED BY <1>3, <1>5, <1>6 DEF StateOK, Cpus

(* The user is told of the conditions of some addresses.                    *)
LEMMA TellOK ==
  ASSUME StateOK, NEW told, conditions' = EvaluatedAt(conditions, told, cpu.mem),
         asked' = Told(told), UNCHANGED <<cpu, breaks>>
  PROVE  StateOK'
<1> DEFINE n == AskedAfter(asked.conditions, told, cpu.mem)
<1>1. /\ asked = Asked /\ ConditionsOK(conditions, asked.conditions)
      /\ cpu.mem \in [Words -> WordValues]
  BY DEF StateOK, Cpus
<1>2. asked' = [asked EXCEPT !.conditions = n]
  BY DEF Told, AskedAfter
<1> HIDE DEF n
<1>3. asked'.conditions = n /\ asked'.breaks = asked.breaks /\ (asked = Asked)'
  BY <1>1, <1>2 DEF Asked
<1>4. ConditionsOK(conditions', n)
  BY <1>1, ConditionsTold DEF n
<1>5. BreaksOK(breaks', asked'.breaks) /\ ConditionsOK(conditions', asked'.conditions)
  BY <1>3, <1>4 DEF StateOK
<1> QED BY <1>3, <1>5 DEF StateOK, Cpus

LEMMA UnchangedOK ==
  ASSUME StateOK, UNCHANGED <<cpu, breaks, conditions, asked>> PROVE StateOK'
  BY DEF StateOK, Cpus, Asked

LEMMA PokeOK ==
  ASSUME StateOK, NEW w \in Words, NEW v \in WordValues, cpu' = [cpu EXCEPT !.mem[w] = v],
         UNCHANGED <<breaks, conditions, asked>>
  PROVE  StateOK'
<1>1. cpu.pc \in 0 .. Pcs - 1 /\ cpu.mem \in [Words -> WordValues] /\ cpu \in Cpus
  BY DEF StateOK, Cpus
<1> DEFINE mem == [cpu.mem EXCEPT ![w] = v]
<1>2. mem \in [Words -> WordValues] /\ cpu' = [cpu EXCEPT !.mem = mem]
  BY <1>1 DEF Cpus
<1> HIDE DEF mem
<1>3. cpu' \in Cpus
  BY <1>1, <1>2 DEF Cpus
<1> QED BY <1>3 DEF StateOK, Cpus, Asked

LEMMA CommandCases ==
  ASSUME NEW line, NEW in, Command(line, in)
  PROVE  \/ line.op \in {"break add", "break remove"} /\ Break(line)
         \/ line.op \in {"condition add", "condition remove"} /\ Condition(line)
         \/ /\ line.op = "condition list" /\ conditions' = ConditionList(conditions, cpu.mem)
            /\ asked' = Told(DOMAIN asked.conditions) /\ UNCHANGED <<cpu, breaks, run>>
         \/ /\ line.op = "poke" /\ cpu' = [cpu EXCEPT !.mem[line.addr] = line.value]
            /\ UNCHANGED <<breaks, conditions, asked, run>>
         \/ line.op = "go" /\ run' = "run" /\ UNCHANGED <<cpu, breaks, conditions, asked>>
         \/ line.op # "go" /\ NoChange
<1>1. CASE line.op \in {"break add", "break remove"}
  BY <1>1 DEF Command
<1>2. CASE line.op \in {"condition add", "condition remove"}
  BY <1>2 DEF Command
<1>3. CASE line.op = "condition list"
  BY <1>3 DEF Command
<1>4. CASE line.op = "poke"
  BY <1>4 DEF Command
<1>5. CASE line.op = "go"
  BY <1>5 DEF Command
<1>6. CASE line.op \notin {"break add", "break remove", "condition add", "condition remove",
                           "condition list", "poke", "go"}
  BY <1>6 DEF Command
<1> QED BY <1>1, <1>2, <1>3, <1>4, <1>5, <1>6

LEMMA CommandOK ==
  ASSUME StateOK, NEW line, IsLine(line), NEW in, InputOK(in), Command(line, in)
  PROVE  /\ StateOK' /\ InputOK(input')
         /\ run' \in {run, "run"}
<1>1. InputOK(input')
  <2> DEFINE d == IF line.op = "@" THEN [in EXCEPT !.fileToRead = line.name] ELSE in
  <2>1. input' = IF line.op = "go" THEN d ELSE Ended(d)
    BY DEF Command
  <2>2. CASE line.op = "@"
    <3>1. line.name \in Names
      BY <2>2 DEF IsLine, Names
    <3>2. InputOK(d)
      BY <2>2, <3>1, NamedOK
    <3> HIDE DEF d
    <3> QED BY <2>1, <3>2, EndedOK
  <2>3. CASE line.op # "@"
    <3>1. InputOK(d)
      BY <2>3
    <3> HIDE DEF d
    <3> QED BY <2>1, <3>1, EndedOK
  <2> QED BY <2>2, <2>3
<1>2. CASE line.op \in {"break add", "break remove"} /\ Break(line)
  <2>1. StateOK'
    BY <1>2, BreakOK
  <2>2. run' = run
    BY <1>2 DEF Break
  <2> QED BY <1>1, <2>1, <2>2
<1>3. CASE line.op \in {"condition add", "condition remove"} /\ Condition(line)
  <2>1. StateOK'
    BY <1>3, ConditionOK
  <2>2. run' = run
    BY <1>3 DEF Condition
  <2> QED BY <1>1, <2>1, <2>2
<1>4. CASE /\ line.op = "condition list" /\ conditions' = ConditionList(conditions, cpu.mem)
           /\ asked' = Told(DOMAIN asked.conditions) /\ UNCHANGED <<cpu, breaks, run>>
  <2>1. ConditionsOK(conditions, asked.conditions)
    BY DEF StateOK
  <2>2. conditions' = EvaluatedAt(conditions, DOMAIN asked.conditions, cpu.mem)
    BY <1>4, <2>1, AllTold, ZenonT(60)
  <2>3. StateOK'
    BY <1>4, <2>2, TellOK
  <2> QED BY <1>1, <1>4, <2>3
<1>5. CASE /\ line.op = "poke" /\ cpu' = [cpu EXCEPT !.mem[line.addr] = line.value]
           /\ UNCHANGED <<breaks, conditions, asked, run>>
  <2>1. line.addr \in Words /\ line.value \in WordValues
    BY <1>5 DEF IsLine
  <2>2. StateOK'
    BY <1>5, <2>1, PokeOK
  <2> QED BY <1>1, <1>5, <2>2
<1>6. CASE line.op = "go" /\ run' = "run" /\ UNCHANGED <<cpu, breaks, conditions, asked>>
  BY <1>1, <1>6, UnchangedOK
<1>7. CASE line.op # "go" /\ NoChange
  BY <1>1, <1>7, UnchangedOK DEF NoChange
<1> QED BY <1>2, <1>3, <1>4, <1>5, <1>6, <1>7, CommandCases
-----------------------------------------------------------------------------
LEMMA InvIsStateOK ==
  DebuggerInv <=> StateOK /\ run \in {"console", "run", "stop"} /\ InputOK(input)
  BY DEF DebuggerInv, StateOK

LEMMA StartOK ==
  ASSUME NEW b, NEW c, NEW a, NEW p, NEW i,
         b = <<>>, c = <<>>, a = NotAsked, p = FirstCpu, i = Prompt
  PROVE  /\ p \in Cpus /\ InputOK(i)
         /\ a = [breaks |-> a.breaks, conditions |-> a.conditions]
         /\ BreaksOK(b, a.breaks) /\ ConditionsOK(c, a.conditions)
<1>1. p \in Cpus
  BY DebuggerAssumption DEF FirstCpu, Cpus
<1>2. InputOK(i)
  <2> DEFINE S == Seq(Files)
  <2>1. Inputs = [fp : Nat, fpSave : Nat, fileToRead : Names, opened : S, crashed : BOOLEAN]
        /\ <<>> \in S
    BY DEF Inputs
  <2>2. FirstScript \in Names
    BY DebuggerAssumption DEF Names
  <2> HIDE DEF S
  <2>3. i \in Inputs /\ i.fp = 0 /\ i.fpSave = 0 /\ i.opened = <<>>
    BY <2>1, <2>2 DEF Prompt, NoFile
  <2> QED BY <2>3 DEF InputOK
<1>3. <<>> \in Seq(BreakEntries) /\ <<>> \in Seq(ConditionEntries) /\ Len(<<>>) = 0
      /\ DOMAIN <<>> = {}
  OBVIOUS
<1>4. a.breaks = {} /\ a.conditions = <<>> /\ a = [breaks |-> a.breaks, conditions |-> a.conditions]
  BY DEF NotAsked
<1>5. MaxBreaks \in Nat /\ MaxConditions \in Nat
  BY DebuggerAssumption
<1>6. Distinct(b) /\ Addrs(b) = {} /\ Distinct(c) /\ Addrs(c) = {}
  BY <1>3 DEF Distinct, Addrs
<1>7. BreaksOK(b, a.breaks)
  BY <1>3, <1>4, <1>5, <1>6 DEF BreaksOK
<1>8. ConditionsOK(c, a.conditions)
  BY <1>3, <1>4, <1>5, <1>6 DEF ConditionsOK
<1> QED BY <1>1, <1>2, <1>4, <1>7, <1>8

LEMMA DebuggerStarts == DebuggerInit => DebuggerInv
  BY StartOK DEF DebuggerInit, DebuggerInv, Asked

LEMMA RunStepOK ==
  ASSUME DebuggerInv, RunStep PROVE DebuggerInv'
<1>1. StateOK /\ run \in {"console", "run", "stop"} /\ InputOK(input)
  BY InvIsStateOK
<1>2. ASSUME Stopped PROVE run' = "console" /\ InputOK(input')
  BY <1>1, <1>2, EndedOK DEF Stopped
<1>3. CASE Stopped /\ UNCHANGED <<conditions, asked>>
  <2>1. StateOK'
    BY <1>1, <1>3, UnchangedOK DEF Stopped
  <2> QED BY <1>1, <1>2, <1>3, <2>1 DEF DebuggerInv, StateOK
<1>4. CASE /\ FirstTrue(conditions, cpu.mem) # 0
           /\ conditions' = ConditionTrue(conditions, cpu.mem)
           /\ asked' = Told({conditions[FirstTrue(conditions, cpu.mem)].addr})
           /\ Stopped
  <2>1. conditions \in Seq(ConditionEntries) /\ Distinct(conditions)
    BY <1>1 DEF StateOK, ConditionsOK
  <2>2. conditions' = EvaluatedAt(conditions, {conditions[FirstTrue(conditions, cpu.mem)].addr}, cpu.mem)
    BY <1>4, <2>1, FirstTold
  <2>3. UNCHANGED <<cpu, breaks>>
    BY <1>4 DEF Stopped
  <2>4. StateOK'
    BY <1>1, <1>4, <2>2, <2>3, TellOK
  <2> QED BY <1>2, <1>4, <2>4 DEF DebuggerInv, StateOK
<1>5. CASE Execute /\ UNCHANGED <<breaks, conditions, asked, run, input, calls>>
  <2>1. cpu' \in Cpus
    BY <1>1, <1>5, ExecuteOK DEF StateOK
  <2> QED BY <1>1, <1>5, <2>1 DEF DebuggerInv, StateOK, Asked
<1> QED BY <1>3, <1>4, <1>5 DEF RunStep

LEMMA ReadScriptOK ==
  ASSUME DebuggerInv, ReadScript PROVE DebuggerInv'
<1>1. StateOK /\ run \in {"console", "run", "stop"} /\ InputOK(input)
  BY InvIsStateOK
<1> DEFINE in == Opened(input)
<1>2. InputOK(in)
  BY <1>1, OpenedOK
<1>3. in.fp # NoFile
  BY DEF ReadScript
<1>4. CASE ~in.opened[in.fp].open
  <2>1. input' = [in EXCEPT !.crashed = TRUE] /\ NoChange
    BY <1>4 DEF ReadScript
  <2> HIDE DEF in
  <2>3. InputOK(input')
    BY <1>2, <2>1, CrashedOK
  <2>4. StateOK'
    BY <1>1, <2>1, UnchangedOK DEF NoChange
  <2> QED BY <1>1, <2>1, <2>3, <2>4 DEF NoChange, DebuggerInv, StateOK
<1>5. CASE in.opened[in.fp].open
  <2>1. Command(LineOf(Fetched(in)), Fetched(in))
    BY <1>5 DEF ReadScript
  <2> HIDE DEF in
  <2>2. InputOK(Fetched(in)) /\ IsLine(LineOf(Fetched(in)))
    BY <1>2, <1>3, FetchedOK
  <2>3. StateOK' /\ InputOK(input') /\ run' \in {run, "run"}
    BY <1>1, <2>1, <2>2, CommandOK
  <2> QED BY <1>1, <2>3 DEF DebuggerInv, StateOK
<1> QED BY <1>4, <1>5

LEMMA ReadKeyboardOK ==
  ASSUME DebuggerInv, ReadKeyboard PROVE DebuggerInv'
<1>1. StateOK /\ run \in {"console", "run", "stop"} /\ InputOK(input)
  BY InvIsStateOK
<1> DEFINE in == Opened(input)
<1>2. InputOK(in)
  BY <1>1, OpenedOK
<1>3. CASE \E line \in Typed : Command(line, in)
  <2>1. PICK line \in Typed : Command(line, in)
    BY <1>3
  <2> HIDE DEF in
  <2>2. IsLine(line)
    BY DebuggerAssumption
  <2>3. StateOK' /\ InputOK(input') /\ run' \in {run, "run"}
    BY <1>1, <1>2, <2>1, <2>2, CommandOK
  <2> QED BY <1>1, <2>3 DEF DebuggerInv, StateOK
<1>4. CASE Execute /\ input' = in /\ UNCHANGED <<breaks, conditions, asked, run>>
  <2> HIDE DEF in
  <2>1. cpu' \in Cpus
    BY <1>1, <1>4, ExecuteOK DEF StateOK
  <2> QED BY <1>1, <1>2, <1>4, <2>1 DEF DebuggerInv, StateOK, Asked
<1> QED BY <1>3, <1>4 DEF ReadKeyboard

LEMMA DebuggerStepOK ==
  ASSUME DebuggerInv, [DebuggerNext]_debuggerVars PROVE DebuggerInv'
<1>1. CASE ReadScript
  BY <1>1, ReadScriptOK
<1>2. CASE ReadKeyboard
  BY <1>2, ReadKeyboardOK
<1>3. CASE RunStep
  BY <1>3, RunStepOK
<1>4. CASE ClearRunFlag
  BY <1>4 DEF ClearRunFlag, DebuggerInv, Asked, Cpus
<1>5. CASE RunEnds
  <2>1. run' = "console" /\ InputOK(input')
    BY <1>5, EndedOK DEF RunEnds, Stopped, DebuggerInv
  <2> QED BY <1>5, <2>1 DEF RunEnds, Stopped, DebuggerInv, Asked, Cpus
<1>6. CASE Quit
  <2>1. /\ cpu' \in Cpus /\ InputOK(input')
        /\ (asked = Asked)'
        /\ BreaksOK(breaks', asked'.breaks) /\ ConditionsOK(conditions', asked'.conditions)
    BY <1>6, StartOK DEF Quit, Asked
  <2> QED BY <1>6, <2>1 DEF Quit, DebuggerInv, Cpus
<1>7. CASE UNCHANGED debuggerVars
  BY <1>7 DEF debuggerVars, DebuggerInv, Asked, Cpus
<1> QED BY <1>1, <1>2, <1>3, <1>4, <1>5, <1>6, <1>7 DEF DebuggerNext

(* The invariant above holds in every state of the debugger.                *)
THEOREM DebuggerInvariant == DebuggerSpec => []DebuggerInv
<1>1. DebuggerInit => DebuggerInv
  BY DebuggerStarts
<1>2. DebuggerInv /\ [DebuggerNext]_debuggerVars => DebuggerInv'
  BY DebuggerStepOK
<1> QED BY <1>1, <1>2, PTL DEF DebuggerSpec
-----------------------------------------------------------------------------
(* The run loop tests exactly what the user asked for.                      *)
LEMMA AskedToStopIsTested ==
  ASSUME DebuggerInv
  PROVE  AskedToStop <=> BreakPointHit(breaks, cpu.pc) \/ FirstTrue(conditions, cpu.mem) # 0
<1>1. BreakPointHit(breaks, cpu.pc) <=> cpu.pc \in asked.breaks
  BY HasAddrIsAddrs DEF DebuggerInv, BreaksOK, BreakPointHit
<1>2. FirstTrue(conditions, cpu.mem) # 0 <=>
        \E x \in DOMAIN asked.conditions : AskedHolds(asked.conditions, x, cpu.mem)
  BY StopsAsAsked DEF DebuggerInv
<1> QED BY <1>1, <1>2, Zenon DEF AskedToStop, AskedHolds

(* For tables of any size, any scripts and lines, and any processor: the    *)
(* run loop (TI994A::run) executes an instruction only where the user asked *)
(* for no stop, and returns to the console only where he did or by ctrl-C.  *)
THEOREM RunStopsAsAsked == DebuggerSpec => RunHeedsUser
<1> DEFINE Heeds == /\ run = "run" /\ cpu' # cpu => ~AskedToStop
                    /\ run = "run" /\ run' = "console" => AskedToStop
<1>1. ASSUME DebuggerInv, [DebuggerNext]_debuggerVars PROVE [Heeds]_debuggerVars
  <2>1. CASE RunStep
    <3>1. AskedToStop <=> BreakPointHit(breaks, cpu.pc) \/ FirstTrue(conditions, cpu.mem) # 0
      BY <1>1, AskedToStopIsTested
    <3>2. CASE Stopped /\ (BreakPointHit(breaks, cpu.pc) \/ FirstTrue(conditions, cpu.mem) # 0)
      BY <3>1, <3>2 DEF Stopped
    <3>3. CASE /\ ~BreakPointHit(breaks, cpu.pc) /\ FirstTrue(conditions, cpu.mem) = 0
               /\ UNCHANGED run
      BY <2>1, <3>1, <3>3 DEF RunStep
    <3> QED BY <2>1, <3>2, <3>3 DEF RunStep
  <2>2. CASE run # "run"
    BY <2>2
  <2>3. CASE ClearRunFlag \/ UNCHANGED debuggerVars
    BY <2>3 DEF ClearRunFlag, debuggerVars
  <2>4. CASE ReadScript \/ ReadKeyboard \/ RunEnds \/ Quit
    <3>1. run # "run"
      BY <2>4 DEF ReadScript, ReadKeyboard, RunEnds, Quit
    <3> QED BY <2>2, <3>1
  <2> QED BY <1>1, <2>1, <2>3, <2>4 DEF DebuggerNext
<1>2. DebuggerSpec => [][Heeds]_debuggerVars
  BY <1>1, DebuggerInvariant, PTL DEF DebuggerSpec
<1> QED BY <1>2 DEF RunHeedsUser

(* The tables never hold more than their sizes, and the file that is read   *)
(* and the one to go back to are files that were opened.                    *)
THEOREM DebuggerTypes == DebuggerSpec => []DebuggerTypeOK
<1>1. DebuggerInv => DebuggerTypeOK
  <2> SUFFICES ASSUME DebuggerInv PROVE DebuggerTypeOK
    OBVIOUS
  <2>1. cpu.pc \in 0 .. Pcs - 1 /\ cpu.mem \in [Words -> WordValues]
    BY DEF DebuggerInv, Cpus
  <2>2. Len(breaks) <= MaxBreaks /\ Len(conditions) <= MaxConditions
    BY DEF DebuggerInv, BreaksOK, ConditionsOK
  <2>3. input \in Inputs /\ input.fp <= Len(input.opened) /\ input.fpSave <= Len(input.opened)
    BY DEF DebuggerInv, InputOK
  <2>4. {input.fp, input.fpSave} \subseteq 0 .. Len(input.opened)
    BY <2>3, InputFields
  <2> QED BY <2>1, <2>2, <2>4 DEF DebuggerInv, DebuggerTypeOK
<1> QED BY <1>1, DebuggerInvariant, PTL

-----------------------------------------------------------------------------
(* Scripts                                                                  *)

(* The scripts that a script calls.                                         *)
CallsOf(name) ==
  {Scripts[name].lines[i].name :
     i \in {j \in 1 .. Len(Scripts[name].lines) : Scripts[name].lines[j].op = "@"}}

(* A script that a script calls exists, and calls none itself: fpSave is    *)
(* one place to go back to, and a file that is missing is not noticed.      *)
ShallowScripts ==
  \A name \in DOMAIN Scripts :
    \A called \in CallsOf(name) : called \in DOMAIN Scripts /\ CallsOf(called) = {}

(* Nothing is read, or a script, or one that a script called.               *)
AtKeyboard(in, stack) == stack = <<>> /\ in.fp = NoFile /\ in.fpSave = NoFile

InScript(in, stack) ==
  /\ stack = <<in.fp>> /\ in.fp # NoFile /\ in.fpSave = NoFile
  /\ in.opened[in.fp].open
  /\ in.fileToRead \in CallsOf(in.opened[in.fp].name) \cup {""}

InCalled(in, stack) ==
  /\ stack = <<in.fpSave, in.fp>> /\ in.fp # NoFile /\ in.fpSave # NoFile /\ in.fp # in.fpSave
  /\ in.opened[in.fp].open /\ in.opened[in.fpSave].open
  /\ in.fileToRead = "" /\ CallsOf(in.opened[in.fp].name) = {}

PlaceOK(in, stack) ==
  /\ InputOK(in) /\ ~in.crashed
  /\ AtKeyboard(in, stack) \/ InScript(in, stack) \/ InCalled(in, stack)

LEMMA AppendedLast ==
  ASSUME NEW S, NEW s \in Seq(S), NEW e \in S
  PROVE  /\ Append(s, e)[Len(s) + 1] = e
         /\ \A i \in 1 .. Len(s) : Append(s, e)[i] = s[i]
  OBVIOUS

(* A stack of one script and of two.                                        *)
LEMMA Stacks ==
  ASSUME NEW a \in Nat, NEW b \in Nat
  PROVE  /\ Append(<<a>>, b) = <<a, b>>
         /\ SubSeq(<<a, b>>, 1, 1) = <<a>>
<1> DEFINE s == <<a>>
           t == <<a, b>>
           longer == Append(s, b)
           shorter == SubSeq(t, 1, 1)
<1>1. /\ s \in Seq(Nat) /\ Len(s) = 1 /\ s[1] = a
      /\ t \in Seq(Nat) /\ Len(t) = 2 /\ t[1] = a /\ t[2] = b
  OBVIOUS
<1>2. longer \in Seq(Nat) /\ Len(longer) = 2
  OBVIOUS
<1>3. longer[1] = a /\ longer[2] = b
  OBVIOUS
<1>4. shorter \in Seq(Nat) /\ Len(shorter) = 1 /\ shorter[1] = a
  BY <1>1
<1> HIDE DEF s, t, longer, shorter
<1>5. (\A i \in 1 .. Len(longer) : longer[i] = t[i]) /\ (\A i \in 1 .. Len(shorter) : shorter[i] = s[i])
  BY <1>1, <1>2, <1>3, <1>4
<1>6. longer = t /\ shorter = s
  BY <1>1, <1>2, <1>4, <1>5, SeqEqual
<1> QED BY <1>6 DEF s, t, longer, shorter

LEMMA OpenedScript ==
  ASSUME NEW in, InputOK(in), in.fileToRead # "", in.fileToRead \in DOMAIN Scripts
  PROVE  LET r == Opened(in)
             n == Len(in.opened)
         IN  /\ n \in Nat /\ r.fp = n + 1 /\ r.fpSave = in.fp /\ r.fileToRead = ""
             /\ r.crashed = in.crashed
             /\ r.opened[n + 1].open /\ r.opened[n + 1].name = in.fileToRead
             /\ \A i \in 1 .. n : r.opened[i] = in.opened[i]
<1> DEFINE S == Seq(Files)
           file == [name |-> in.fileToRead, at |-> 0, eof |-> FALSE, open |-> TRUE]
           o == Append(in.opened, file)
           n == Len(in.opened)
<1>1. in \in Inputs /\ in.opened \in Seq(Files) /\ n \in Nat /\ file \in Files
  BY InputFields DEF InputOK, Files
<1>2. o[n + 1] = file /\ \A i \in 1 .. n : o[i] = in.opened[i]
  <2>1. PICK s \in Seq(Files), f \in Files : s = in.opened /\ f = file
    BY <1>1
  <2>2. /\ Append(s, f)[Len(s) + 1] = f
        /\ \A i \in 1 .. Len(s) : Append(s, f)[i] = s[i]
    BY AppendedLast, ZenonT(60)
  <2> HIDE DEF file
  <2> QED BY <2>1, <2>2
<1>3. Inputs = [fp : Nat, fpSave : Nat, fileToRead : Names, opened : S, crashed : BOOLEAN]
  BY DEF Inputs
<1>4. file.open /\ file.name = in.fileToRead
  OBVIOUS
<1>5. Opened(in) = AfterOpen(in, n + 1, in.fp, o)
  BY DEF Opened, AfterOpen
<1> HIDE DEF S, o, n, file
<1>6. LET r == Opened(in)
      IN  r.fp = n + 1 /\ r.fpSave = in.fp /\ r.fileToRead = "" /\ r.crashed = in.crashed /\ r.opened = o
  BY <1>1, <1>3, <1>5 DEF AfterOpen
<1>7. LET r == Opened(in)
      IN  /\ n \in Nat /\ r.fp = n + 1 /\ r.fpSave = in.fp /\ r.fileToRead = ""
          /\ r.crashed = in.crashed
          /\ r.opened[n + 1].open /\ r.opened[n + 1].name = in.fileToRead
          /\ \A i \in 1 .. n : r.opened[i] = in.opened[i]
  BY <1>1, <1>2, <1>4, <1>6
<1> QED BY <1>7 DEF n

LEMMA NothingOpened ==
  ASSUME NEW in, InputOK(in), in.fileToRead # "", in.fileToRead \notin DOMAIN Scripts
  PROVE  LET r == Opened(in)
         IN  /\ r.fp = in.fp /\ r.fpSave = in.fp /\ r.fileToRead = ""
             /\ r.crashed = in.crashed /\ r.opened = in.opened
<1> DEFINE S == Seq(Files)
<1>1. in \in Inputs
  BY DEF InputOK
<1>2. Inputs = [fp : Nat, fpSave : Nat, fileToRead : Names, opened : S, crashed : BOOLEAN]
  BY DEF Inputs
<1>3. Opened(in) = AfterOpen(in, in.fp, in.fp, in.opened)
  BY DEF Opened, AfterOpen
<1> HIDE DEF S
<1> QED BY <1>1, <1>2, <1>3 DEF AfterOpen

LEMMA ReadFileIsScript ==
  ASSUME NEW in, InputOK(in), in.fp # NoFile
  PROVE  in.opened[in.fp].name \in DOMAIN Scripts
<1>1. in.opened \in Seq(Files) /\ in.fp \in 1 .. Len(in.opened)
  BY DEF InputOK, Inputs, NoFile
<1>2. in.opened[in.fp] \in Files
  BY <1>1
<1> QED BY <1>2 DEF Files

LEMMA ScriptIsOpened ==
  ASSUME ShallowScripts, NEW in, NEW stack, PlaceOK(in, stack)
  PROVE  PlaceOK(Opened(in), Called(in, stack)) /\ Opened(in).fileToRead = ""
<1>1. InputOK(Opened(in)) /\ InputOK(in) /\ ~in.crashed
  BY OpenedOK DEF PlaceOK
<1>2. CASE in.fileToRead = ""
  BY <1>2, ScriptAssumption DEF Opened, Called, PlaceOK
<1>3. CASE in.fileToRead # "" /\ in.fileToRead \notin DOMAIN Scripts
  <2>1. ~InCalled(in, stack) /\ ~InScript(in, stack)
    <3>1. ASSUME InScript(in, stack) PROVE FALSE
      <4>1. in.fp # NoFile
        BY <3>1 DEF InScript
      <4>2. in.opened[in.fp].name \in DOMAIN Scripts
        BY <1>1, <4>1, ReadFileIsScript
      <4> QED BY <1>3, <3>1, <4>2 DEF InScript, ShallowScripts
    <3> QED BY <1>3, <3>1 DEF InCalled
  <2>2. AtKeyboard(in, stack)
    BY <2>1 DEF PlaceOK
  <2>3. AtKeyboard(Opened(in), stack)
    BY <1>1, <1>3, <2>2, NothingOpened DEF AtKeyboard
  <2> QED BY <1>1, <1>3, <2>3, NothingOpened DEF PlaceOK, Called
<1>4. CASE in.fileToRead # "" /\ in.fileToRead \in DOMAIN Scripts
  <2> DEFINE r == Opened(in)
             n == Len(in.opened)
             file == r.opened[n + 1]
  <2>1. /\ n \in Nat /\ r.fp = n + 1 /\ r.fpSave = in.fp /\ r.fileToRead = ""
        /\ r.crashed = in.crashed
        /\ file.open /\ file.name = in.fileToRead
        /\ \A i \in 1 .. n : r.opened[i] = in.opened[i]
    BY <1>1, <1>4, OpenedScript
  <2>6. n \in Nat
    BY <1>1, InputFields DEF InputOK
  <2>7. n + 1 \in Nat /\ n + 1 # 0 /\ \A i \in 1 .. n : i # n + 1
    BY <2>6
  <2>2. Called(in, stack) = Append(stack, n + 1)
    BY <1>4 DEF Called
  <2>3. in.fp \in Nat /\ in.fp <= n
    BY <1>1, InputFields DEF InputOK
  <2> HIDE DEF r, n
  <2>4. CASE AtKeyboard(in, stack)
    <3>1. Append(stack, n + 1) = <<n + 1>>
      BY <2>4, <2>7 DEF AtKeyboard
    <3> DEFINE next == n + 1
    <3>2. InScript(r, Append(stack, next))
      <4>1. r.fp = next /\ next # NoFile /\ r.opened[next].open /\ r.fpSave = NoFile
        BY <2>1, <2>4, <2>7, Zenon DEF NoFile, AtKeyboard
      <4>2. Append(stack, next) = <<next>>
        BY <3>1
      <4> HIDE DEF next
      <4> QED BY <2>1, <4>1, <4>2 DEF InScript
    <3> QED BY <1>1, <2>1, <2>2, <3>2 DEF PlaceOK, r
  <2>5. CASE InScript(in, stack)
    <3> DEFINE next == n + 1
    <3>0. in.fp # NoFile /\ stack = <<in.fp>>
      BY <2>5 DEF InScript
    <3>2. in.fp \in 1 .. n /\ in.fp # next /\ next \in Nat /\ next # 0
      <4>1. in.fp # 0
        BY <3>0 DEF NoFile
      <4> QED BY <2>3, <2>6, <4>1
    <3>1. Append(stack, next) = <<in.fp, next>>
      <4> HIDE DEF next
      <4> QED BY <2>3, <3>0, <3>2, Stacks
    <3>3. in.opened[in.fp].name \in DOMAIN Scripts
      BY <1>1, <3>0, ReadFileIsScript
    <3>4. CallsOf(file.name) = {}
      BY <1>4, <2>1, <2>5, <3>3 DEF InScript, ShallowScripts
    <3>5. r.opened[in.fp].open
      BY <2>1, <2>5, <3>2 DEF InScript
    <3>6. InCalled(r, Append(stack, next))
      <4>1. r.fp = next /\ next # NoFile /\ r.opened[next].open
        BY <2>1, <3>2, Zenon DEF NoFile
      <4>2. CallsOf(r.opened[next].name) = {}
        BY <3>4
      <4> HIDE DEF next
      <4> QED BY <2>1, <3>0, <3>1, <3>2, <3>5, <4>1, <4>2 DEF InCalled
    <3> QED BY <1>1, <2>1, <2>2, <3>6 DEF PlaceOK, r
  <2>8. CASE InCalled(in, stack)
    BY <1>4, <2>8 DEF InCalled
  <2> QED BY <2>4, <2>5, <2>8 DEF PlaceOK
<1> QED BY <1>2, <1>3, <1>4

LEMMA FetchedScript ==
  ASSUME NEW in, InputOK(in), in.fp # NoFile
  PROVE  LET r == Fetched(in)
         IN  /\ InputOK(r) /\ r.fp = in.fp /\ r.fpSave = in.fpSave
             /\ r.fileToRead = in.fileToRead /\ r.crashed = in.crashed
             /\ Len(r.opened) = Len(in.opened) /\ r.opened[in.fp].at >= 1
             /\ \A i \in 1 .. Len(in.opened) :
                  r.opened[i].open = in.opened[i].open /\ r.opened[i].name = in.opened[i].name
<1> DEFINE S == Seq(Files)
           file == in.opened[in.fp]
           script == Scripts[file.name]
           at == file.at + 1
           eof == at > Len(script.lines) \/ (at = Len(script.lines) /\ ~script.newline)
           new == [file EXCEPT !.at = at, !.eof = eof]
           o == [in.opened EXCEPT ![in.fp] = new]
<1>1. in \in Inputs /\ in.opened \in Seq(Files) /\ in.fp \in 1 .. Len(in.opened)
  BY DEF InputOK, Inputs, NoFile
<1>2. file \in Files
  BY <1>1
<1>3. Inputs = [fp : Nat, fpSave : Nat, fileToRead : Names, opened : S, crashed : BOOLEAN]
  BY DEF Inputs
<1>4. Fetched(in) = AfterFetch(in, o)
  <2>1. Fetched(in) = [in EXCEPT !.opened[in.fp].at = at, !.opened[in.fp].eof = eof]
    BY DEF Fetched
  <2>2. DOMAIN in.opened = 1 .. Len(in.opened) /\ in = [in EXCEPT !.opened = in.opened]
    BY <1>1 DEF Inputs
  <2> HIDE DEF at, eof
  <2> QED BY <1>1, <1>2, <2>1, <2>2 DEF AfterFetch, Inputs, Files
<1>9. at \in Nat /\ at >= 1
  <2>1. file.at \in Nat
    BY <1>2 DEF Files
  <2> HIDE DEF file
  <2> QED BY <2>1
<1>5. new.open = file.open /\ new.name = file.name /\ new.at = at
  <2> HIDE DEF at, eof, file
  <2> QED BY <1>2 DEF Files
<1>6. Len(o) = Len(in.opened) /\ o[in.fp].at >= 1 /\ \A i \in 1 .. Len(in.opened) :
        o[i].open = in.opened[i].open /\ o[i].name = in.opened[i].name
  <2> HIDE DEF new, at
  <2> QED BY <1>1, <1>5, <1>9
<1>7. InputOK(Fetched(in))
  BY FetchedOK
<1> HIDE DEF S, o
<1>8. LET r == Fetched(in)
      IN  /\ r.fp = in.fp /\ r.fpSave = in.fpSave /\ r.fileToRead = in.fileToRead
          /\ r.crashed = in.crashed /\ r.opened = o
  BY <1>1, <1>3, <1>4 DEF AfterFetch
<1> QED BY <1>6, <1>7, <1>8

LEMMA ScriptIsFetched ==
  ASSUME NEW in, NEW stack, PlaceOK(in, stack), in.fp # NoFile
  PROVE  PlaceOK(Fetched(in), stack) /\ in.opened[in.fp].open
<1> DEFINE r == Fetched(in)
<1>1. InputOK(in) /\ ~in.crashed
  BY DEF PlaceOK
<1>2. /\ in.fp \in 1 .. Len(in.opened)
      /\ in.fpSave # NoFile => in.fpSave \in 1 .. Len(in.opened)
  BY <1>1, InputFields DEF InputOK, NoFile
<1>3. /\ InputOK(r) /\ r.fp = in.fp /\ r.fpSave = in.fpSave
      /\ r.fileToRead = in.fileToRead /\ r.crashed = in.crashed
      /\ \A i \in 1 .. Len(in.opened) :
           r.opened[i].open = in.opened[i].open /\ r.opened[i].name = in.opened[i].name
  BY <1>1, FetchedScript
<1> HIDE DEF r
<1>4. CASE InScript(in, stack)
  <2>1. InScript(r, stack)
    BY <1>2, <1>3, <1>4 DEF InScript
  <2> QED BY <1>1, <1>3, <1>4, <2>1 DEF PlaceOK, InScript, r
<1>5. CASE InCalled(in, stack)
  <2>1. InCalled(r, stack)
    BY <1>2, <1>3, <1>5 DEF InCalled
  <2> QED BY <1>1, <1>3, <1>5, <2>1 DEF PlaceOK, InCalled, r
<1> QED BY <1>4, <1>5 DEF PlaceOK, AtKeyboard

LEMMA EndedScript ==
  ASSUME NEW in, InputOK(in), in.fp # NoFile, in.opened[in.fp].eof
  PROVE  LET r == Ended(in)
         IN  /\ r.fp = in.fpSave /\ r.fpSave = NoFile
             /\ r.fileToRead = in.fileToRead /\ r.crashed = in.crashed
             /\ \A i \in 1 .. Len(in.opened) :
                  i # in.fp => r.opened[i] = in.opened[i]
<1> DEFINE S == Seq(Files)
           new == [in.opened[in.fp] EXCEPT !.open = FALSE]
           o == [in.opened EXCEPT ![in.fp] = new]
<1>1. in \in Inputs /\ in.opened \in Seq(Files) /\ in.fp \in 1 .. Len(in.opened)
  BY DEF InputOK, Inputs, NoFile
<1>2. \A i \in 1 .. Len(in.opened) : i # in.fp => o[i] = in.opened[i]
  <2> HIDE DEF new
  <2> QED BY <1>1
<1>3. Ended(in) = AfterEnd(in, o, in.fpSave, NoFile)
  BY <1>1 DEF Ended, AfterEnd, Inputs, NoFile
<1>4. Inputs = [fp : Nat, fpSave : Nat, fileToRead : Names, opened : S, crashed : BOOLEAN]
  BY DEF Inputs
<1> HIDE DEF S, o
<1>5. LET r == Ended(in)
      IN  /\ r.fp = in.fpSave /\ r.fpSave = NoFile
          /\ r.fileToRead = in.fileToRead /\ r.crashed = in.crashed /\ r.opened = o
  BY <1>1, <1>3, <1>4 DEF AfterEnd
<1> QED BY <1>2, <1>5

LEMMA ScriptIsEnded ==
  ASSUME NEW in, NEW stack, PlaceOK(in, stack)
  PROVE  PlaceOK(Ended(in), Returned(in, stack))
<1> DEFINE r == Ended(in)
<1>1. InputOK(in) /\ ~in.crashed /\ InputOK(r)
  BY EndedOK DEF PlaceOK
<1>2. /\ in.fp \in Nat /\ in.fpSave \in Nat
      /\ in.fpSave # NoFile => in.fpSave \in 1 .. Len(in.opened)
  BY <1>1, InputFields DEF InputOK, NoFile
<1>3. CASE AtKeyboard(in, stack)
  BY <1>3 DEF AtKeyboard, Ended, Returned, PlaceOK
<1>4. CASE InScript(in, stack)
  <2>1. stack # <<>> /\ Len(stack) = 1 /\ stack[1] = in.fp
    BY <1>4 DEF InScript
  <2>2. CASE ~in.opened[in.fp].eof
    BY <2>1, <2>2 DEF Ended, Returned
  <2>3. CASE in.opened[in.fp].eof
    <3>1. Returned(in, stack) = SubSeq(stack, 1, 0)
      BY <2>1, <2>3 DEF Returned
    <3>2. SubSeq(stack, 1, 0) = <<>>
      BY <2>1
    <3>3. r.fp = in.fpSave /\ r.fpSave = NoFile /\ r.crashed = in.crashed
      BY <1>1, <1>4, <2>3, EndedScript DEF InScript
    <3> QED BY <1>1, <1>4, <3>1, <3>2, <3>3 DEF InScript, AtKeyboard, PlaceOK
  <2> QED BY <2>2, <2>3
<1>5. CASE InCalled(in, stack)
  <2>1. stack # <<>> /\ Len(stack) = 2 /\ stack[2] = in.fp /\ stack[1] = in.fpSave
    BY <1>5 DEF InCalled
  <2>2. CASE ~in.opened[in.fp].eof
    BY <2>1, <2>2 DEF Ended, Returned
  <2>3. CASE in.opened[in.fp].eof
    <3>1. Returned(in, stack) = SubSeq(stack, 1, 1)
      BY <2>1, <2>3 DEF Returned
    <3>2. SubSeq(stack, 1, 1) = <<in.fpSave>>
      <4>1. stack = <<in.fpSave, in.fp>>
        BY <1>5 DEF InCalled
      <4> QED BY <1>2, <4>1, Stacks
    <3>3. /\ r.fp = in.fpSave /\ r.fpSave = NoFile /\ r.crashed = in.crashed
          /\ r.fileToRead = in.fileToRead
          /\ r.opened[in.fpSave] = in.opened[in.fpSave]
      <4>1. in.fp # NoFile /\ in.fp # in.fpSave /\ in.fpSave \in 1 .. Len(in.opened)
        BY <1>2, <1>5 DEF InCalled
      <4> QED BY <1>1, <2>3, <4>1, EndedScript
    <3> HIDE DEF r
    <3>4. InScript(r, Returned(in, stack))
      BY <1>5, <3>1, <3>2, <3>3 DEF InCalled, InScript
    <3> QED BY <1>1, <3>3, <3>4 DEF PlaceOK, r
  <2> QED BY <2>2, <2>3
<1> QED BY <1>3, <1>4, <1>5 DEF PlaceOK

LEMMA ScriptIsNamed ==
  ASSUME NEW in, NEW stack, PlaceOK(in, stack), in.fileToRead = "", in.fp # NoFile,
         NEW name \in CallsOf(in.opened[in.fp].name), name \in STRING
  PROVE  PlaceOK([in EXCEPT !.fileToRead = name], stack)
<1> DEFINE r == [in EXCEPT !.fileToRead = name]
           S == Seq(Files)
<1>1. InputOK(in) /\ InputOK(r) /\ ~in.crashed
  BY NamedOK DEF PlaceOK, Names
<1>2. InScript(in, stack)
  BY DEF PlaceOK, AtKeyboard, InCalled
<1>3. in \in Inputs /\ Inputs = [fp : Nat, fpSave : Nat, fileToRead : Names, opened : S, crashed : BOOLEAN]
  BY <1>1 DEF InputOK, Inputs
<1> HIDE DEF S
<1>4. /\ r.fp = in.fp /\ r.fpSave = in.fpSave /\ r.fileToRead = name
      /\ r.opened = in.opened /\ r.crashed = in.crashed
  BY <1>3
<1> HIDE DEF r
<1>5. InScript(r, stack)
  BY <1>2, <1>4 DEF InScript
<1>6. PlaceOK(r, stack)
  BY <1>1, <1>4, <1>5 DEF PlaceOK
<1> QED BY <1>6 DEF r

LEMMA KeyboardNames ==
  ASSUME NEW in, NEW stack, PlaceOK(in, stack), in.fp = NoFile, NEW name \in STRING
  PROVE  PlaceOK([in EXCEPT !.fileToRead = name], stack) /\ stack = <<>>
<1> DEFINE r == [in EXCEPT !.fileToRead = name]
           S == Seq(Files)
<1>1. InputOK(in) /\ InputOK(r) /\ ~in.crashed
  BY NamedOK DEF PlaceOK, Names
<1>2. AtKeyboard(in, stack)
  BY DEF PlaceOK, InScript, InCalled
<1>3. in \in Inputs /\ Inputs = [fp : Nat, fpSave : Nat, fileToRead : Names, opened : S, crashed : BOOLEAN]
  BY <1>1 DEF InputOK, Inputs
<1> HIDE DEF S
<1>4. r.fp = in.fp /\ r.fpSave = in.fpSave /\ r.crashed = in.crashed
  BY <1>3
<1> HIDE DEF r
<1>5. AtKeyboard(r, stack)
  BY <1>2, <1>4 DEF AtKeyboard
<1>6. PlaceOK(r, stack)
  BY <1>1, <1>4, <1>5 DEF PlaceOK
<1> QED BY <1>2, <1>6 DEF r, AtKeyboard

LEMMA LineIsRead ==
  ASSUME NEW in, InputOK(in), in.fp # NoFile, in.opened[in.fp].at >= 1, LineOf(in).op = "@"
  PROVE  LineOf(in).name \in CallsOf(in.opened[in.fp].name)
<1> DEFINE file == in.opened[in.fp]
           script == Scripts[file.name]
<1>1. in.opened \in Seq(Files) /\ in.fp \in 1 .. Len(in.opened)
  BY DEF InputOK, Inputs, NoFile
<1>2. file \in Files
  BY <1>1
<1>3. file.at \in Nat /\ Len(script.lines) \in Nat /\ file.at >= 1
  BY <1>2, DebuggerAssumption DEF Files
<1>4. LineOf(in) = IF file.at > Len(script.lines) THEN [op |-> "none"] ELSE script.lines[file.at]
  BY DEF LineOf
<1>5. ~(file.at > Len(script.lines))
  <2>1. ASSUME file.at > Len(script.lines) PROVE FALSE
    <3>1. LineOf(in) = [op |-> "none"]
      BY <1>4, <2>1, Zenon
    <3>2. LineOf(in).op = "none"
      BY <3>1
    <3> QED BY <3>2
  <2> QED BY <2>1
<1>6. file.at \in 1 .. Len(script.lines) /\ LineOf(in) = script.lines[file.at]
  <2>1. PICK a \in Nat, n \in Nat : a = file.at /\ n = Len(script.lines)
    BY <1>3, Zenon
  <2>2. a >= 1 /\ ~(a > n)
    BY <1>3, <1>5, <2>1, Zenon
  <2>3. a \in 1 .. n
    BY ONLY a \in Nat, n \in Nat, <2>2
  <2> QED BY <1>4, <1>5, <2>1, <2>3, Zenon
<1> HIDE DEF script
<1>7. LineOf(in) = script.lines[file.at] /\ file.at \in {j \in 1 .. Len(script.lines) : script.lines[j].op = "@"}
  BY <1>6, Zenon
<1> HIDE DEF file
<1>8. script.lines[file.at].name \in
        {script.lines[i].name : i \in {j \in 1 .. Len(script.lines) : script.lines[j].op = "@"}}
  BY ONLY <1>7, Zenon
<1>9. CallsOf(file.name) =
        {script.lines[i].name : i \in {j \in 1 .. Len(script.lines) : script.lines[j].op = "@"}}
  BY ONLY DEF CallsOf, script
<1>10. LineOf(in).name \in CallsOf(file.name)
  BY ONLY <1>7, <1>8, <1>9
<1> QED BY <1>10 DEF file

(* What a line leaves behind of the input.                                  *)
LEMMA CommandPlace ==
  ASSUME NEW line, NEW in, NEW stack, PlaceOK(in, stack), Command(line, in), IsLine(line),
         line.op = "@" => \/ in.fp = NoFile
                          \/ in.fileToRead = "" /\ line.name \in CallsOf(in.opened[in.fp].name)
  PROVE  PlaceOK(input', IF line.op = "go" THEN stack ELSE Returned(in, stack))
<1> DEFINE d == IF line.op = "@" THEN [in EXCEPT !.fileToRead = line.name] ELSE in
<1>1. input' = IF line.op = "go" THEN d ELSE Ended(d)
  BY DEF Command
<1>2. PlaceOK(d, stack) /\ d.opened = in.opened
  <2>1. CASE line.op = "@"
    <3>1. line.name \in STRING
      BY <2>1 DEF IsLine
    <3>2. PlaceOK([in EXCEPT !.fileToRead = line.name], stack)
      <4>1. CASE in.fp = NoFile
        BY <3>1, <4>1, KeyboardNames
      <4>2. CASE in.fp # NoFile
        BY <2>1, <3>1, <4>2, ScriptIsNamed
      <4> QED BY <4>1, <4>2
    <3>3. [in EXCEPT !.fileToRead = line.name].opened = in.opened
      <4> DEFINE S == Seq(Files)
      <4>1. in \in [fp : Nat, fpSave : Nat, fileToRead : Names, opened : S, crashed : BOOLEAN]
        BY DEF PlaceOK, InputOK, Inputs
      <4> HIDE DEF S
      <4> QED BY <4>1
    <3> QED BY <2>1, <3>2, <3>3
  <2> QED BY <2>1
<1> HIDE DEF d
<1>3. Returned(d, stack) = Returned(in, stack)
  BY <1>2 DEF Returned
<1>4. CASE line.op = "go"
  BY <1>1, <1>2, <1>4
<1>5. CASE line.op # "go"
  BY <1>1, <1>2, <1>3, <1>5, ScriptIsEnded
<1> QED BY <1>4, <1>5

LEMMA ReadScriptPlace ==
  ASSUME ShallowScripts, PlaceOK(input, calls), ReadScript
  PROVE  PlaceOK(input', calls')
<1> DEFINE in == Opened(input)
           stack == Called(input, calls)
<1>1. PlaceOK(in, stack) /\ in.fileToRead = ""
  BY ScriptIsOpened
<1>2. in.fp # NoFile
  BY DEF ReadScript
<1>3. PlaceOK(Fetched(in), stack) /\ in.opened[in.fp].open
  BY <1>1, <1>2, ScriptIsFetched
<1>4. Command(LineOf(Fetched(in)), Fetched(in))
      /\ calls' = IF LineOf(Fetched(in)).op = "go" THEN stack ELSE Returned(Fetched(in), stack)
  BY <1>3 DEF ReadScript
<1> HIDE DEF in, stack
<1> DEFINE got == Fetched(in)
<1>5. InputOK(in)
  BY <1>1 DEF PlaceOK
<1>6. got.fp = in.fp /\ got.fileToRead = "" /\ got.opened[in.fp].at >= 1 /\ InputOK(got)
  BY <1>1, <1>2, <1>5, FetchedScript
<1>7. IsLine(LineOf(got))
  BY <1>2, <1>5, FetchedOK
<1> HIDE DEF got
<1>8. LineOf(got).op = "@" => LineOf(got).name \in CallsOf(got.opened[got.fp].name)
  BY <1>2, <1>6, LineIsRead
<1>9. PlaceOK(got, stack) /\ Command(LineOf(got), got)
      /\ calls' = IF LineOf(got).op = "go" THEN stack ELSE Returned(got, stack)
  BY <1>3, <1>4 DEF got
<1> QED BY <1>6, <1>7, <1>8, <1>9, CommandPlace

LEMMA ReadKeyboardPlace ==
  ASSUME ShallowScripts, PlaceOK(input, calls), ReadKeyboard
  PROVE  PlaceOK(input', calls')
<1> DEFINE in == Opened(input)
           stack == Called(input, calls)
<1>1. PlaceOK(in, stack)
  BY ScriptIsOpened
<1>2. in.fp = NoFile /\ calls' = stack
  BY DEF ReadKeyboard
<1>3. (\E line \in Typed : Command(line, in)) \/ input' = in
  BY DEF ReadKeyboard
<1> HIDE DEF in, stack
<1>4. CASE \E line \in Typed : Command(line, in)
  <2>1. PICK line \in Typed : Command(line, in)
    BY <1>4
  <2>2. IsLine(line)
    BY DebuggerAssumption
  <2>3. PlaceOK(input', IF line.op = "go" THEN stack ELSE Returned(in, stack))
    BY <1>1, <1>2, <2>1, <2>2, CommandPlace
  <2>4. Returned(in, stack) = stack
    <3>1. stack = <<>>
      BY <1>1, <1>2 DEF PlaceOK, AtKeyboard, InScript, InCalled
    <3> QED BY <3>1 DEF Returned
  <2> QED BY <1>2, <2>3, <2>4
<1> QED BY <1>1, <1>2, <1>3, <1>4

LEMMA FirstPlace == PlaceOK(Prompt, <<>>)
<1>1. InputOK(Prompt)
  BY StartOK
<1>2. Prompt.fp = NoFile /\ Prompt.fpSave = NoFile /\ Prompt.crashed = FALSE
  BY DEF Prompt
<1> QED BY <1>1, <1>2 DEF PlaceOK, AtKeyboard

LEMMA PlaceStep ==
  ASSUME ShallowScripts, PlaceOK(input, calls), [DebuggerNext]_debuggerVars
  PROVE  PlaceOK(input, calls)'
<1>1. ASSUME Stopped PROVE PlaceOK(input', calls')
  BY <1>1, ScriptIsEnded DEF Stopped
<1>2. ASSUME UNCHANGED <<input, calls>> PROVE PlaceOK(input', calls')
  BY <1>2
<1>3. CASE ReadScript
  BY <1>3, ReadScriptPlace
<1>4. CASE ReadKeyboard
  BY <1>4, ReadKeyboardPlace
<1>5. CASE RunStep
  BY <1>1, <1>2, <1>5 DEF RunStep
<1>6. CASE ClearRunFlag
  BY <1>2, <1>6 DEF ClearRunFlag
<1>7. CASE RunEnds
  BY <1>1, <1>7 DEF RunEnds
<1>8. CASE Quit
  BY <1>8, FirstPlace DEF Quit
<1>9. CASE UNCHANGED debuggerVars
  BY <1>2, <1>9 DEF debuggerVars
<1> QED BY <1>3, <1>4, <1>5, <1>6, <1>7, <1>8, <1>9 DEF DebuggerNext

(* When a script ends (main in console.cc), the one that called it goes on, *)
(* or the keyboard, and no FILE is read after its fclose: for scripts of    *)
(* any number and length, with or without a newline at their ends, whatever *)
(* is typed and wherever the program is stopped, provided that a script     *)
(* that a script calls exists and calls none.                               *)
THEOREM ScriptsGoOn == ShallowScripts /\ DebuggerSpec => []ScriptsResume
<1>1. ShallowScripts /\ DebuggerInit => PlaceOK(input, calls)
  BY FirstPlace DEF DebuggerInit
<1>2. ShallowScripts /\ PlaceOK(input, calls) /\ [DebuggerNext]_debuggerVars => PlaceOK(input, calls)'
  BY PlaceStep
<1>3. PlaceOK(input, calls) => ScriptsResume
  <2> SUFFICES ASSUME PlaceOK(input, calls) PROVE ScriptsResume
    OBVIOUS
  <2>1. CASE AtKeyboard(input, calls)
    BY <2>1 DEF AtKeyboard, PlaceOK, ScriptsResume
  <2>2. CASE InScript(input, calls)
    BY <2>2 DEF InScript, PlaceOK, ScriptsResume
  <2>3. CASE InCalled(input, calls)
    BY <2>3 DEF InCalled, PlaceOK, ScriptsResume
  <2> QED BY <2>1, <2>2, <2>3 DEF PlaceOK
<1>4. ASSUME ShallowScripts PROVE DebuggerSpec => []ScriptsResume
  BY <1>1, <1>2, <1>3, <1>4, PTL DEF DebuggerSpec
<1> QED BY <1>4
=============================================================================
