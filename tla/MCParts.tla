------------------------------- MODULE MCParts -------------------------------
(* Small instances of the parts of the project that share no state.  A      *)
(* behaviour exercises one part, the others stay as they start.             *)
EXTENDS Cassette, Sound, Vdp, Memory, Grom, Debugger, TapeTool, Basic, Records

VARIABLE part

Parts == {"cassette", "sound", "vdp", "memory", "grom", "debugger", "tapetool", "basic", "records"}

partsVars == <<part, cassetteVars, soundVars, vdpVars, memoryVars, gromVars, debuggerVars,
               tapeToolVars, listing, text>>

Init ==
  /\ part \in Parts
  /\ CassetteInit /\ SoundInit /\ VdpInit /\ MemoryInit /\ GromInit /\ DebuggerInit
  /\ TapeToolInit /\ BasicInit /\ RecordsInit

Next ==
  /\ UNCHANGED part
  /\ IF part = "cassette" THEN CassetteNext ELSE UNCHANGED cassetteVars
  /\ IF part = "sound" THEN SoundNext ELSE UNCHANGED soundVars
  /\ IF part = "vdp" THEN VdpNext ELSE UNCHANGED vdpVars
  /\ IF part = "memory" THEN MemoryNext ELSE UNCHANGED memoryVars
  /\ IF part = "grom" THEN GromNext ELSE UNCHANGED gromVars
  /\ IF part = "debugger" THEN DebuggerNext ELSE UNCHANGED debuggerVars
  /\ IF part = "tapetool" THEN TapeToolNext ELSE UNCHANGED tapeToolVars
  /\ IF part = "basic" THEN BasicNext ELSE UNCHANGED listing
  /\ IF part = "records" THEN RecordsNext ELSE UNCHANGED text

(* The audio thread runs again and again.                                   *)
Spec == Init /\ [][Next]_partsVars /\ WF_soundVars(part = "sound" /\ AudioThread)

(* Indices stay in their tables, addresses and bytes in their ranges: the   *)
(* ring, the video memory, banks, the GROM's address and what a routine     *)
(* saved of it, the tables of the debugger, the samples of a tape file.     *)
PartsTypeOK ==
  /\ CassetteTypeOK /\ SoundTypeOK /\ VdpTypeOK /\ MemoryTypeOK /\ GromTypeOK
  /\ DebuggerTypeOK /\ RecordsTypeOK
-----------------------------------------------------------------------------
(* Video: what a program does with the ports, in bytes.                     *)
CommandByte(byte) == [op |-> "command", byte |-> byte]

Register(r, byte) == <<CommandByte(byte), CommandByte(128 + r)>>

Poke(address, bytes) ==
  <<CommandByte(address), CommandByte(64)>>
    \o [i \in DOMAIN bytes |-> [op |-> "data", byte |-> bytes[i]]]

Mode(reg1, reg7) == Register(7, reg7) \o Register(1, reg1)

(* Images at 0, colours at 16, patterns at 32, sprites at 64 and 96.        *)
MCFirst ==
  [r \in 0 .. 7 |->
     CASE r = 3 -> 16 [] r = 4 -> 32 [] r = 5 -> 64 [] r = 6 -> 96 [] OTHER -> 0]

MCAccesses ==
  { Mode(224, 0), Mode(226, 5), Mode(225, 0), Register(1, 0) \o Mode(240, 33), Register(0, 2),
    Poke(3, <<1, 0>>), Poke(16, <<4 * 16 + 6>>), Poke(34, <<1, 3>>),
    Poke(64, <<0, 0, 0, 2, 0, 1, 0, 3, 208>>),
    Poke(64, <<0, 2, 0, 2, 0, 0, 1, 3, 1, 36, 0, 129>>),
    Poke(96, <<2, 0, 1, 1>>), Poke(96, <<3, 2>>),
    <<[op |-> "status"]>>, <<CommandByte(0), CommandByte(0), [op |-> "read"]>> }

(* Memory: addresses around the ends of pages, mirrors and banks.           *)
At(addr, bytes) == [addr |-> addr, bytes |-> bytes]

MCStores ==
  { At(8193, <<1>>), At(8193, <<2, 3>>), At(16382, <<4, 5>>), At(40960, <<6, 7>>),
    At(65535, <<8>>), At(33537, <<9>>), At(32768, <<10, 11>>), At(28672, <<12>>),
    At(28673, <<13, 14>>), At(24578, <<15>>), At(24576, <<16, 16>>), At(1, <<17>>),
    At(16384, <<18>>), At(24560, <<19>>), At(34816, <<20>>) }

MCAddresses ==
  { 0, 1, 8192, 8193, 16382, 16383, 40960, 40961, 65534, 65535, 33536, 33537, 32768, 33025,
    33024, 28672, 28673, 24576, 24577, 24578, 16384, 16385, 24560, 34816 }

Image(addr, bank, length, fill) == [addr |-> addr, bank |-> bank, length |-> length, fill |-> fill]

MCImages ==
  { Image(24576, 0, 8192, (0 :> 30) @@ (4097 :> 31)),
    Image(24576, 1, 12288, (4096 :> 32) @@ (8192 :> 33)),
    Image(16384, 1, 8192, (0 :> 34) @@ (8176 :> 35)),
    Image(0, 0, 8192, (0 :> 36) @@ (1 :> 37)),
    Image(40960, 0, 24576, (0 :> 38) @@ (24575 :> 39)),
    Image(8192, 0, 9000, <<>>) }

(* Debugger: a script that calls another, and the keyboard.                 *)
AddBreak(addr) == [op |-> "break add", addr |-> addr]
RemoveBreak(addr) == [op |-> "break remove", addr |-> addr]
AddCondition(addr, kind, value) ==
  [op |-> "condition add", addr |-> addr, kind |-> kind, value |-> value]
RemoveCondition(addr) == [op |-> "condition remove", addr |-> addr]
GoOn == [op |-> "go"]
CallScript(name) == [op |-> "@", name |-> name]

MCScripts ==
  [config |-> [lines |-> <<AddBreak(1), CallScript("inner"), AddCondition(0, "CH", 0), GoOn,
                           AddCondition(2, "NE", 0)>>, newline |-> TRUE],
   inner |-> [lines |-> <<AddCondition(2, "CH", 0), AddBreak(2), RemoveBreak(2), [op |-> "none"]>>,
              newline |-> FALSE],
   outer |-> [lines |-> <<CallScript("inner"), RemoveBreak(1), CallScript("last")>>,
              newline |-> FALSE],
   last |-> [lines |-> <<GoOn>>, newline |-> FALSE]]

MCTyped ==
  { AddBreak(0), RemoveBreak(1), AddCondition(4, "EQ", 1), AddCondition(0, "EQ", 1),
    RemoveCondition(0), RemoveCondition(2), [op |-> "condition list"], GoOn,
    CallScript("outer"), [op |-> "poke", addr |-> 0, value |-> 1] }

MCTapePrograms == {<<1, 15>>, <<0, 0, 7, 12>>}

(* BASIC: 139 END, 190 =, 132 IF, 176 THEN, 129 ELSE, 133 GO, 177 TO,       *)
(* 157 CALL, 183 (, 182 ), 156 PRINT, 180 ;, 155 ON, 134 GOTO, 179 comma.   *)
Name(value) == [kind |-> "name", value |-> value]
Number(value) == [kind |-> "number", value |-> value]
String(value) == [kind |-> "string", value |-> value]

MCBodies ==
  { <<Token(139)>>,
    <<Name(<<65>>), Token(190), Number(<<49>>), Name(<<46>>), Number(<<53>>)>>,
    <<Token(132), Name(<<65>>), Token(190), Number(<<49>>), Token(176), Number(<<50, 53, 54>>),
      Token(129), Number(<<57>>)>>,
    <<Token(133), Token(177), Number(<<51, 50, 55, 54, 55>>)>>,
    <<Token(157), Name(<<75, 69>>), Token(183), Number(<<48>>), Token(182)>>,
    <<Token(156), String(<<>>), Token(180), String(<<200, 2, 0>>)>>,
    <<Token(155), Name(<<66, 36>>), Token(134), Number(<<49, 48>>), Token(179), Number(<<50, 48>>)>> }
=============================================================================
