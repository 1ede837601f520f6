-------------------------------- MODULE Vdp --------------------------------
(* The video processor (src/vdp.cc): its two ports, which software uses to  *)
(* set an address or a register with two bytes and to move data, and the    *)
(* refresh that a timer makes 50 times a second.  A refresh draws the       *)
(* picture that the tables in the video memory describe, if something was   *)
(* written that the picture depends on (vdpRefreshNeeded), and leaves what  *)
(* the sprites did in the status.                                           *)
(*                                                                          *)
(* The screen is smaller than 256 by 192: a character is a square of Dots.  *)
(* A base register (2 to 6) holds the address of its table.  Multicolour    *)
(* mode, which halts the emulator, is not used, nor are the masks of bitmap *)
(* mode that make its tables smaller.                                       *)
EXTENDS Integers, Sequences, FiniteSets, SequencesExt

CONSTANTS
  Dots,            \* 8: dots of a character, bits of a byte of a pattern
  TextDots,        \* 6: width of a character in text mode
  Columns, Rows,   \* 32 and 24: characters on the screen
  TextColumns,     \* 40
  Chars,           \* 256: characters there are
  CharsPerColour,  \* 8: characters that share a byte of colours
  Sprites,         \* 32
  EarlyClock,      \* 32: dots that an attribute moves a sprite to the left
  PerLine,         \* 4: sprites that a line shows
  MemoryEnd,       \* >4000: the first address that is no video memory
  Accesses,        \* what software does: sequences of accesses to the ports
  FirstRegisters,  \* the registers before
  MaxUses          \* bound on the sequences of accesses

VARIABLES
  vdp,             \* registers, memory and status
  refreshNeeded,   \* vdpRefreshNeeded
  modeChanged,     \* vdpModeChanged
  spritesEnabled,  \* vdpSpritesEnabled
  screen,          \* vdpScreen: the colour of each dot
  uses             \* sequences of accesses so far

vdpVars == <<uses, vdp, refreshNeeded, modeChanged, spritesEnabled, screen>>

HasBit(byte, bit) == (byte \div bit) % 2 = 1

BitmapMode(v) == HasBit(v.reg[0], 2)
IntEnable(v) == HasBit(v.reg[1], 32)
TextMode(v) == HasBit(v.reg[1], 16)
BigSprites(v) == HasBit(v.reg[1], 2)
Magnified(v) == HasBit(v.reg[1], 1)

ImageTable(v) == v.reg[2]
ColourTable(v) == v.reg[3]
CharPatterns(v) == v.reg[4]
SpriteAttributes(v) == v.reg[5]
SpritePatterns(v) == v.reg[6]
Background(v) == v.reg[7] % 16

Byte(v, address) == IF address \in DOMAIN v.ram THEN v.ram[address] ELSE 0
-----------------------------------------------------------------------------
(* The ports.  What an access does to the flags of the refresh is collected *)
(* in the record as well.                                                   *)

(* Mutant: the patterns of the sprites are forgotten.                       *)
InTableOfChars(v, a) ==
  \/ a - ColourTable(v) \in 0 .. (Chars \div CharsPerColour) - 1
  \/ a - ImageTable(v) \in 0 .. Columns * Rows - 1
  \/ a - CharPatterns(v) \in 0 .. Chars * Dots - 1
  \/ a - SpriteAttributes(v) \in 0 .. Sprites * 4 - 1

(* Tables of the picture in graphics mode; 128 sprite patterns of the 256   *)
(* that there are, and one screen of graphics mode, which is shorter than   *)
(* one of text mode.                                                        *)
InTable(v, a) ==
  \/ a - ColourTable(v) \in 0 .. (Chars \div CharsPerColour) - 1
  \/ a - ImageTable(v) \in 0 .. Columns * Rows - 1
  \/ a - CharPatterns(v) \in 0 .. Chars * Dots - 1
  \/ a - SpriteAttributes(v) \in 0 .. Sprites * 4 - 1
  \/ a - SpritePatterns(v) \in 0 .. (Chars \div 2) * Dots - 1

(* vdpWrite, the data port; the emulator halts behind the memory.           *)
WriteData(v, byte) ==
  IF v.addr >= MemoryEnd THEN [v EXCEPT !.halted = TRUE]
  ELSE [v EXCEPT !.cmdInProg = FALSE,
                 !.ram = [a \in DOMAIN @ \cup {v.addr} |-> IF a = v.addr THEN byte ELSE @[a]],
                 !.addr = @ + 1,
                 !.refresh = @ \/ BitmapMode(v) \/ InTable(v, v.addr)]

(* The command port: the second byte says what the first one is for.        *)
SetAddress(v, high) == [v EXCEPT !.addr = high * 256 + v.cmd]

SetRegister(v, r) ==
  [v EXCEPT !.reg[r] = v.cmd,
            !.refresh = TRUE,
            !.mode = @ \/ (r = 1 /\ v.reg[r] # v.cmd)]

WriteCommand(v, byte) ==
  IF ~v.cmdInProg THEN [v EXCEPT !.cmd = byte, !.cmdInProg = TRUE]
  ELSE [CASE byte \div 64 \in {0, 1} -> SetAddress(v, byte % 64)
          [] byte \div 64 = 2 -> SetRegister(v, byte % 8)
          [] OTHER -> v
        EXCEPT !.cmdInProg = FALSE]

(* vdpRead                                                                  *)
ReadData(v) ==
  IF v.addr >= MemoryEnd THEN [v EXCEPT !.halted = TRUE]
  ELSE [v EXCEPT !.cmdInProg = FALSE, !.addr = @ + 1]

ReadStatus(v) ==
  [v EXCEPT !.cmdInProg = FALSE,
            !.st = [retrace |-> FALSE, fifth |-> FALSE, coincidence |-> FALSE,
                    sprite |-> @.sprite]]

Access(v, access) ==
  CASE access.op = "command" -> WriteCommand(v, access.byte)
    [] access.op = "data" -> WriteData(v, access.byte)
    [] access.op = "read" -> ReadData(v)
    [] access.op = "status" -> ReadStatus(v)
-----------------------------------------------------------------------------
(* The picture.                                                             *)
XSize == Columns * Dots
YSize == Rows * Dots
Pixels == (0 .. XSize - 1) \X (0 .. YSize - 1)

(* vdpPlot: colour 0 is the background.                                     *)
Plotted(v, colour) == IF colour = 0 THEN Background(v) ELSE colour

PatternBit(byte, x) == HasBit(byte, 2 ^ (Dots - 1 - x))

(* vdpDrawChar for one dot of the character ch in row cy: a third of the    *)
(* screen has a character set of its own in bitmap mode.                    *)
CharColour(v, ch, cy, x, y) ==
  LET address == ch * Dots + (cy \div 8) * Chars * Dots + y
      pattern == IF BitmapMode(v) THEN CharPatterns(v) + address
                                  ELSE CharPatterns(v) + ch * Dots + y
      colours == IF TextMode(v) THEN v.reg[7]
                 ELSE IF BitmapMode(v) THEN Byte(v, ColourTable(v) + address)
                 ELSE Byte(v, ColourTable(v) + ch \div CharsPerColour)
  IN  IF PatternBit(Byte(v, pattern), x) THEN colours \div 16 ELSE colours % 16

(* All characters; what they do not cover in text mode stays.               *)
DrawChars(v, picture) ==
  LET bits == IF TextMode(v) THEN TextDots ELSE Dots
      columns == IF TextMode(v) THEN TextColumns ELSE Columns
  IN  [p \in Pixels |->
         LET cx == p[1] \div bits
             cy == p[2] \div Dots
             ch == Byte(v, ImageTable(v) + cy * columns + cx)
         IN  IF cx < columns
               THEN Plotted(v, CharColour(v, ch, cy, p[1] % bits, p[2] % Dots))
               ELSE picture[p]]

(* A sprite is drawn in strokes.  A stroke has the lines it is to be drawn  *)
(* on, and the addresses of the bytes with the columns they start at.       *)
Strokes(v, x, y, p) ==
  LET wide == IF BigSprites(v) THEN 2 * Dots ELSE Dots
      Halves(i) == {[x |-> x + col, byte |-> Byte(v, p + i + col * 2)]
                      : col \in IF BigSprites(v) THEN {0, Dots} ELSE {0}}
  IN  IF ~Magnified(v)
        THEN [i \in 1 .. wide |-> [lines |-> <<y + i - 1>>, bytes |-> Halves(i - 1)]]
        ELSE FlattenSeq([i \in 1 .. wide |->
               LET lines == <<y + (i - 1) * 2, y + (i - 1) * 2 + 1>>
               IN  [h \in 1 .. Cardinality(Halves(i - 1)) |->
                      [lines |-> lines,
                       bytes |-> {b \in Halves(i - 1) : b.x = x + (h - 1) * Dots}]]])

(* The dots of bytes on a line that are on the screen.                      *)
DotsOf(v, bytes, line) ==
  LET scale == IF Magnified(v) THEN 2 ELSE 1
  IN  {d \in Pixels :
         /\ d[2] = line
         /\ \E b \in bytes, i \in 0 .. Dots - 1 :
              /\ PatternBit(b.byte, i)
              /\ d[1] - (b.x + i * scale) \in 0 .. scale - 1
              /\ b.x + i * scale \in 0 .. XSize - scale}

(* maxSpritesPerLine and vdpDrawByte for one line: d is the drawing so far. *)
DrawLine(v, d, stroke, line, colour, sprite) ==
  LET counted == [d EXCEPT !.perLine = [l \in DOMAIN @ |-> IF l = line THEN @[l] + 1 ELSE @[l]]]
      count == IF line \in DOMAIN d.perLine THEN counted.perLine[line] ELSE 0
      hit == DotsOf(v, stroke.bytes, line)
  IN  IF count = PerLine + 1
        THEN [counted EXCEPT !.st.fifth = TRUE, !.st.sprite = sprite, !.skip = TRUE]
      ELSE IF count > PerLine THEN [counted EXCEPT !.skip = TRUE]
      ELSE [counted EXCEPT
              !.st.coincidence = @ \/ hit \cap d.covered # {},
              !.covered = @ \cup hit,
              !.screen = [p \in Pixels |-> IF p \in hit THEN Plotted(v, colour) ELSE @[p]]]

(* A line that is not drawn ends its stroke.                                *)
DrawStroke(v, d, stroke, colour, sprite) ==
  FoldLeft(LAMBDA e, line : IF e.skip THEN e ELSE DrawLine(v, e, stroke, line, colour, sprite),
           [d EXCEPT !.skip = FALSE], stroke.lines)

Attribute(v, sprite, i) == Byte(v, SpriteAttributes(v) + sprite * 4 + i)

DrawSprite(v, d, sprite) ==
  LET y == Attribute(v, sprite, 0) + 1
      c == Attribute(v, sprite, 3)
      x == Attribute(v, sprite, 1) - (IF HasBit(c, 128) THEN EarlyClock ELSE 0)
      p == Attribute(v, sprite, 2) * Dots + SpritePatterns(v)
  IN  FoldLeft(LAMBDA e, stroke : DrawStroke(v, e, stroke, c % 16, sprite),
               d, Strokes(v, x, y, p))

(* vdpDrawSprites: the sprites in front of the first that is switched off.  *)
Shown(v) ==
  LET off == {i \in 0 .. Sprites - 1 : Attribute(v, i, 0) = 208}
  IN  IF off = {} THEN Sprites ELSE CHOOSE i \in off : \A j \in off : i <= j

(* Mutant: a collision stays reported when it is over.                      *)
DrawingOn(v, picture) ==
  [screen |-> picture, st |-> v.st,
   covered |-> {}, perLine |-> [l \in 0 .. YSize - 1 |-> 0], skip |-> FALSE]

Drawing(v, picture) ==
  [screen |-> picture, st |-> [v.st EXCEPT !.coincidence = FALSE],
   covered |-> {}, perLine |-> [l \in 0 .. YSize - 1 |-> 0], skip |-> FALSE]

DrawSprites(v, picture) ==
  FoldLeft(LAMBDA d, i : DrawSprite(v, d, i - 1), Drawing(v, picture),
           [i \in 1 .. Shown(v) |-> i])

(* vdpUpdateMode: the right border of text mode.                            *)
UpdateMode(v, picture) ==
  [p \in Pixels |-> IF TextMode(v) /\ p[1] >= TextColumns * TextDots
                      THEN Background(v) ELSE picture[p]]
-----------------------------------------------------------------------------
(* Software makes a sequence of accesses.                                   *)
UsePorts(accesses) ==
  LET v == FoldLeft(Access, vdp, accesses)
  IN  /\ uses < MaxUses /\ uses' = uses + 1
      /\ ~v.halted
      /\ vdp' = [v EXCEPT !.refresh = FALSE, !.mode = FALSE]
      /\ refreshNeeded' = (refreshNeeded \/ v.refresh)
      /\ modeChanged' = (modeChanged \/ v.mode)
      /\ UNCHANGED <<spritesEnabled, screen>>

(* vdpRefresh                                                               *)
Retrace(v) == IF IntEnable(v) THEN [v EXCEPT !.st.retrace = TRUE] ELSE v

Refresh ==
  LET v == Retrace(vdp)
      enabled == IF modeChanged THEN ~TextMode(v) ELSE spritesEnabled
      chars == DrawChars(v, IF modeChanged THEN UpdateMode(v, screen) ELSE screen)
      drawing == IF enabled THEN DrawSprites(v, chars)
                 ELSE [screen |-> chars, st |-> v.st]
  IN  /\ UNCHANGED uses
      /\ IF refreshNeeded
        THEN /\ vdp' = [v EXCEPT !.st = drawing.st]
             /\ screen' = drawing.screen
             /\ spritesEnabled' = enabled
             /\ refreshNeeded' = FALSE
             /\ modeChanged' = FALSE
        ELSE /\ vdp' = v
             /\ UNCHANGED <<refreshNeeded, modeChanged, spritesEnabled, screen>>

VdpInit ==
  /\ vdp = [addr |-> 0, cmd |-> 0, cmdInProg |-> FALSE, reg |-> FirstRegisters,
            st |-> [retrace |-> FALSE, fifth |-> FALSE, coincidence |-> FALSE, sprite |-> 0],
            ram |-> <<>>, halted |-> FALSE, refresh |-> FALSE, mode |-> FALSE]
  /\ refreshNeeded = FALSE /\ modeChanged = FALSE /\ spritesEnabled = FALSE
  /\ screen = [p \in Pixels |-> 0]
  /\ uses = 0

VdpNext == (\E accesses \in Accesses : UsePorts(accesses)) \/ Refresh
-----------------------------------------------------------------------------
VdpTypeOK ==
  /\ vdp.addr \in 0 .. MemoryEnd
  /\ \A a \in DOMAIN vdp.ram : vdp.ram[a] \in 0 .. 255
  /\ \A r \in 0 .. 7 : vdp.reg[r] \in Nat
  /\ {refreshNeeded, modeChanged, spritesEnabled} \subseteq BOOLEAN
  /\ screen \in [Pixels -> 0 .. 15]

(* The picture drawn on an empty screen.                                    *)
Redrawn(v) ==
  LET chars == DrawChars(v, UpdateMode(v, [p \in Pixels |-> 0]))
  IN  IF TextMode(v) THEN chars ELSE DrawSprites(v, chars).screen

(* The screen is never stale: when no refresh is due it shows what memory   *)
(* and registers describe, as if it had been drawn from nothing.  The flag  *)
(* that a write sets, the dots that keep their colour, the border that only *)
(* a change of mode draws and the switch for the sprites all agree with it. *)
(* (Software has set register 1 once, and avoids what README.md lists.)     *)
ScreenShowsMemory ==
  ~refreshNeeded /\ vdp.reg[1] # FirstRegisters[1] => screen = Redrawn(vdp)

(* Sprites by definition: what each covers, and which a line shows.         *)
Scale(v) == IF Magnified(v) THEN 2 ELSE 1
Size(v) == IF BigSprites(v) THEN 2 * Dots ELSE Dots
Top(v, i) == Attribute(v, i, 0) + 1
Left(v, i) == Attribute(v, i, 1) - (IF HasBit(Attribute(v, i, 3), 128) THEN EarlyClock ELSE 0)

HasLine(v, i, y) == y - Top(v, i) \in 0 .. Size(v) * Scale(v) - 1

HasDot(v, i, x, y) ==
  LET column == (x - Left(v, i)) \div Scale(v)
      row == (y - Top(v, i)) \div Scale(v)
      quadrant == (column \div Dots) * 2 * Dots
  IN  /\ HasLine(v, i, y) /\ column \in 0 .. Size(v) - 1
      /\ PatternBit(Byte(v, SpritePatterns(v) + Attribute(v, i, 2) * Dots + quadrant + row),
                    column % Dots)

On(v, y) == {i \in 0 .. Shown(v) - 1 : HasLine(v, i, y)}

Crowded(v, y) == Cardinality(On(v, y)) > PerLine

Overlap(v) ==
  \E p \in Pixels : \E i, j \in On(v, p[2]) :
    /\ i < j /\ HasDot(v, i, p[1], p[2]) /\ HasDot(v, j, p[1], p[2])
    /\ Cardinality({k \in On(v, p[2]) : k <= j}) <= PerLine

(* A refresh reports a collision exactly if two sprites that are shown have *)
(* a dot in the same place, and a crowded line exactly if there is one.     *)
(* Sprites that are big and magnified, or magnified and too many, are       *)
(* counted differently (see README.md).                                     *)
SpritesReported ==
  [][ refreshNeeded /\ ~refreshNeeded' /\ ~TextMode(vdp) /\ vdp.reg[1] # FirstRegisters[1]
      /\ ~(Magnified(vdp) /\ (BigSprites(vdp) \/ \E y \in 0 .. YSize - 1 : Crowded(vdp, y)))
      => /\ vdp'.st.coincidence = Overlap(vdp)
         /\ vdp'.st.fifth = (vdp.st.fifth \/ \E y \in 0 .. YSize - 1 : Crowded(vdp, y))
    ]_vdpVars
=============================================================================
