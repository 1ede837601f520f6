------------------------------- MODULE MCCpu -------------------------------
(* Small instances of Cpu: 16-bit words, a workspace with three registers  *)
(* in use, a vector at 4 and samples of values around the boundaries.      *)
EXTENDS Cpu

MCRam == {33536 + 2 * r : r \in {0, 1, 2, 3, 4, 11, 12, 13, 14, 15}}
           \cup {33664 + 2 * r : r \in {13, 14, 15}}

(* The vectors of boot and of interrupts, and of a BLWP *)
MCRom == [a \in {0, 2, 4, 6, 8} |->
            CASE a \in {0, 4} -> 33664 [] a = 8 -> 33664 [] OTHER -> 4096]

Start(x, y, z, st) ==
  [pc |-> 4096, wp |-> 33536, st |-> st, out |-> {},
   mem |-> [a \in MCRam |-> CASE a = 33538 -> x
                              [] a \in {33536, 33540} -> y
                              [] a = 33542 -> z
                              [] OTHER -> 0]]

(* Values around the boundaries in R1 and R2, which R0 copies; R3 points   *)
(* to R2, to a low byte or to itself.                                      *)
MCStarts ==
  {Start(p[1], p[2], 33540, {}) :
     p \in {<<0, 0>>, <<1, 65535>>, <<32767, 1>>, <<32768, 32767>>, <<384, 32768>>, <<32769, 129>>}}
    \cup {Start(2, 32768, 33539, BitNumbers \ {0, 2, 3}), Start(33539, 65535, 33542, {CY, 1})}

At(mode, r) == [mode |-> mode, reg |-> r, word |-> IF mode = "symbolic" THEN 33538 ELSE 0]

MCProgram ==
  LET Immediates ==
        {[type |-> "immediate", op |-> o, reg |-> 1, word |-> w] :
           o \in {"AI", "CI"}, w \in {1, 32768}}
          \cup {[type |-> "immediate", op |-> o, reg |-> 1, word |-> 33538] :
                  o \in {"LI", "ANDI", "ORI", "STST", "STWP", "LWPI", "RTWP"}}
          \cup {[type |-> "immediate", op |-> "LIMI", reg |-> 0, word |-> w] : w \in {0, 2}}
      Singles ==
        {[type |-> "single", op |-> o, s |-> p] :
           o \in {"INV", "SWPB", "NEG", "INC", "INCT", "DEC", "DECT", "ABS"},
           p \in {At("register", 1), At("increment", 3)}}
          \cup {[type |-> "single", op |-> o, s |-> At("indirect", 3)] : o \in {"CLR", "SETO"}}
          \cup {[type |-> "single", op |-> o, s |-> [At("symbolic", 0) EXCEPT !.word = 8]] :
                  o \in {"BLWP", "B", "BL"}}
      Shifts ==
        {[type |-> "shift", op |-> o, reg |-> r, count |-> n] :
           o \in {"SRA", "SRC", "SRL", "SLA"}, r \in {1}, n \in {0, 1, 7}}
      Branches == {[type |-> "jump", op |-> o, offset |-> -1] : o \in Jumps}
      Bits == {[type |-> "bit", op |-> "TB", bit |-> b] : b \in {0, 1}}
                \cup {[type |-> "bit", op |-> o, bit |-> 0] : o \in {"SBO", "SBZ"}}
      Duals ==
        {[type |-> "dual1", op |-> o, s |-> p, reg |-> 1, word |-> 0] :
           o \in {"COC", "CZC", "XOR", "XOP", "MPY", "DIV"}, p \in {At("register", 2), At("increment", 3)}}
          \cup {[type |-> "dual1", op |-> o, s |-> At("increment", 3), reg |-> n, word |-> 43690] :
                  o \in {"LDCR", "STCR"}, n \in {3, 9}}
      Generals ==
        {[type |-> "dual2", op |-> o, byte |-> b, s |-> p, d |-> q] :
           o \in {"SZC", "SOC", "S", "A", "MOV", "C"}, b \in BOOLEAN,
           p \in {At("register", 1), At("increment", 3)}, q \in {At("register", 2), At("symbolic", 3)}}
  IN Immediates \cup Singles \cup Shifts \cup Branches \cup Bits \cup Duals \cup Generals
       \cup {[type |-> "X", s |-> At("indirect", 3), inner |-> i] :
               i \in {j \in Singles : j.op \in {"BLWP", "DECT"}}}

(* One that loads the CRU with a count of 0 *)
MCTransfers ==
  {[type |-> "dual1", op |-> o, s |-> p, reg |-> n, word |-> 43690] :
     o \in {"LDCR", "STCR"}, p \in {At("register", 1), At("increment", 3)}, n \in {0, 3, 9}}
=============================================================================
