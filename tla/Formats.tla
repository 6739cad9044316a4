------------------------------- MODULE Formats -------------------------------
(***************************************************************************)
(* The six instruction formats: the parsers every handler and the          *)
(* disassembler start with (rv32i-inst.c) and the encoders of              *)
(* rv32i-macro.h.  A word is the set of its bits that are 1, so are the    *)
(* fields: a mask is an intersection, a shift a renumbering.               *)
(***************************************************************************)
EXTENDS Integers

Word == SUBSET (0 .. 31)

(* (w >> first) & a mask of n bits *)
Bits(w, first, n) == { b \in 0 .. n - 1 : first + b \in w }

(* (v & a mask of n bits) << first *)
Put(v, n, first) == { b \in first .. first + n - 1 : b - first \in v }

(* Fault: the sign reaches one bit less far.                               *)
SignedFromShort(sign, v) == IF sign \in v THEN v \cup sign .. 30 ELSE v

(* if (immd & sign bit) immd |= the bits above it *)
SignedFrom(sign, v) == IF sign \in v THEN v \cup sign .. 31 ELSE v

Param == [rd : SUBSET (0 .. 4), rs1 : SUBSET (0 .. 4), rs2 : SUBSET (0 .. 4),
          funct3 : SUBSET (0 .. 2), funct7 : SUBSET (0 .. 6), immd : Word]

(* rv32i_inst_param param = { 0 }, filled in *)
Params(rd, funct3, rs1, rs2, funct7, immd) ==
    [rd |-> rd, rs1 |-> rs1, rs2 |-> rs2, funct3 |-> funct3, funct7 |-> funct7, immd |-> immd]

-----------------------------------------------------------------------------
Opcode(w) == Bits(w, 0, 7)      \* rv32i_inst_getopcode
Rd(w)     == Bits(w, 7, 5)
Funct3(w) == Bits(w, 12, 3)
Rs1(w)    == Bits(w, 15, 5)
Rs2(w)    == Bits(w, 20, 5)
Funct7(w) == Bits(w, 25, 7)

ParseR(w) == Params(Rd(w), Funct3(w), Rs1(w), Rs2(w), Funct7(w), {})

ParseI(w) == Params(Rd(w), Funct3(w), Rs1(w), {}, {}, SignedFrom(11, Bits(w, 20, 12)))

ParseS(w) == Params({}, Funct3(w), Rs1(w), Rs2(w), {},
                    SignedFrom(11, Bits(w, 7, 5) \cup Put(Bits(w, 25, 7), 7, 5)))

ParseU(w) == Params(Rd(w), {}, {}, {}, {}, w \cap 12 .. 31)

(* Fault: the two bits the format moves are taken for each other.          *)
ParseBSwapped(w) ==
    Params({}, Funct3(w), Rs1(w), Rs2(w), {},
           SignedFrom(12, Put(Bits(w, 7, 1), 1, 12) \cup Put(Bits(w, 8, 4), 4, 1)
                          \cup Put(Bits(w, 25, 6), 6, 5) \cup Put(Bits(w, 31, 1), 1, 11)))

ParseB(w) ==
    Params({}, Funct3(w), Rs1(w), Rs2(w), {},
           SignedFrom(12, Put(Bits(w, 7, 1), 1, 11) \cup Put(Bits(w, 8, 4), 4, 1)
                          \cup Put(Bits(w, 25, 6), 6, 5) \cup Put(Bits(w, 31, 1), 1, 12)))

ParseJ(w) ==
    Params(Rd(w), {}, {}, {}, {},
           SignedFrom(20, Put(Bits(w, 12, 8), 8, 12) \cup Put(Bits(w, 20, 1), 1, 11)
                          \cup Put(Bits(w, 21, 10), 10, 1) \cup Put(Bits(w, 31, 1), 1, 20)))

-----------------------------------------------------------------------------
(* The encoders take every field as a number and keep its low bits.  Those  *)
(* of B and J take half the distance of the jump.                           *)
MacroR(opcode, rd, funct3, rs1, rs2, funct7) ==
    Put(opcode, 7, 0) \cup Put(rd, 5, 7) \cup Put(funct3, 3, 12)
    \cup Put(rs1, 5, 15) \cup Put(rs2, 5, 20) \cup Put(funct7, 7, 25)

MacroI(opcode, rd, funct3, rs1, immd) ==
    Put(opcode, 7, 0) \cup Put(rd, 5, 7) \cup Put(funct3, 3, 12)
    \cup Put(rs1, 5, 15) \cup Put(immd, 12, 20)

MacroS(opcode, funct3, rs1, rs2, immd) ==
    Put(opcode, 7, 0) \cup Put(immd, 5, 7) \cup Put(funct3, 3, 12)
    \cup Put(rs1, 5, 15) \cup Put(rs2, 5, 20) \cup Put(Bits(immd, 5, 7), 7, 25)

(* The immediate is not masked: what the shift pushes out is lost.          *)
MacroU(opcode, rd, immd) ==
    Put(opcode, 7, 0) \cup Put(rd, 5, 7) \cup Put(immd, 20, 12)

MacroB(opcode, funct3, rs1, rs2, immd) ==
    Put(opcode, 7, 0) \cup Put(Bits(immd, 10, 1), 1, 7) \cup Put(immd, 4, 8)
    \cup Put(funct3, 3, 12) \cup Put(rs1, 5, 15) \cup Put(rs2, 5, 20)
    \cup Put(Bits(immd, 4, 6), 6, 25) \cup Put(Bits(immd, 11, 1), 1, 31)

MacroJ(opcode, rd, immd) ==
    Put(opcode, 7, 0) \cup Put(rd, 5, 7) \cup Put(Bits(immd, 11, 8), 8, 12)
    \cup Put(Bits(immd, 10, 1), 1, 20) \cup Put(immd, 10, 21)
    \cup Put(Bits(immd, 19, 1), 1, 31)

-----------------------------------------------------------------------------
(* An instruction of each format as a programmer writes it.  Fields the     *)
(* format does not have are empty; the immediate of B and J is half the     *)
(* distance of the jump.                                                    *)
Format == {"R", "I", "S", "U", "B", "J"}

Source == [format : Format, opcode : SUBSET (0 .. 6), rd : SUBSET (0 .. 4),
           rs1 : SUBSET (0 .. 4), rs2 : SUBSET (0 .. 4), funct3 : SUBSET (0 .. 2),
           funct7 : SUBSET (0 .. 6), immd : SUBSET (0 .. 19)]

Encoded(s) ==
    CASE s.format = "R" -> MacroR(s.opcode, s.rd, s.funct3, s.rs1, s.rs2, s.funct7)
      [] s.format = "I" -> MacroI(s.opcode, s.rd, s.funct3, s.rs1, s.immd)
      [] s.format = "S" -> MacroS(s.opcode, s.funct3, s.rs1, s.rs2, s.immd)
      [] s.format = "U" -> MacroU(s.opcode, s.rd, s.immd)
      [] s.format = "B" -> MacroB(s.opcode, s.funct3, s.rs1, s.rs2, s.immd)
      [] s.format = "J" -> MacroJ(s.opcode, s.rd, s.immd)

Parsed(format, w) ==
    CASE format = "R" -> ParseR(w)
      [] format = "I" -> ParseI(w)
      [] format = "S" -> ParseS(w)
      [] format = "U" -> ParseU(w)
      [] format = "B" -> ParseB(w)
      [] format = "J" -> ParseJ(w)

(* What the parsers should find again: the immediate as a number of 32 bits *)
Shifted(v, n) == { b + n : b \in v }

Meant(s) ==
    CASE s.format = "R" -> Params(s.rd, s.funct3, s.rs1, s.rs2, s.funct7, {})
      [] s.format = "I" -> Params(s.rd, s.funct3, s.rs1, {}, {}, SignedFrom(11, s.immd))
      [] s.format = "S" -> Params({}, s.funct3, s.rs1, s.rs2, {}, SignedFrom(11, s.immd))
      [] s.format = "U" -> Params(s.rd, {}, {}, {}, {}, Shifted(s.immd, 12))
      [] s.format = "B" -> Params({}, s.funct3, s.rs1, s.rs2, {},
                                  SignedFrom(12, Shifted(s.immd, 1)))
      [] s.format = "J" -> Params(s.rd, {}, {}, {}, {}, SignedFrom(20, Shifted(s.immd, 1)))

(* A source whose immediate fits its format *)
Fits(s) ==
    CASE s.format = "R" -> s.immd = {}
      [] s.format \in {"I", "S", "B"} -> s.immd \subseteq 0 .. 11
      [] s.format \in {"U", "J"} -> s.immd \subseteq 0 .. 19
=============================================================================
