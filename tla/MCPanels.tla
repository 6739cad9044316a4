------------------------------ MODULE MCPanels ------------------------------
(***************************************************************************)
(* Instructions for Panels: of each opcode every funct3, and with one of   *)
(* them every immediate that has a single bit at an edge of a field, all   *)
(* bits or none.  Words: one for each refusal and each hole of the tables. *)
(***************************************************************************)
EXTENDS Panels

BitsOf(n) == { b \in 0 .. 6 : (n \div 2^b) % 2 = 1 }

Funct3s == { BitsOf(n) : n \in 0 .. 7 }

Imm12 == {{}, {0}, {3}, {4}, {5}, {9}, {10}, {11}, 0 .. 11, {5, 10}}
Imm20 == {{}, {0}, {7}, {9}, {10}, {11}, {18}, {19}, 0 .. 19}

Registers ==
    { [rd |-> {2}, rs1 |-> {0, 4}, rs2 |-> {1}], [rd |-> {}, rs1 |-> {3}, rs2 |-> 0 .. 4] }

Make(format, opcode, rd, rs1, rs2, funct3, funct7, immd) ==
    [format |-> format, opcode |-> BitsOf(opcode), rd |-> rd, rs1 |-> rs1, rs2 |-> rs2,
     funct3 |-> funct3, funct7 |-> funct7, immd |-> immd]

(* funct3 and immediate, one of them free *)
Variants == (Funct3s \X {{0, 4}}) \cup ({{}, {0, 2}} \X Imm12)

MCSources ==
    { Make("R", 51, r.rd, r.rs1, r.rs2, f3, f7, {}) :
        r \in Registers, f3 \in Funct3s, f7 \in {{}, {5}, {0}} }
    \cup { Make("I", op, r.rd, r.rs1, {}, v[1], {}, v[2]) :
        op \in {3, 19, 103}, r \in Registers, v \in Variants }
    \cup { Make("I", op, {}, {}, {}, f3, {}, i) :
        op \in {15, 115}, f3 \in {{}, {0}}, i \in {{}, {0}, {1}, {3}, {11}} }
    \cup { Make("S", 35, {}, r.rs1, r.rs2, v[1], {}, v[2]) : r \in Registers, v \in Variants }
    \cup { Make("B", 99, {}, r.rs1, r.rs2, v[1], {}, v[2]) : r \in Registers, v \in Variants }
    \cup { Make("U", op, r.rd, {}, {}, {}, {}, i) : op \in {23, 55}, r \in Registers, i \in Imm20 }
    \cup { Make("J", 111, r.rd, {}, {}, {}, {}, i) : r \in Registers, i \in Imm20 }

(* Nothing, all ones, a low half of zeros; then by opcode: those of 16-bit  *)
(* formats, the three holes, those without a handler, the one above the     *)
(* last, data above it, a SYSTEM with a register.                           *)
MCWords ==
    {{}, 0 .. 31, 16 .. 31}
    \cup { BitsOf(op) \cup {20} : op \in {1, 2, 31, 63, 95, 7, 47, 123, 127, 124} }
    \cup { BitsOf(115) \cup {7, 20} }

Offsets == (-BEHIND .. AHEAD) \ {0}

(* Nothing mapped around, the counter at the start and at the end of a map, *)
(* all mapped, and data the disassembler has no entry for.                  *)
MCSurroundings ==
    { [ o \in Offsets |-> {} ],
      [ o \in Offsets |-> IF o > 0 THEN {{0, 1, 4}} ELSE {} ],
      [ o \in Offsets |-> IF o < 0 THEN {{}} ELSE {} ],
      [ o \in Offsets |-> {{0, 1, 4}} ],
      [ o \in Offsets |-> IF o = AHEAD THEN {BitsOf(124)} ELSE {} ] }

MCFrameBytes == {{}, {0}, {65}, {127}}
=============================================================================
