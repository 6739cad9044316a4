------------------------------- MODULE MCHart -------------------------------
(***************************************************************************)
(* Words for Hart, on 8-bit registers (HALF = 128) of four bytes of two    *)
(* bits.  Two registers compute, x5 and s0, and s0 also places the panel   *)
(* of memory; immediates of both signs, aligned and not, reach every map,  *)
(* its last bytes and the holes between maps.                              *)
(***************************************************************************)
EXTENDS Hart

W(op, rds, rs1s, rs2s, funct3s, funct7s, immds) ==
    { [op |-> op, rd |-> rd, rs1 |-> rs1, rs2 |-> rs2,
       funct3 |-> f3, funct7 |-> f7, immd |-> immd] :
         rd \in rds, rs1 \in rs1s, rs2 \in rs2s, f3 \in funct3s, f7 \in funct7s, immd \in immds }

Computing ==
    W("OPIMM", {5}, {0}, {0}, {ADDSUB}, {0}, {6, 15, 254})
    \cup W("OPIMM", {8}, {5}, {0}, {ADDSUB, SLL, SRLSRA, AND}, {0}, {2, 9})
    \cup W("OPIMM", {0}, {5}, {0}, {ADDSUB}, {0}, {9})
    \cup W("OP", {5}, {5}, {8}, 0 .. 7, {0}, {0})
    \cup W("OP", {8}, {8}, {5}, {ADDSUB, SRLSRA, XOR}, {ALT}, {0})
    \cup W("OP", {0}, {5}, {8}, {ADDSUB}, {ALT + 1}, {0})
    \cup W("OP", {5}, {5}, {8}, {ADDSUB}, {ALT + 1}, {0})
    \cup W("LUI", {0, 5}, {0}, {0}, {0}, {0}, {240})
    \cup W("AUIPC", {0, 8}, {0}, {0}, {0}, {0}, {16})
    \cup W("MISCMEM", {0}, {0}, {0}, {0}, {0}, {0})

Jumping ==
    W("BRANCH", {0}, {5}, {8}, 0 .. 7, {0}, {252})
    \cup W("BRANCH", {0}, {5}, {8}, {0}, {0}, {6})
    \cup W("JAL", {0, 5}, {0}, {0}, {0}, {0}, {252})
    \cup W("JAL", {5}, {0}, {0}, {0}, {0}, {2})
    \cup W("JALR", {0, 5}, {5}, {0}, {0}, {0}, {2, 249})
    \cup W("JALR", {5}, {5}, {0}, {1}, {0}, {0})

Accessing ==
    W("LOAD", {5}, {5}, {0}, 0 .. 5, {0}, {1, 252})
    \cup W("LOAD", {0}, {5}, {0}, {2}, {0}, {252})
    \cup W("STORE", {0}, {5}, {8}, {0, 1, 2, 5}, {0}, {1, 252})

Stopping ==
    W("INVALID", {0}, {0}, {0}, {0}, {0}, {0}) \cup W("MALFORMED", {0}, {0}, {0}, {0}, {0}, {0})
    \cup W("UNASSIGNED", {0}, {0}, {0}, {0}, {0}, {0}) \cup W("AMO", {0}, {0}, {0}, {0}, {0}, {0})

(* Two instructions make a read or a write of nothing, three a write.       *)
Calling ==
    W("SYSTEM", {0}, {0}, {0}, {0}, {0}, {0, 1, 9})
    \cup W("OPIMM", {a0}, {0}, {0}, {ADDSUB}, {0}, {1, 2})
    \cup W("OPIMM", {a2}, {0}, {0}, {ADDSUB}, {0}, {4})

MCInsts == Computing \cup Jumping \cup Accessing \cup Stopping \cup Calling

(* Programs of system calls: ADDI sets their three arguments.              *)
MCCalls ==
    W("OPIMM", {a0}, {0}, {0}, {ADDSUB}, {0}, {1, 2, 3})
    \cup W("OPIMM", {a1}, {0}, {0}, {ADDSUB}, {0}, {3, 8, 12, 30})
    \cup W("OPIMM", {a2}, {0}, {0}, {ADDSUB}, {0}, {1, 4, 9, 32, 255})
    \cup W("SYSTEM", {0}, {0}, {0}, {0}, {0}, {0, 1, 9}) \cup W("SYSTEM", {5}, {0}, {0}, {0}, {0}, {0})

MCImages == { [ a \in Addr |-> (a + a \div 4) % BYTE ] }

MCInputs == { << >>, << 3 >>, << 3, 2, 1, 3, 2 >> }

Line(maps, load_at) ==
    [is_using_mmap |-> maps # << >>, choosen_iomaps |-> maps, ramamnt |-> PAGE, load_at |-> load_at]
Map(addr, size) == [addr |-> addr, size |-> size]

(* One map; two adjacent ones; two with a hole, the higher one first.      *)
MCCmdlines ==
    { Line(<< >>, 0), Line(<< Map(0, 8), Map(8, 16) >>, 4),
      Line(<< Map(20, 8), Map(4, 8) >>, 4) }

(* ... and a program that is not aligned.                                  *)
MCCmdlinesUnaligned == MCCmdlines \cup { Line(<< Map(0, 8), Map(8, 16) >>, 2) }

(* ... and a map with more pages than the array of a transfer has slots.   *)
MCCmdlinesCalls == MCCmdlinesUnaligned \cup { Line(<< Map(0, 40) >>, 4) }
=============================================================================
