----------------------------- MODULE Mnemonics -----------------------------
(***************************************************************************)
(* Two readings of a word that are kept in agreement by hand: the one of   *)
(* the loop and its handlers (rv32i-emu.c, rv32i-inst.c), which execute    *)
(* the word or report it, and the one of the disassembler                  *)
(* (rv32i-backtrace.c), which shows it.                                    *)
(***************************************************************************)
EXTENDS Formats, Sequences

(* The number of a field; the longest that is used as one has 12 bits.      *)
Num(bits) ==
    LET Value(b, power) == IF b \in bits THEN power ELSE 0
    IN  Value(0, 1) + Value(1, 2) + Value(2, 4) + Value(3, 8) + Value(4, 16) + Value(5, 32)
        + Value(6, 64) + Value(7, 128) + Value(8, 256) + Value(9, 512) + Value(10, 1024)
        + Value(11, 2048)

CUSTOM3 == 123      \* RV32I_OPCODE_CUSTOM3, the last entry of both tables

(* rv32i_inst_instructions, by bits 2 to 6 of the opcode, from 0 on.  An    *)
(* opcode whose two low bits are not 11, or of 0x1f, 0x3f or 0x5f, has a    *)
(* null entry.                                                              *)
Instructions ==
    << "LOAD",   "LOADFP",  "CUSTOM0", "MISCMEM", "OPIMM", "AUIPC", "OPIMM32", "UNASSIGNED",
       "STORE",  "STOREFP", "CUSTOM1", "AMO",     "OP",    "LUI",   "OP32",    "UNASSIGNED",
       "MADD",   "MSUB",    "NMSUB",   "NMADD",   "OPFP",  "RESERVED0", "CUSTOM2", "UNASSIGNED",
       "BRANCH", "JALR",    "RESERVED1", "JAL",   "SYSTEM", "RESERVED2", "CUSTOM3" >>

Entry(w) ==
    IF {0, 1} \subseteq w THEN Instructions[Num(Bits(w, 2, 5)) + 1] ELSE "UNASSIGNED"

NoImpl == {"LOADFP", "CUSTOM0", "OPIMM32", "STOREFP", "CUSTOM1", "AMO", "OP32",
           "MADD", "MSUB", "NMSUB", "NMADD", "OPFP", "RESERVED0", "CUSTOM2",
           "RESERVED1", "RESERVED2", "CUSTOM3"}

(* rv32i_invalassert *)
Invalid(w)     == w \cap 0 .. 15 = {} \/ w = 0 .. 31
Unsupported(w) == ~ {0, 1} \subseteq w /\ ~ 0 .. 4 \subseteq w
Malformed(w)   == Num(Opcode(w)) > CUSTOM3

(* What the loop makes of a word: a refusal, or the entry it calls          *)
Verdict(w) ==
    IF Invalid(w) THEN "INVALID"
    ELSE IF Unsupported(w) THEN "UNSUPPORTED"
    ELSE IF Malformed(w) THEN "MALFORMED"
    ELSE Entry(w)

-----------------------------------------------------------------------------
(* The switches of the handlers.  The operation of a word, by funct3 from   *)
(* 0 on; "none" for a case they have not.                                  *)
LoadOps   == << "lb", "lh", "lw", "none", "lbu", "lhu", "none", "none" >>
StoreOps  == << "sb", "sh", "sw", "none", "none", "none", "none", "none" >>
BranchOps == << "beq", "bne", "none", "none", "blt", "bge", "bltu", "bgeu" >>
OpOps     == << "add", "sll", "slt", "sltu", "xor", "srl", "or", "and" >>
Op40Ops   == << "sub", "none", "none", "none", "none", "sra", "none", "none" >>
OpImmOps  == << "addi", "slli", "slti", "sltiu", "xori", "srli", "ori", "andi" >>

(* Bits 5 to 11 of the immediate, which the two shifts test                 *)
Immd115(w) == Num(Bits(w, 25, 7))

(* The operation and what it works on: registers in the order of the        *)
(* assembler, and the immediate if there is one.                            *)
Shown(inst, args, immd) == [inst |-> inst, args |-> args, immd |-> immd]

OpImmOperation(w) ==
    LET f3 == Num(Funct3(w))
    IN  CASE f3 = 1 -> IF Immd115(w) = 0 THEN "slli" ELSE "none"
          [] f3 = 5 -> CASE Immd115(w) = 32 -> "srai" [] Immd115(w) = 0 -> "srli" [] OTHER -> "none"
          [] OTHER -> OpImmOps[f3 + 1]

OpOperation(w) ==
    CASE Funct7(w) = {} -> OpOps[Num(Funct3(w)) + 1]
      [] Funct7(w) = {5} -> Op40Ops[Num(Funct3(w)) + 1]
      [] OTHER -> "none"

SystemOperation(w) ==
    IF Funct3(w) = {} /\ Rd(w) = {} /\ Rs1(w) = {}
    THEN CASE Bits(w, 20, 12) = {} -> "ecall"
           [] Bits(w, 20, 12) = {0} -> "ebreak"
           [] OTHER -> "none"
    ELSE "none"

Operation(w) ==
    LET verdict == Verdict(w)
        f3 == Num(Funct3(w)) + 1
    IN  CASE verdict = "LOAD"   -> LoadOps[f3]
          [] verdict = "STORE"  -> StoreOps[f3]
          [] verdict = "BRANCH" -> BranchOps[f3]
          [] verdict = "OP"     -> OpOperation(w)
          [] verdict = "OPIMM"  -> OpImmOperation(w)
          [] verdict = "LUI"    -> "lui"
          [] verdict = "AUIPC"  -> "auipc"
          [] verdict = "JAL"    -> "jal"
          [] verdict = "JALR"   -> IF Funct3(w) = {} THEN "jalr" ELSE "none"
          [] verdict = "MISCMEM" -> "fence"
          [] verdict = "SYSTEM" -> SystemOperation(w)
          [] OTHER -> "none"

(* The handlers that return before they look further when rd is x0          *)
Ignored(w) == Rd(w) = {} /\ Verdict(w) \in {"LOAD", "OPIMM", "OP", "LUI", "AUIPC"}

(* A word the loop or a handler reports as invalid or not implemented       *)
Reported(w) == Operation(w) = "none" /\ ~Ignored(w)

Executed(w) ==
    LET verdict == Verdict(w)
    IN  CASE verdict = "OP" -> Shown(Operation(w), << Rd(w), Rs1(w), Rs2(w) >>, {})
          [] verdict = "OPIMM" ->
                Shown(Operation(w), << Rd(w), Rs1(w) >>,
                      {IF Operation(w) = "srai" THEN ParseI(w).immd \cap 0 .. 4 ELSE ParseI(w).immd})
          [] verdict \in {"LOAD", "JALR"} ->
                Shown(Operation(w), << Rd(w), Rs1(w) >>, {ParseI(w).immd})
          [] verdict \in {"LUI", "AUIPC"} -> Shown(Operation(w), << Rd(w) >>, {ParseU(w).immd})
          [] verdict = "JAL" -> Shown("jal", << Rd(w) >>, {ParseJ(w).immd})
          [] verdict = "BRANCH" ->
                Shown(Operation(w), << Rs1(w), Rs2(w) >>, {ParseB(w).immd})
          [] verdict = "STORE" ->
                Shown(Operation(w), << Rs1(w), Rs2(w) >>, {ParseS(w).immd})
          [] OTHER -> Shown(Operation(w), << >>, {})

-----------------------------------------------------------------------------
(* rv32i_backtrace_mnemonictable.  An opcode it does not list has an entry  *)
(* of zeros, which is of type R and has no names.                           *)
Blank == [ f3 \in 1 .. 8 |-> "none" ]

Names3(entry) ==
    CASE entry = "LOAD"    -> << "lb", "lh", "lw", "none", "lbu", "lhu", "none", "none" >>
      [] entry = "MISCMEM" -> << "fence", "none", "none", "none", "none", "none", "none", "none" >>
      [] entry = "OPIMM"   -> << "addi", "slli", "slti", "sltiu", "xori", "srli", "ori", "andi" >>
      [] entry = "STORE"   -> << "sb", "sh", "sw", "none", "none", "none", "none", "none" >>
      [] entry = "OP"      -> << "add", "sll", "slt", "sltu", "xor", "srl", "or", "and" >>
      [] entry = "BRANCH"  -> << "beq", "bne", "none", "none", "blt", "bge", "bltu", "bgeu" >>
      [] entry = "SYSTEM"  -> << "ecall", "ebreak", "none", "none", "none", "none", "none", "none" >>
      [] OTHER -> Blank

Names7(entry) ==
    CASE entry = "OPIMM" -> [ Blank EXCEPT ![6] = "srai" ]
      [] entry = "OP"    -> [ Blank EXCEPT ![1] = "sub", ![6] = "sra" ]
      [] OTHER -> Blank

TypeOf(entry) ==
    CASE entry \in {"LOAD", "MISCMEM", "OPIMM", "JALR", "SYSTEM"} -> "I"
      [] entry \in {"AUIPC", "LUI"} -> "U"
      [] entry = "STORE"  -> "S"
      [] entry = "BRANCH" -> "B"
      [] entry = "JAL"    -> "J"
      [] OTHER -> "R"

(* Fault: the table ends with the last opcode that has a name.             *)
ListedShort(w) == w # {} => Num(Opcode(w)) < 115

(* The disassembler's reading of a word stays inside its table: of opcodes, *)
(* and, as the immediate is the index for SYSTEM, of its 8 names.           *)
Listed(w) ==
    w # {} => /\ ~Malformed(w)
              /\ Entry(w) = "SYSTEM" /\ Funct3(w) = {} => Bits(w, 20, 12) \subseteq 0 .. 2

(* Fault: the bit below the one that makes SRLI an SRAI.                    *)
AltBitBelow(w) == 9 \in ParseI(w).immd

AltBit(w) == 10 \in ParseI(w).immd      \* immd & 0b10000000000

(* What it looks at for SUB and SRA: an immediate type R does not have      *)
SubSra(w) == 10 \in ParseR(w).immd

Name(w) ==
    LET entry == Entry(w)
        f3    == Num(Funct3(w)) + 1
    IN  CASE entry \in {"JALR"} -> "jalr"
          [] entry = "OPIMM" -> IF f3 = 6 /\ AltBit(w) THEN Names7(entry)[f3] ELSE Names3(entry)[f3]
          [] entry = "SYSTEM" -> IF Funct3(w) # {} THEN "?" ELSE Names3(entry)[Num(Bits(w, 20, 12)) + 1]
          [] entry = "LUI" -> "lui"
          [] entry = "AUIPC" -> "auipc"
          [] entry = "JAL" -> "jal"
          [] TypeOf(entry) = "R" -> IF SubSra(w) THEN Names7(entry)[f3] ELSE Names3(entry)[f3]
          [] OTHER -> Names3(entry)[f3]

(* bool srai, which the branch for LOAD does not assign: there it is         *)
(* whatever its memory held.                                                *)
Srai(w, unset) ==
    CASE Entry(w) = "LOAD"  -> unset
      [] Entry(w) = "OPIMM" -> Num(Funct3(w)) = 5 /\ AltBit(w)
      [] OTHER -> FALSE

(* rv32i_backtrace_getmnemonic of a listed word *)
GetMnemonic(w, unset) ==
    LET entry == Entry(w)
        p     == Parsed(TypeOf(entry), w)
        name  == IF Name(w) = "none" THEN "?" ELSE Name(w)
    IN  CASE w = {} -> Shown("0", << >>, {})
          [] w # {} /\ entry \in {"MISCMEM", "SYSTEM"} -> Shown(name, << >>, {})
          [] entry \in {"LOAD", "OPIMM", "JALR"} ->
                Shown(name, << p.rd, p.rs1 >>,
                      {IF Srai(w, unset) THEN p.immd \cap 0 .. 4 ELSE p.immd})
          [] TypeOf(entry) \in {"U", "J"} -> Shown(name, << p.rd >>, {p.immd})
          [] TypeOf(entry) \in {"B", "S"} -> Shown(name, << p.rs1, p.rs2 >>, {p.immd})
          [] w # {} /\ TypeOf(entry) = "R" -> Shown(name, << p.rd, p.rs1, p.rs2 >>, {})

(* The line of the panel: the arguments of an unknown word are dropped, its *)
(* immediate is not.                                                        *)
Line(w, unset) ==
    LET ins == GetMnemonic(w, unset)
    IN  CASE ins.inst = "?" -> Shown("Unknown", << >>, ins.immd)
          [] ins.inst = "0" -> Shown("Null", << >>, ins.immd)
          [] OTHER -> ins
=============================================================================
