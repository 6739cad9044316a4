-------------------------------- MODULE Alu --------------------------------
(***************************************************************************)
(* The computations of OP and OP-IMM on 32-bit registers, and the bytes a  *)
(* word is made of.  A register (int32_t) is kept as the uint32_t of the   *)
(* same bits.  A signed sum that overflows wraps, as the compilers of the  *)
(* Makefile make it; so does a shift of a negative number to the left.     *)
(* The C code has XLEN = 32, BYTE = 256 and ALT = 32.                      *)
(***************************************************************************)
EXTENDS IoMaps

CONSTANTS
    XLEN,    \* the bits of a register
    BYTE,    \* the values of a byte
    ALT      \* the funct7 that makes ADD a SUB and SRL an SRA

(* 1 << n *)
Power2[n \in 0 .. XLEN] == IF n = 0 THEN 1 ELSE 2 * Power2[n - 1]

ASSUME XlenAssumption == XLEN \in Nat \ {0} /\ Power2[XLEN] = WORD

ASSUME ByteAssumption ==
    BYTE \in Nat \ {0} /\ BYTE % 2 = 0 /\ BYTE * BYTE * BYTE * BYTE = WORD

ASSUME AltAssumption == ALT \in Nat \ {0}

Signed(x) == IF x >= HALF THEN x - WORD ELSE x

Bool(b) == IF b THEN 1 ELSE 0

-----------------------------------------------------------------------------
(* funct3 of OP; OP-IMM numbers its operations in the same way.            *)
ADDSUB == 0
SLL == 1
SLT == 2
SLTU == 3
XOR == 4
SRLSRA == 5
OR == 6
AND == 7

Bits(x) == { i \in 0 .. XLEN - 1 : (x \div Power2[i]) % 2 = 1 }

(* From the most significant bit on *)
FromBits(bits) ==
    FoldLeft(LAMBDA x, i : 2 * x + Bool(i \in bits), 0, [ k \in 1 .. XLEN |-> XLEN - k ])

Shamt(x) == x % XLEN                           \* x & 0b11111

Srl(a, b) == a \div Power2[Shamt(b)]
Sra(a, b) == Low32(Signed(a) \div Power2[Shamt(b)])

Base(funct3, a, b) ==
    CASE funct3 = ADDSUB -> Low32(a + b)
      [] funct3 = SLL    -> Low32(a * Power2[Shamt(b)])
      [] funct3 = SLT    -> Bool(Signed(a) < Signed(b))
      [] funct3 = SLTU   -> Bool(a < b)
      [] funct3 = XOR    -> FromBits((Bits(a) \cup Bits(b)) \ (Bits(a) \cap Bits(b)))
      [] funct3 = SRLSRA -> Srl(a, b)
      [] funct3 = OR     -> FromBits(Bits(a) \cup Bits(b))
      [] funct3 = AND    -> FromBits(Bits(a) \cap Bits(b))

OpValid(funct7, funct3) ==
    funct7 = 0 \/ (funct7 = ALT /\ funct3 \in {ADDSUB, SRLSRA})

Op(funct7, funct3, a, b) ==
    IF funct7 = 0 THEN Base(funct3, a, b)
    ELSE IF funct3 = ADDSUB THEN Low32(a - b) ELSE Sra(a, b)

(* Bits 11 to 5 of a sign-extended immediate; of a negative one, not 0 and *)
(* not ALT.                                                                *)
Immd115(immd) == immd \div XLEN

OpImmValid(funct3, immd) ==
    /\ funct3 = SLL => Immd115(immd) = 0
    /\ funct3 = SRLSRA => Immd115(immd) \in {0, ALT}

(* Both shifts to the right are one of an int32_t.                         *)
OpImm(funct3, immd, a) ==
    IF funct3 = SRLSRA THEN Sra(a, immd) ELSE Base(funct3, a, immd)

-----------------------------------------------------------------------------
(* Fault: the bits of the range are counted twice.                         *)
SignExtendTwice(val, range) == IF val >= range \div 2 THEN val + WORD ELSE val

(* val |= 0xffffff80 and 0xffff8000: range is 256 or 65536                 *)
SignExtend(val, range) == IF val >= range \div 2 THEN val + WORD - range ELSE val

(* Byte k of val, from the least significant one, for k in 0 .. 3          *)
ByteOf(val, k) == (val \div << 1, BYTE, BYTE * BYTE, BYTE * BYTE * BYTE >>[k + 1]) % BYTE
=============================================================================
