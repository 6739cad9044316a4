---------------------------- MODULE PanelsProofs ----------------------------
(***************************************************************************)
(* RoundTrip for every set of instructions: the macros of rv32i-macro.h    *)
(* and the parsers of rv32i-inst.c are inverse to each other.  A word is a *)
(* set of bits, so each field is a set equality, proved one inclusion at a *)
(* time.                                                                   *)
(***************************************************************************)
EXTENDS Panels, TLAPS

(* An OP comes out as it was put in, field by field.                        *)
LEMMA ParseRInverts ==
    ASSUME NEW opcode \in SUBSET (0 .. 6),
           NEW rd \in SUBSET (0 .. 4),
           NEW funct3 \in SUBSET (0 .. 2),
           NEW rs1 \in SUBSET (0 .. 4),
           NEW rs2 \in SUBSET (0 .. 4),
           NEW funct7 \in SUBSET (0 .. 6)
    PROVE  ParseR(MacroR(opcode, rd, funct3, rs1, rs2, funct7))
           = Params(rd, funct3, rs1, rs2, funct7, {})
<1> DEFINE w == MacroR(opcode, rd, funct3, rs1, rs2, funct7)
<1>1. Rd(w) = rd
  <2>1. ASSUME NEW b \in Rd(w) PROVE b \in rd
    BY <2>1, SMT DEF MacroR, Put, Bits, Rd
  <2>2. ASSUME NEW b \in rd PROVE b \in Rd(w)
    BY <2>2, SMT DEF MacroR, Put, Bits, Rd
  <2> QED
    BY <2>1, <2>2, Zenon
<1>2. Funct3(w) = funct3
  <2>1. ASSUME NEW b \in Funct3(w) PROVE b \in funct3
    BY <2>1, SMT DEF MacroR, Put, Bits, Funct3
  <2>2. ASSUME NEW b \in funct3 PROVE b \in Funct3(w)
    BY <2>2, SMT DEF MacroR, Put, Bits, Funct3
  <2> QED
    BY <2>1, <2>2, Zenon
<1>3. Rs1(w) = rs1
  <2>1. ASSUME NEW b \in Rs1(w) PROVE b \in rs1
    BY <2>1, SMT DEF MacroR, Put, Bits, Rs1
  <2>2. ASSUME NEW b \in rs1 PROVE b \in Rs1(w)
    BY <2>2, SMT DEF MacroR, Put, Bits, Rs1
  <2> QED
    BY <2>1, <2>2, Zenon
<1>4. Rs2(w) = rs2
  <2>1. ASSUME NEW b \in Rs2(w) PROVE b \in rs2
    BY <2>1, SMT DEF MacroR, Put, Bits, Rs2
  <2>2. ASSUME NEW b \in rs2 PROVE b \in Rs2(w)
    BY <2>2, SMT DEF MacroR, Put, Bits, Rs2
  <2> QED
    BY <2>1, <2>2, Zenon
<1>5. Funct7(w) = funct7
  <2>1. ASSUME NEW b \in Funct7(w) PROVE b \in funct7
    BY <2>1, SMT DEF MacroR, Put, Bits, Funct7
  <2>2. ASSUME NEW b \in funct7 PROVE b \in Funct7(w)
    BY <2>2, SMT DEF MacroR, Put, Bits, Funct7
  <2> QED
    BY <2>1, <2>2, Zenon
<1> QED
  BY <1>1, <1>2, <1>3, <1>4, <1>5 DEF ParseR

(* The twelve bits of the immediate are found again and their sign spread.  *)
LEMMA ParseIInverts ==
    ASSUME NEW opcode \in SUBSET (0 .. 6),
           NEW rd \in SUBSET (0 .. 4),
           NEW funct3 \in SUBSET (0 .. 2),
           NEW rs1 \in SUBSET (0 .. 4),
           NEW immd \in SUBSET (0 .. 11)
    PROVE  ParseI(MacroI(opcode, rd, funct3, rs1, immd))
           = Params(rd, funct3, rs1, {}, {}, SignedFrom(11, immd))
<1> DEFINE w == MacroI(opcode, rd, funct3, rs1, immd)
           raw == Bits(w, 20, 12)
<1>1. Rd(w) = rd
  <2>1. ASSUME NEW b \in Rd(w) PROVE b \in rd
    BY <2>1, SMT DEF MacroI, Put, Bits, Rd
  <2>2. ASSUME NEW b \in rd PROVE b \in Rd(w)
    BY <2>2, SMT DEF MacroI, Put, Bits, Rd
  <2> QED
    BY <2>1, <2>2, Zenon
<1>2. Funct3(w) = funct3
  <2>1. ASSUME NEW b \in Funct3(w) PROVE b \in funct3
    BY <2>1, SMT DEF MacroI, Put, Bits, Funct3
  <2>2. ASSUME NEW b \in funct3 PROVE b \in Funct3(w)
    BY <2>2, SMT DEF MacroI, Put, Bits, Funct3
  <2> QED
    BY <2>1, <2>2, Zenon
<1>3. Rs1(w) = rs1
  <2>1. ASSUME NEW b \in Rs1(w) PROVE b \in rs1
    BY <2>1, SMT DEF MacroI, Put, Bits, Rs1
  <2>2. ASSUME NEW b \in rs1 PROVE b \in Rs1(w)
    BY <2>2, SMT DEF MacroI, Put, Bits, Rs1
  <2> QED
    BY <2>1, <2>2, Zenon
<1>4. raw = immd
  <2>1. ASSUME NEW b \in raw PROVE b \in immd
    BY <2>1, SMT DEF MacroI, Put, Bits
  <2>2. ASSUME NEW b \in immd PROVE b \in raw
    BY <2>2, SMT DEF MacroI, Put, Bits
  <2> QED
    BY <2>1, <2>2, Zenon
<1> QED
  BY <1>1, <1>2, <1>3, <1>4 DEF ParseI

(* So are those a store keeps in two places.                                *)
LEMMA ParseSInverts ==
    ASSUME NEW opcode \in SUBSET (0 .. 6),
           NEW funct3 \in SUBSET (0 .. 2),
           NEW rs1 \in SUBSET (0 .. 4),
           NEW rs2 \in SUBSET (0 .. 4),
           NEW immd \in SUBSET (0 .. 11)
    PROVE  ParseS(MacroS(opcode, funct3, rs1, rs2, immd))
           = Params({}, funct3, rs1, rs2, {}, SignedFrom(11, immd))
<1> DEFINE w == MacroS(opcode, funct3, rs1, rs2, immd)
           raw == Bits(w, 7, 5) \cup Put(Bits(w, 25, 7), 7, 5)
<1>1. Funct3(w) = funct3
  <2>1. ASSUME NEW b \in Funct3(w) PROVE b \in funct3
    BY <2>1, SMT DEF MacroS, Put, Bits, Funct3
  <2>2. ASSUME NEW b \in funct3 PROVE b \in Funct3(w)
    BY <2>2, SMT DEF MacroS, Put, Bits, Funct3
  <2> QED
    BY <2>1, <2>2, Zenon
<1>2. Rs1(w) = rs1
  <2>1. ASSUME NEW b \in Rs1(w) PROVE b \in rs1
    BY <2>1, SMT DEF MacroS, Put, Bits, Rs1
  <2>2. ASSUME NEW b \in rs1 PROVE b \in Rs1(w)
    BY <2>2, SMT DEF MacroS, Put, Bits, Rs1
  <2> QED
    BY <2>1, <2>2, Zenon
<1>3. Rs2(w) = rs2
  <2>1. ASSUME NEW b \in Rs2(w) PROVE b \in rs2
    BY <2>1, SMT DEF MacroS, Put, Bits, Rs2
  <2>2. ASSUME NEW b \in rs2 PROVE b \in Rs2(w)
    BY <2>2, SMT DEF MacroS, Put, Bits, Rs2
  <2> QED
    BY <2>1, <2>2, Zenon
<1>4. raw = immd
  <2>1. ASSUME NEW b \in raw PROVE b \in immd
    BY <2>1, SMT DEF MacroS, Put, Bits
  <2>2. ASSUME NEW b \in immd PROVE b \in raw
    BY <2>2, SMT DEF MacroS, Put, Bits
  <2> QED
    BY <2>1, <2>2, Zenon
<1> QED
  BY <1>1, <1>2, <1>3, <1>4 DEF ParseS

(* The twenty bits of LUI and AUIPC end in the upper part.                  *)
LEMMA ParseUInverts ==
    ASSUME NEW opcode \in SUBSET (0 .. 6),
           NEW rd \in SUBSET (0 .. 4),
           NEW immd \in SUBSET (0 .. 19)
    PROVE  ParseU(MacroU(opcode, rd, immd))
           = Params(rd, {}, {}, {}, {}, Shifted(immd, 12))
<1> DEFINE w == MacroU(opcode, rd, immd)
           raw == w \cap 12 .. 31
<1>1. Rd(w) = rd
  <2>1. ASSUME NEW b \in Rd(w) PROVE b \in rd
    BY <2>1, SMT DEF MacroU, Put, Bits, Rd
  <2>2. ASSUME NEW b \in rd PROVE b \in Rd(w)
    BY <2>2, SMT DEF MacroU, Put, Bits, Rd
  <2> QED
    BY <2>1, <2>2, Zenon
<1>2. raw = Shifted(immd, 12)
  <2>1. ASSUME NEW b \in raw PROVE b \in Shifted(immd, 12)
    BY <2>1, SMT DEF MacroU, Put, Bits, Shifted
  <2>2. ASSUME NEW b \in Shifted(immd, 12) PROVE b \in raw
    BY <2>2, SMT DEF MacroU, Put, Bits, Shifted
  <2> QED
    BY <2>1, <2>2, Zenon
<1> QED
  BY <1>1, <1>2 DEF ParseU

(* The four parts of a branch distance are put back in their order.         *)
LEMMA ParseBInverts ==
    ASSUME NEW opcode \in SUBSET (0 .. 6),
           NEW funct3 \in SUBSET (0 .. 2),
           NEW rs1 \in SUBSET (0 .. 4),
           NEW rs2 \in SUBSET (0 .. 4),
           NEW immd \in SUBSET (0 .. 11)
    PROVE  ParseB(MacroB(opcode, funct3, rs1, rs2, immd))
           = Params({}, funct3, rs1, rs2, {}, SignedFrom(12, Shifted(immd, 1)))
<1> DEFINE w == MacroB(opcode, funct3, rs1, rs2, immd)
           raw == Put(Bits(w, 7, 1), 1, 11) \cup Put(Bits(w, 8, 4), 4, 1)
                  \cup Put(Bits(w, 25, 6), 6, 5) \cup Put(Bits(w, 31, 1), 1, 12)
<1>1. Funct3(w) = funct3
  <2>1. ASSUME NEW b \in Funct3(w) PROVE b \in funct3
    BY <2>1, SMT DEF MacroB, Put, Bits, Funct3
  <2>2. ASSUME NEW b \in funct3 PROVE b \in Funct3(w)
    BY <2>2, SMT DEF MacroB, Put, Bits, Funct3
  <2> QED
    BY <2>1, <2>2, Zenon
<1>2. Rs1(w) = rs1
  <2>1. ASSUME NEW b \in Rs1(w) PROVE b \in rs1
    BY <2>1, SMT DEF MacroB, Put, Bits, Rs1
  <2>2. ASSUME NEW b \in rs1 PROVE b \in Rs1(w)
    BY <2>2, SMT DEF MacroB, Put, Bits, Rs1
  <2> QED
    BY <2>1, <2>2, Zenon
<1>3. Rs2(w) = rs2
  <2>1. ASSUME NEW b \in Rs2(w) PROVE b \in rs2
    BY <2>1, SMT DEF MacroB, Put, Bits, Rs2
  <2>2. ASSUME NEW b \in rs2 PROVE b \in Rs2(w)
    BY <2>2, SMT DEF MacroB, Put, Bits, Rs2
  <2> QED
    BY <2>1, <2>2, Zenon
<1>4. raw = Shifted(immd, 1)
  <2>1. ASSUME NEW b \in raw PROVE b \in Shifted(immd, 1)
    BY <2>1, SMT DEF MacroB, Put, Bits, Shifted
  <2>2. ASSUME NEW b \in Shifted(immd, 1) PROVE b \in raw
    BY <2>2, SMT DEF MacroB, Put, Bits, Shifted
  <2> QED
    BY <2>1, <2>2, Zenon
<1> QED
  BY <1>1, <1>2, <1>3, <1>4 DEF ParseB

(* So are the four parts of the distance of a JAL.                          *)
LEMMA ParseJInverts ==
    ASSUME NEW opcode \in SUBSET (0 .. 6),
           NEW rd \in SUBSET (0 .. 4),
           NEW immd \in SUBSET (0 .. 19)
    PROVE  ParseJ(MacroJ(opcode, rd, immd))
           = Params(rd, {}, {}, {}, {}, SignedFrom(20, Shifted(immd, 1)))
<1> DEFINE w == MacroJ(opcode, rd, immd)
           raw == Put(Bits(w, 12, 8), 8, 12) \cup Put(Bits(w, 20, 1), 1, 11)
                  \cup Put(Bits(w, 21, 10), 10, 1) \cup Put(Bits(w, 31, 1), 1, 20)
<1>1. Rd(w) = rd
  <2>1. ASSUME NEW b \in Rd(w) PROVE b \in rd
    BY <2>1, SMT DEF MacroJ, Put, Bits, Rd
  <2>2. ASSUME NEW b \in rd PROVE b \in Rd(w)
    BY <2>2, SMT DEF MacroJ, Put, Bits, Rd
  <2> QED
    BY <2>1, <2>2, Zenon
<1>2. raw = Shifted(immd, 1)
  <2>1. ASSUME NEW b \in raw PROVE b \in Shifted(immd, 1)
    BY <2>1, SMT DEF MacroJ, Put, Bits, Shifted
  <2>2. ASSUME NEW b \in Shifted(immd, 1) PROVE b \in raw
    BY <2>2, SMT DEF MacroJ, Put, Bits, Shifted
  <2> QED
    BY <2>1, <2>2, Zenon
<1> QED
  BY <1>1, <1>2 DEF ParseJ

-----------------------------------------------------------------------------
(* A source that fits its format is found again by the format's parser.    *)
LEMMA ParsedInverts ==
    ASSUME NEW s \in Source, Fits(s)
    PROVE  Parsed(s.format, Encoded(s)) = Meant(s)
<1>1. s.format \in Format
  BY DEF Source
<1>2. /\ s.opcode \in SUBSET (0 .. 6) /\ s.rd \in SUBSET (0 .. 4)
      /\ s.rs1 \in SUBSET (0 .. 4) /\ s.rs2 \in SUBSET (0 .. 4)
      /\ s.funct3 \in SUBSET (0 .. 2) /\ s.funct7 \in SUBSET (0 .. 6)
  BY DEF Source
<1>3. CASE s.format = "R"
  BY <1>2, <1>3, ParseRInverts DEF Parsed, Encoded, Meant
<1>4. CASE s.format = "I"
  BY <1>2, <1>4, ParseIInverts DEF Parsed, Encoded, Meant, Fits
<1>5. CASE s.format = "S"
  BY <1>2, <1>5, ParseSInverts DEF Parsed, Encoded, Meant, Fits
<1>6. CASE s.format = "U"
  BY <1>2, <1>6, ParseUInverts DEF Parsed, Encoded, Meant, Fits
<1>7. CASE s.format = "B"
  BY <1>2, <1>7, ParseBInverts DEF Parsed, Encoded, Meant, Fits
<1>8. CASE s.format = "J"
  BY <1>2, <1>8, ParseJInverts DEF Parsed, Encoded, Meant, Fits
<1> QED
  BY <1>1, <1>3, <1>4, <1>5, <1>6, <1>7, <1>8 DEF Format

(* What RoundTrip needs to be inductive: where the word and the fields      *)
(* come from.                                                               *)
Assembled ==
    /\ \A s \in source : s \in Sources /\ word = Encoded(s)
    /\ \A p \in param : /\ Executable(Entry(word))
                        /\ p = Parsed(FormatOf(Entry(word)), word)

(* Only Meet and Dispatch touch the word, its source or its fields.         *)
LEMMA AssembledInductive == Spec => []Assembled
<1>1. Init => Assembled
  BY DEF Init, Assembled
<1>2. Assembled /\ [Next]_vars => Assembled'
  <2> SUFFICES ASSUME Assembled, [Next]_vars
               PROVE  Assembled'
    OBVIOUS
  <2>1. CASE FetchAssembled
    BY <2>1 DEF FetchAssembled, Meet, Assembled
  <2>2. CASE FetchOther
    BY <2>2 DEF FetchOther, Meet, Assembled
  <2>3. CASE Dispatch
    <3>1. word' = word /\ source' = source
      BY <2>3 DEF Dispatch
    <3>2. CASE UNCHANGED param
      BY <3>1, <3>2 DEF Assembled
    <3>3. CASE /\ Executable(Entry(word))
               /\ param' = {Parsed(FormatOf(Entry(word)), word)}
      BY <3>1, <3>3 DEF Assembled
    <3> QED
      BY <2>3, <3>2, <3>3 DEF Dispatch
  <2>4. CASE UNCHANGED << word, source, param >>
    BY <2>4 DEF Assembled
  <2> QED
    BY <2>1, <2>2, <2>3, <2>4 DEF Next, vars, FetchNothing, DrawDisassembly, DumpByte, EndDump
<1> QED
  BY <1>1, <1>2, PTL DEF Spec

(* The encoders and the parsers agree for every instruction of every       *)
(* format, with any opcode, registers, function codes and immediate that    *)
(* fits: what a handler parses is what was assembled.                       *)
THEOREM RoundTripHolds == Spec => []RoundTrip
<1>1. Assembled => RoundTrip
  <2> SUFFICES ASSUME Assembled, NEW s \in source, NEW p \in param
               PROVE  p = Meant(s)
    BY DEF RoundTrip
  <2>1. s \in Sources /\ word = Encoded(s)
    BY DEF Assembled
  <2>2. Executable(Entry(word)) /\ p = Parsed(FormatOf(Entry(word)), word)
    BY DEF Assembled
  <2>3. FormatOf(Entry(word)) = s.format
    BY <2>1, <2>2, FormatAssumption
  <2> QED
    BY <2>1, <2>2, <2>3, SourcesAssumption, ParsedInverts
<1> QED
  BY <1>1, AssembledInductive, PTL
-----------------------------------------------------------------------------
(* The fields of a word, and the numbers they are.                          *)
LEMMA FieldsOfWord ==
    ASSUME NEW w \in Word
    PROVE  /\ Rd(w) \in SUBSET (0 .. 4) /\ Rs1(w) \in SUBSET (0 .. 4) /\ Rs2(w) \in SUBSET (0 .. 4)
           /\ Funct3(w) \in SUBSET (0 .. 2) /\ Funct7(w) \in SUBSET (0 .. 6)
           /\ Opcode(w) \in SUBSET (0 .. 6) /\ Bits(w, 2, 5) \in SUBSET (0 .. 4)
           /\ Bits(w, 20, 12) \in SUBSET (0 .. 11)
BY DEF Bits, Rd, Rs1, Rs2, Funct3, Funct7, Opcode

(* Three bits are a number below 8, 0 if none is set.                       *)
LEMMA NumOfThree ==
    ASSUME NEW bits \in SUBSET (0 .. 2)
    PROVE  /\ Num(bits) \in 0 .. 7
           /\ Num(bits) = 0 <=> bits = {}
<1>1. \A b \in 3 .. 11 : b \notin bits
  OBVIOUS
<1>2. Num(bits) = (IF 0 \in bits THEN 1 ELSE 0) + (IF 1 \in bits THEN 2 ELSE 0)
                  + (IF 2 \in bits THEN 4 ELSE 0)
  BY <1>1 DEF Num
<1>3. bits = {} <=> 0 \notin bits /\ 1 \notin bits /\ 2 \notin bits
  <2>1. \A b \in bits : b = 0 \/ b = 1 \/ b = 2
    OBVIOUS
  <2> QED
    BY <2>1
<1> QED
  BY <1>2, <1>3

(* Five bits, written out.                                                  *)
LEMMA NumOfFive ==
    ASSUME NEW bits \in SUBSET (0 .. 4)
    PROVE  Num(bits) = (IF 0 \in bits THEN 1 ELSE 0) + (IF 1 \in bits THEN 2 ELSE 0)
                       + (IF 2 \in bits THEN 4 ELSE 0) + (IF 3 \in bits THEN 8 ELSE 0)
                       + (IF 4 \in bits THEN 16 ELSE 0)
<1>1. \A b \in 5 .. 11 : b \notin bits
  OBVIOUS
<1> QED
  BY <1>1 DEF Num

(* The number of an opcode is that of bits 2 to 6, four times, and of the   *)
(* two bits below.                                                          *)
LEMMA NumOfOpcode ==
    ASSUME NEW w \in Word, {0, 1} \subseteq w
    PROVE  /\ Num(Opcode(w)) = 4 * Num(Bits(w, 2, 5)) + 3
           /\ Num(Bits(w, 2, 5)) \in 0 .. 31
<1>1. \A b \in 7 .. 11 : b \notin Opcode(w)
  BY DEF Opcode, Bits
<1>2. \A b \in 0 .. 6 : b \in Opcode(w) <=> b \in w
  BY DEF Opcode, Bits
<1>3. Num(Opcode(w)) = 3 + (IF 2 \in w THEN 4 ELSE 0) + (IF 3 \in w THEN 8 ELSE 0)
                       + (IF 4 \in w THEN 16 ELSE 0) + (IF 5 \in w THEN 32 ELSE 0)
                       + (IF 6 \in w THEN 64 ELSE 0)
  BY <1>1, <1>2 DEF Num
<1>4. \A b \in 0 .. 4 : b \in Bits(w, 2, 5) <=> 2 + b \in w
  BY DEF Bits
<1>5. Num(Bits(w, 2, 5)) = (IF 2 \in w THEN 1 ELSE 0) + (IF 3 \in w THEN 2 ELSE 0)
                       + (IF 4 \in w THEN 4 ELSE 0) + (IF 5 \in w THEN 8 ELSE 0)
                       + (IF 6 \in w THEN 16 ELSE 0)
  BY <1>4, FieldsOfWord, NumOfFive
<1> QED
  BY <1>3, <1>5

-----------------------------------------------------------------------------
(* A word that is not refused has one of the entries of the table.          *)
Entries == {"LOAD", "MISCMEM", "OPIMM", "AUIPC", "STORE", "OP", "LUI", "BRANCH", "JALR",
            "JAL", "SYSTEM", "UNASSIGNED"} \cup NoImpl

(* A word that is not refused has its entry in the dispatch table's range.  *)
LEMMA EntryInTable ==
    ASSUME NEW w \in Word, ~Malformed(w)
    PROVE  Entry(w) \in Entries
<1>1. CASE {0, 1} \subseteq w
  <2>1. Num(Opcode(w)) = 4 * Num(Bits(w, 2, 5)) + 3 /\ Num(Bits(w, 2, 5)) \in 0 .. 31
    BY <1>1, NumOfOpcode
  <2>2. Num(Bits(w, 2, 5)) + 1 \in 1 .. 31
    BY <2>1 DEF Malformed, CUSTOM3
  <2>3. \A i \in 1 .. 31 : Instructions[i] \in Entries
    BY DEF Instructions, Entries, NoImpl
  <2> QED
    BY <1>1, <2>2, <2>3 DEF Entry
<1>2. CASE ~({0, 1} \subseteq w)
  BY <1>2 DEF Entry, Entries
<1> QED
  BY <1>1, <1>2

(* Sign extension fills a word.                                             *)
LEMMA SignedIsWord ==
    ASSUME NEW sign \in 0 .. 31, NEW v \in Word
    PROVE  SignedFrom(sign, v) \in Word
BY DEF SignedFrom, Word

(* Every parser fills fields of their lengths.                              *)
LEMMA ParsedTyped ==
    ASSUME NEW w \in Word, NEW format \in Format
    PROVE  Parsed(format, w) \in Param
<1>1. /\ Rd(w) \in SUBSET (0 .. 4) /\ Rs1(w) \in SUBSET (0 .. 4) /\ Rs2(w) \in SUBSET (0 .. 4)
      /\ Funct3(w) \in SUBSET (0 .. 2) /\ Funct7(w) \in SUBSET (0 .. 6)
  BY FieldsOfWord
<1>2. /\ {} \in SUBSET (0 .. 4) /\ {} \in SUBSET (0 .. 2) /\ {} \in SUBSET (0 .. 6)
      /\ {} \in Word /\ w \cap 12 .. 31 \in Word
  BY DEF Word
<1>3. SignedFrom(11, Bits(w, 20, 12)) \in Word
  <2>1. Bits(w, 20, 12) \in Word
    BY DEF Bits, Word
  <2> QED
    BY <2>1, SignedIsWord
<1>4. SignedFrom(11, Bits(w, 7, 5) \cup Put(Bits(w, 25, 7), 7, 5)) \in Word
  <2>1. Bits(w, 7, 5) \cup Put(Bits(w, 25, 7), 7, 5) \in Word
    BY DEF Bits, Put, Word
  <2> QED
    BY <2>1, SignedIsWord
<1>5. SignedFrom(12, Put(Bits(w, 7, 1), 1, 11) \cup Put(Bits(w, 8, 4), 4, 1)
                     \cup Put(Bits(w, 25, 6), 6, 5) \cup Put(Bits(w, 31, 1), 1, 12)) \in Word
  <2>1. Put(Bits(w, 7, 1), 1, 11) \cup Put(Bits(w, 8, 4), 4, 1)
        \cup Put(Bits(w, 25, 6), 6, 5) \cup Put(Bits(w, 31, 1), 1, 12) \in Word
    BY DEF Bits, Put, Word
  <2> QED
    BY <2>1, SignedIsWord
<1>6. SignedFrom(20, Put(Bits(w, 12, 8), 8, 12) \cup Put(Bits(w, 20, 1), 1, 11)
                     \cup Put(Bits(w, 21, 10), 10, 1) \cup Put(Bits(w, 31, 1), 1, 20)) \in Word
  <2>1. Put(Bits(w, 12, 8), 8, 12) \cup Put(Bits(w, 20, 1), 1, 11)
        \cup Put(Bits(w, 21, 10), 10, 1) \cup Put(Bits(w, 31, 1), 1, 20) \in Word
    BY DEF Bits, Put, Word
  <2> QED
    BY <2>1, SignedIsWord
<1>7. \A rd, rs1, rs2 \in SUBSET (0 .. 4) : \A funct3 \in SUBSET (0 .. 2) :
      \A funct7 \in SUBSET (0 .. 6) : \A immd \in Word :
        Params(rd, funct3, rs1, rs2, funct7, immd) \in Param
  BY DEF Params, Param
<1> HIDE DEF Word
<1>8. ParseR(w) \in Param /\ ParseU(w) \in Param
  BY <1>1, <1>2, <1>7, Zenon DEF ParseR, ParseU
<1>9. ParseI(w) \in Param
  BY <1>1, <1>2, <1>3, <1>7, Zenon DEF ParseI
<1>10. ParseS(w) \in Param
  BY <1>1, <1>2, <1>4, <1>7, Zenon DEF ParseS
<1>11. ParseB(w) \in Param
  BY <1>1, <1>2, <1>5, <1>7, Zenon DEF ParseB
<1>12. ParseJ(w) \in Param
  BY <1>1, <1>2, <1>6, <1>7, Zenon DEF ParseJ
<1> QED
  BY <1>8, <1>9, <1>10, <1>11, <1>12 DEF Parsed, Format

(* Every macro makes a word.                                                *)
LEMMA EncodedTyped ==
    ASSUME NEW s \in Source
    PROVE  Encoded(s) \in Word
<1>1. s.format \in Format
  BY DEF Source
<1>2. MacroR(s.opcode, s.rd, s.funct3, s.rs1, s.rs2, s.funct7) \in Word
  BY DEF MacroR, Put, Word
<1>3. MacroI(s.opcode, s.rd, s.funct3, s.rs1, s.immd) \in Word
  BY DEF MacroI, Put, Word
<1>4. MacroS(s.opcode, s.funct3, s.rs1, s.rs2, s.immd) \in Word
  BY DEF MacroS, Put, Word
<1>5. MacroU(s.opcode, s.rd, s.immd) \in Word
  BY DEF MacroU, Put, Word
<1>6. MacroB(s.opcode, s.funct3, s.rs1, s.rs2, s.immd) \in Word
  BY DEF MacroB, Put, Word
<1>7. MacroJ(s.opcode, s.rd, s.immd) \in Word
  BY DEF MacroJ, Put, Word
<1> QED
  BY <1>1, <1>2, <1>3, <1>4, <1>5, <1>6, <1>7 DEF Encoded, Format

-----------------------------------------------------------------------------
(* What the loop makes of a word it does not end at.                        *)
LEMMA VerdictOfWord ==
    ASSUME NEW w \in Word, Verdict(w) # "MALFORMED"
    PROVE  \/ Verdict(w) \in {"INVALID", "UNSUPPORTED"}
           \/ /\ Verdict(w) = Entry(w) /\ Entry(w) \in Entries
              /\ ~Malformed(w) /\ {0, 1} \subseteq w /\ ~Invalid(w)
<1>1. CASE Invalid(w)
  BY <1>1 DEF Verdict
<1>2. CASE ~Invalid(w) /\ Unsupported(w)
  BY <1>2 DEF Verdict
<1>3. CASE ~Invalid(w) /\ ~Unsupported(w)
  <2>1. ~Malformed(w)
    BY <1>3 DEF Verdict
  <2>2. Verdict(w) = Entry(w)
    BY <1>3, <2>1 DEF Verdict
  <2>3. {0, 1} \subseteq w
    BY <1>3 DEF Unsupported
  <2> QED
    BY <1>3, <2>1, <2>2, <2>3, EntryInTable
<1> QED
  BY <1>1, <1>2, <1>3

(* A handler's format is one of the six.                                    *)
LEMMA FormatOfTyped ==
    ASSUME NEW entry \in Entries, Executable(entry)
    PROVE  FormatOf(entry) \in Format
BY DEF Entries, Executable, NoImpl, FormatOf, Format

(* The word that is drawn has been judged by the loop.                      *)
Judged ==
    stage \in {"disassembly", "dump", "dispatch", "unlisted"} =>
        /\ Verdict(word) # "MALFORMED"
        /\ refused = (Verdict(word) \in {"INVALID", "UNSUPPORTED"})

(* TypeOK but for the dump                                                  *)
Loop ==
    /\ stage \in {"fetch", "disassembly", "dump", "dispatch", "error", "unlisted", "undefined"}
    /\ word \in Word /\ refused \in BOOLEAN
    /\ \A p \in param : p \in Param
    /\ Judged

(* Where the turn of the loop stands agrees with the word it has met.       *)
LEMMA LoopAlways == Spec => []Loop
<1>1. Init => Loop
  BY DEF Init, Loop, Judged, Word
<1>2. Loop /\ [Next]_vars => Loop'
  <2> SUFFICES ASSUME Loop, [Next]_vars
               PROVE  Loop'
    OBVIOUS
  <2>1. ASSUME NEW w \in Word, Meet(w)
        PROVE  Loop'
    BY <2>1 DEF Meet, Loop, Judged
  <2>2. CASE FetchAssembled
    <3>1. PICK s \in Sources : Meet(Encoded(s))
      BY <2>2 DEF FetchAssembled
    <3>2. Encoded(s) \in Word
      BY SourcesAssumption, EncodedTyped
    <3> QED
      BY <2>1, <3>1, <3>2
  <2>3. CASE FetchOther
    BY <2>1, <2>3, SourcesAssumption DEF FetchOther
  <2>4. CASE FetchNothing
    BY <2>4 DEF FetchNothing, Loop, Judged
  <2>5. CASE DrawDisassembly
    BY <2>5 DEF DrawDisassembly, Loop, Judged
  <2>6. CASE DumpByte
    BY <2>6 DEF DumpByte, Loop, Judged
  <2>7. CASE EndDump
    BY <2>7 DEF EndDump, Loop, Judged
  <2>8. CASE Dispatch
    <3>1. UNCHANGED << word, refused >>
      BY <2>8 DEF Dispatch
    <3>2. stage' \in {"error", "undefined", "fetch"}
      BY <2>8 DEF Dispatch
    <3>3. \A p \in param' : p \in Param
      <4>1. CASE UNCHANGED param
        BY <4>1 DEF Loop
      <4>2. CASE /\ ~refused /\ Executable(Entry(word))
                 /\ param' = {Parsed(FormatOf(Entry(word)), word)}
        <5>1. Verdict(word) \notin {"INVALID", "UNSUPPORTED"} /\ Verdict(word) # "MALFORMED"
          BY <2>8, <4>2 DEF Dispatch, Loop, Judged
        <5>2. word \in Word /\ Entry(word) \in Entries
          BY <5>1, VerdictOfWord DEF Loop
        <5>3. Parsed(FormatOf(Entry(word)), word) \in Param
          BY <4>2, <5>2, FormatOfTyped, ParsedTyped
        <5> QED
          BY <4>2, <5>3
      <4> QED
        BY <2>8, <4>1, <4>2 DEF Dispatch
    <3> QED
      BY <3>1, <3>2, <3>3 DEF Loop, Judged
  <2>9. CASE UNCHANGED vars
    BY <2>9 DEF vars, Loop, Judged
  <2> QED
    BY <2>2, <2>3, <2>4, <2>5, <2>6, <2>7, <2>8, <2>9 DEF Next
<1> QED
  BY <1>1, <1>2, PTL DEF Spec

-----------------------------------------------------------------------------
(* A word that is refused, or that SYSTEM does not know, has no operation.  *)
LEMMA UnlistedIsReported ==
    ASSUME NEW w \in Word, Verdict(w) # "MALFORMED", ~Listed(w)
    PROVE  Reported(w)
<1>1. CASE Verdict(w) \in {"INVALID", "UNSUPPORTED"}
  BY <1>1 DEF Reported, Operation, Ignored
<1>2. CASE /\ Verdict(w) = Entry(w) /\ ~Malformed(w)
  <2>1. Verdict(w) = "SYSTEM" /\ ~(Bits(w, 20, 12) \subseteq 0 .. 2)
    BY <1>2 DEF Listed
  <2>2. Bits(w, 20, 12) # {} /\ Bits(w, 20, 12) # {0}
    BY <2>1
  <2>3. Operation(w) = "none"
    BY <2>1, <2>2 DEF Operation, SystemOperation
  <2> QED
    BY <2>1, <2>3 DEF Reported, Ignored
<1> QED
  BY <1>1, <1>2, VerdictOfWord

(* Of all words, those whose look takes the disassembler out of its tables  *)
(* are reported when they are run: no instruction that is executed does.    *)
THEOREM OnlyReportedUnlistedAlways == Spec => []OnlyReportedUnlisted
<1>1. Loop => OnlyReportedUnlisted
  <2> SUFFICES ASSUME Loop, Drawn \/ stage = "unlisted"
               PROVE  Listed(word) \/ Reported(word)
    BY DEF OnlyReportedUnlisted
  <2>1. word \in Word /\ Verdict(word) # "MALFORMED"
    BY DEF Loop, Judged, Drawn
  <2> QED
    BY <2>1, UnlistedIsReported
<1> QED
  BY <1>1, LoopAlways, PTL

-----------------------------------------------------------------------------
(* The character a byte of the dump stands for                              *)
Visible(byte) ==
    IF \E b \in byte : b >= 32 /\ b < 127 THEN CHOOSE b \in byte : TRUE ELSE DOT

(* The text of a byte is that byte, or a dot, in the row's own buffer.      *)
LEMMA TextIsVisible ==
    ASSUME NEW byte \in FrameBytes, NEW before
    PROVE  Text(byte, before) = Visible(byte) /\ Visible(byte) \in 0 .. 126
<1>1. byte = {} \/ \E b \in 0 .. 255 : byte = {b}
  BY WindowAssumption
<1>2. CASE byte = {}
  BY <1>2 DEF Text, Visible, DOT
<1>3. ASSUME NEW b \in 0 .. 255, byte = {b}
      PROVE  Text(byte, before) = Visible(byte) /\ Visible(byte) \in 0 .. 126
  <2>1. (CHOOSE c \in byte : TRUE) = b
    BY <1>3
  <2>2. byte # {} /\ (byte \subseteq 32 .. 126 <=> b >= 32 /\ b < 127)
    BY <1>3
  <2>3. (\E c \in byte : c >= 32 /\ c < 127) <=> b >= 32 /\ b < 127
    BY <1>3
  <2> QED
    BY <2>1, <2>2, <2>3 DEF Text, Visible, DOT
<1> QED
  BY <1>1, <1>2, <1>3

(* Of the row that is being drawn, the text so far is that of its bytes;    *)
(* between rows and outside the dump there is no row.                       *)
Drawing ==
    /\ hex \in Seq(FrameBytes) /\ Len(hex) < COLUMNS
    /\ datastring \in [Column -> 0 .. 126]
    /\ rows \in Nat
    /\ hex # << >> => stage = "dump" /\ rows * COLUMNS < FRAME
    /\ \A k \in Column : k < Len(hex) => datastring[k] = Visible(hex[k + 1])
    /\ \A row \in printed : \A k \in Column : row.text[k] = Visible(row.hex[k + 1])

(* A turn of the dump's loop adds one byte to the text of its row.          *)
LEMMA DumpByteDraws ==
    ASSUME Drawing, DumpByte
    PROVE  Drawing'
<1>1. COLUMNS \in Nat /\ COLUMNS > 0 /\ FRAME \in Nat
  BY WindowAssumption
<1>2. PICK byte \in FrameBytes :
        LET k == Len(hex)
            text == [datastring EXCEPT ![k] = Text(byte, @)]
        IN  /\ datastring' = text
            /\ \/ k + 1 < COLUMNS /\ hex' = Append(hex, byte) /\ UNCHANGED << rows, printed >>
               \/ /\ k + 1 = COLUMNS
                  /\ printed' = {[hex |-> Append(hex, byte), text |-> text]}
                  /\ hex' = << >> /\ rows' = rows + 1
  BY DEF DumpByte
<1> DEFINE k == Len(hex)
           text == [datastring EXCEPT ![k] = Text(byte, @)]
           line == Append(hex, byte)
<1>3. stage = "dump" /\ stage' = "dump" /\ rows * COLUMNS < FRAME
  BY DEF DumpByte
<1>4. k \in Column /\ k \in Nat
  BY <1>1 DEF Drawing, Column
<1>5. text \in [Column -> 0 .. 126] /\ text[k] = Visible(byte)
      /\ \A i \in Column : i # k => text[i] = datastring[i]
  BY <1>4, TextIsVisible, ZenonT(40) DEF Drawing
<1>6. line \in Seq(FrameBytes) /\ Len(line) = k + 1 /\ line[k + 1] = byte
      /\ \A i \in 1 .. k : line[i] = hex[i]
  BY DEF Drawing
<1>7. ASSUME NEW i \in Column, i < k + 1
      PROVE  text[i] = Visible(line[i + 1])
  <2>1. i \in Nat
    BY <1>1 DEF Column
  <2>2. CASE i = k
    BY <1>5, <1>6, <2>2
  <2>3. CASE i # k
    <3>1. i < Len(hex) /\ i + 1 \in 1 .. k
      BY <1>4, <1>7, <2>1, <2>3
    <3>2. datastring[i] = Visible(hex[i + 1])
      BY <3>1 DEF Drawing
    <3> QED
      BY <1>5, <1>6, <2>3, <3>1, <3>2
  <2> QED
    BY <2>2, <2>3
<1>8. datastring' = text
  BY <1>2
<1> HIDE DEF text
<1>9. CASE k + 1 < COLUMNS /\ hex' = line /\ UNCHANGED << rows, printed >>
  <2>1. Len(hex') = k + 1
    BY <1>6, <1>9
  <2> HIDE DEF k, line
  <2>2. hex' \in Seq(FrameBytes) /\ Len(hex') < COLUMNS /\ rows' \in Nat
    BY <1>6, <1>9, <2>1 DEF Drawing
  <2>3. \A i \in Column' : i < Len(hex') => datastring'[i] = Visible(hex'[i + 1])
    BY <1>7, <1>8, <1>9, <2>1 DEF Column
  <2>4. \A row \in printed' : \A i \in Column' : row.text[i] = Visible(row.hex[i + 1])
    BY <1>9 DEF Drawing, Column
  <2> QED
    BY <1>3, <1>5, <1>8, <1>9, <2>2, <2>3, <2>4 DEF Drawing, Column, Visible, DOT
<1>10. CASE /\ k + 1 = COLUMNS /\ printed' = {[hex |-> line, text |-> text]}
            /\ hex' = << >> /\ rows' = rows + 1
  <2>1. \A row \in printed' : row.hex = line /\ row.text = text
    BY <1>10
  <2>2. \A i \in Column : i < k + 1
    BY <1>1, <1>10 DEF Column
  <2>3. \A row \in printed' : \A i \in Column : row.text[i] = Visible(row.hex[i + 1])
    BY <1>7, <2>1, <2>2
  <2>4. hex' \in Seq(FrameBytes) /\ Len(hex') = 0 /\ rows' \in Nat
    BY <1>10 DEF Drawing
  <2>5. \A i \in Column : ~(i < Len(hex'))
    BY <2>4 DEF Column
  <2> HIDE DEF k, line
  <2> QED
    BY <1>1, <1>5, <1>8, <1>10, <2>3, <2>4, <2>5, ZenonT(60) DEF Drawing, Column, Visible, DOT
<1> QED
  BY <1>2, <1>9, <1>10 DEF text

(* At every byte of the dump the text so far is that of the row's bytes so  *)
(* far.                                                                     *)
LEMMA DrawingAlways == Spec => []Drawing
<1>1. Init => Drawing
  BY WindowAssumption DEF Init, Drawing, Column
<1>2. Drawing /\ [Next]_vars => Drawing'
  <2> SUFFICES ASSUME Drawing, [Next]_vars
               PROVE  Drawing'
    OBVIOUS
  <2>1. CASE DumpByte
    BY <2>1, DumpByteDraws
  <2>2. CASE EndDump
    <3>1. hex = << >>
      BY <2>2, WindowAssumption DEF EndDump, Drawing
    <3>2. hex' = << >> /\ rows' = 0 /\ printed' = {} /\ datastring' = [ k \in Column |-> 0 ]
      BY <2>2, <3>1 DEF EndDump
    <3> QED
      BY <3>2, WindowAssumption DEF Drawing, Column
  <2>3. CASE UNCHANGED dump /\ (stage = "dump" => UNCHANGED stage)
    BY <2>3 DEF dump, Drawing, Column, Visible, DOT
  <2>4. CASE FetchAssembled \/ FetchOther \/ FetchNothing
    BY <2>3, <2>4 DEF FetchAssembled, FetchOther, FetchNothing, Meet
  <2>5. CASE DrawDisassembly \/ Dispatch \/ UNCHANGED vars
    BY <2>3, <2>5 DEF DrawDisassembly, Dispatch, vars, dump
  <2> QED
    BY <2>1, <2>2, <2>4, <2>5 DEF Next
<1> QED
  BY <1>1, <1>2, PTL DEF Spec

(* Every variable keeps its type, whatever is fetched, mapped and drawn: a  *)
(* handler gets fields of their lengths and the buffer of the dump's text   *)
(* is not written outside.                                                  *)
THEOREM PanelsTypeOK == Spec => []TypeOK
<1>1. Loop /\ Drawing => TypeOK
  BY Zenon DEF Loop, Drawing, TypeOK
<1> QED
  BY <1>1, LoopAlways, DrawingAlways, PTL

(* Each row of the dump has the text of its own bytes, for any width of the *)
(* dump and any bytes, mapped or not.                                       *)
THEOREM DumpTruthfulAlways == Spec => []DumpTruthful
<1>1. Drawing => DumpTruthful
  BY Zenon DEF Drawing, DumpTruthful, Visible
<1> QED
  BY <1>1, DrawingAlways, PTL

-----------------------------------------------------------------------------
(* A pass over a window: the memory, and the rows whose srai is set by      *)
(* chance.                                                                 *)
DrawRowOf(window, drawn, offset) == DrawRow(window[1], window[2], drawn, offset)

(* The rows after each pass of the loop over the window.                    *)
RowFold == INSTANCE FoldInduction WITH Op <- DrawRowOf

(* The rows of the panel of code, word by word.                             *)
LEMMA RowTrace ==
    ASSUME NEW memory, NEW unset
    PROVE  \E f : /\ f[0] = << >>
                  /\ \A n \in 1 .. BEHIND + AHEAD + 1 :
                       f[n] = DrawRow(memory, unset, f[n - 1], n - 1 - BEHIND)
                  /\ Rows(memory, unset) = f[BEHIND + AHEAD + 1]
<1> DEFINE last == BEHIND + AHEAD + 1
           window == << memory, unset >>
           offsets == [ n \in 1 .. last |-> n - 1 - BEHIND ]
<1>1. last \in Nat /\ DOMAIN offsets = 1 .. last
  BY WindowAssumption
<1>2. window[1] = memory /\ window[2] = unset
  OBVIOUS
<1> HIDE DEF window
<1>3. Rows(memory, unset) = RowFold!Fold(window, << >>, offsets)
  BY <1>2 DEF Rows, DrawRowOf, FoldLeft, MapThenFoldSet, Max, RowFold!Fold,
              RowFold!FoldLeft, RowFold!MapThenFoldSet, RowFold!Max
<1> HIDE DEF last
<1>4. \A n \in 1 .. last : offsets[n] = n - 1 - BEHIND
  OBVIOUS
<1> HIDE DEF offsets
<1>5. PICK f : RowFold!Traces(f, window, << >>, offsets, last)
  BY <1>1, RowFold!FoldTrace
<1> QED
  BY <1>2, <1>3, <1>4, <1>5, Zenon DEF RowFold!Traces, DrawRowOf, last

(* The rows a window may have                                               *)
RowsOf(memory, unset) ==
    { Row(offset, CHOOSE w \in memory[offset] : TRUE, offset \in unset) : offset \in -BEHIND .. AHEAD }

(* Row j is that of the counter, and the only one.                          *)
Marked(drawn, j, w) ==
    /\ drawn[j].at = 0 /\ \E g \in BOOLEAN : drawn[j].shown = Line(w, g)
    /\ \A i \in 1 .. Len(drawn) : drawn[i].cur <=> i = j

(* The rows of the first n offsets of a window in whose middle is w: the    *)
(* row of the counter is not there yet, or it is the only one and has at    *)
(* most BEHIND rows before it.                                              *)
Window(drawn, memory, unset, n, w) ==
    /\ drawn \in Seq(RowsOf(memory, unset))
    /\ n =< BEHIND => Len(drawn) =< n /\ \A i \in 1 .. Len(drawn) : ~drawn[i].cur
    /\ n > BEHIND => \E j \in 1 .. Len(drawn) : j =< BEHIND + 1 /\ Marked(drawn, j, w)

(* One pass of the loop over the window draws at most one row, and the      *)
(* current instruction's is the marked one.                                 *)
LEMMA DrawRowKeepsWindow ==
    ASSUME NEW w, NEW memory, NEW unset, memory[0] = {w},
           NEW n \in 1 .. BEHIND + AHEAD + 1, NEW drawn, Window(drawn, memory, unset, n - 1, w)
    PROVE  Window(DrawRow(memory, unset, drawn, n - 1 - BEHIND), memory, unset, n, w)
<1>1. BEHIND \in Nat /\ AHEAD \in Nat
  BY WindowAssumption
<1> DEFINE o == n - 1 - BEHIND
           row == Row(o, CHOOSE v \in memory[o] : TRUE, o \in unset)
           next == Append(drawn, row)
<1>2. o \in -BEHIND .. AHEAD
  BY <1>1
<1>3. CASE memory[o] = {}
  <2>1. o # 0
    BY <1>3
  <2>2. DrawRow(memory, unset, drawn, o) = drawn
    BY <1>3 DEF DrawRow
  <2>3. (n =< BEHIND /\ n - 1 =< BEHIND) \/ (n > BEHIND /\ n - 1 > BEHIND)
    BY <1>1, <2>1
  <2> QED
    BY <1>1, <2>2, <2>3 DEF Window
<1>4. CASE memory[o] # {}
  <2>1. DrawRow(memory, unset, drawn, o) = next
    BY <1>4 DEF DrawRow
  <2>2. row \in RowsOf(memory, unset)
    BY <1>2 DEF RowsOf
  <2>3. /\ row.at = o /\ (row.cur <=> o = 0)
        /\ row.shown = Line(CHOOSE v \in memory[o] : TRUE, o \in unset)
    BY DEF Row
  <2> HIDE DEF row
  <2>4. drawn \in Seq(RowsOf(memory, unset))
    BY DEF Window
  <2>5. /\ next \in Seq(RowsOf(memory, unset)) /\ Len(next) = Len(drawn) + 1
        /\ \A i \in 1 .. Len(drawn) : next[i] = drawn[i]
        /\ next[Len(drawn) + 1] = row /\ Len(drawn) \in Nat
    BY <2>2, <2>4
  <2> HIDE DEF next
  <2>6. CASE o < 0
    <3>1. n =< BEHIND /\ n - 1 =< BEHIND
      BY <1>1, <2>6
    <3>2. Len(drawn) =< n - 1 /\ \A i \in 1 .. Len(drawn) : ~drawn[i].cur
      BY <3>1 DEF Window
    <3>3. \A i \in 1 .. Len(next) : i = Len(drawn) + 1 \/ i \in 1 .. Len(drawn)
      BY <2>5
    <3>4. \A i \in 1 .. Len(next) : ~next[i].cur
      BY <1>2, <2>3, <2>5, <2>6, <3>2, <3>3
    <3> QED
      BY <1>1, <2>1, <2>5, <3>1, <3>2, <3>4 DEF Window
  <2>7. CASE o = 0
    <3>1. n > BEHIND /\ n - 1 =< BEHIND /\ n - 1 = BEHIND
      BY <1>1, <2>7
    <3>2. Len(drawn) =< BEHIND /\ \A i \in 1 .. Len(drawn) : ~drawn[i].cur
      BY <3>1 DEF Window
    <3>3. row.cur /\ row.at = 0 /\ \E g \in BOOLEAN : row.shown = Line(w, g)
      <4>1. (CHOOSE v \in memory[o] : TRUE) = w /\ (o \in unset) \in BOOLEAN
        BY <2>7
      <4>2. row.shown = Line(w, o \in unset)
        BY <2>3, <4>1
      <4> QED
        BY <2>3, <2>7, <4>1, <4>2
    <3>4. \A i \in 1 .. Len(next) : i = Len(drawn) + 1 \/ i \in 1 .. Len(drawn)
      BY <2>5
    <3>5. Marked(next, Len(drawn) + 1, w)
      BY <2>5, <3>2, <3>3, <3>4 DEF Marked
    <3>6. Len(drawn) + 1 \in 1 .. Len(next) /\ Len(drawn) + 1 =< BEHIND + 1
      BY <1>1, <2>5, <3>2
    <3> QED
      BY <1>1, <2>1, <2>5, <3>1, <3>5, <3>6 DEF Window
  <2>8. CASE o > 0
    <3>1. n > BEHIND /\ n - 1 > BEHIND
      BY <1>1, <2>8
    <3>2. PICK j \in 1 .. Len(drawn) : j =< BEHIND + 1 /\ Marked(drawn, j, w)
      BY <3>1 DEF Window
    <3>3. \A i \in 1 .. Len(next) : i = Len(drawn) + 1 \/ i \in 1 .. Len(drawn)
      BY <2>5
    <3>4. ~row.cur
      BY <1>2, <2>3, <2>8
    <3>5. Marked(next, j, w)
      BY <2>5, <3>2, <3>3, <3>4 DEF Marked
    <3>6. j \in 1 .. Len(next)
      BY <2>5
    <3> QED
      BY <1>1, <2>1, <2>5, <3>1, <3>2, <3>5, <3>6 DEF Window
  <2> QED
    BY <1>1, <1>2, <2>6, <2>7, <2>8
<1> QED
  BY <1>3, <1>4

(* Of the whole window                                                      *)
LEMMA RowsMarkCounter ==
    ASSUME NEW w, NEW memory, NEW unset, memory[0] = {w}
    PROVE  \E j \in 1 .. Len(Rows(memory, unset)) :
             /\ j =< BEHIND + 1 /\ Marked(Rows(memory, unset), j, w)
             /\ DOMAIN Rows(memory, unset) = 1 .. Len(Rows(memory, unset))
<1> DEFINE last == BEHIND + AHEAD + 1
<1>1. last \in Nat /\ last > BEHIND /\ BEHIND \in Nat
  BY WindowAssumption
<1>2. PICK f : /\ f[0] = << >>
               /\ \A n \in 1 .. last : f[n] = DrawRow(memory, unset, f[n - 1], n - 1 - BEHIND)
               /\ Rows(memory, unset) = f[last]
  BY RowTrace
<1> DEFINE S == { n \in 0 .. last : Window(f[n], memory, unset, n, w) }
<1>3. 0 \in S
  <2>1. Window(<< >>, memory, unset, 0, w)
    BY <1>1 DEF Window
  <2> QED
    BY <1>1, <1>2, <2>1
<1>4. ASSUME NEW n \in 1 .. last, n - 1 \in S PROVE n \in S
  <2>1. Window(f[n - 1], memory, unset, n - 1, w)
    BY <1>4
  <2>2. Window(f[n], memory, unset, n, w)
    BY <1>2, <2>1, DrawRowKeepsWindow
  <2> QED
    BY <1>1, <2>2
<1> HIDE DEF S, last
<1>5. \A n \in 0 .. last : n \in S
  BY <1>1, <1>3, <1>4, RowFold!UpTo
<1>6. last \in S
  BY <1>1, <1>5
<1>7. Window(Rows(memory, unset), memory, unset, last, w)
  BY <1>2, <1>6 DEF S
<1> QED
  BY <1>1, <1>7 DEF Window

-----------------------------------------------------------------------------
(* The rows stay until the word has been dispatched.                        *)
Framed ==
    stage \in {"dump", "dispatch"} =>
        /\ DOMAIN lines = 1 .. Len(lines)
        /\ \E j \in 1 .. Len(lines) : j =< BEHIND + 1 /\ Marked(lines, j, word)

(* A panel that is drawn holds the current instruction inside its border.   *)
LEMMA FramedAlways == Spec => []Framed
<1>1. Init => Framed
  BY DEF Init, Framed
<1>2. Framed /\ [Next]_vars => Framed'
  <2> SUFFICES ASSUME Framed, [Next]_vars
               PROVE  Framed'
    OBVIOUS
  <2>1. CASE DrawDisassembly
    <3>1. CASE stage' = "unlisted"
      BY <3>1 DEF Framed
    <3>2. CASE stage' # "unlisted"
      <4>1. PICK around \in Surroundings : \E unset :
              lines' = Rows([ offset \in -BEHIND .. AHEAD |->
                                IF offset = 0 THEN {word} ELSE around[offset] ], unset)
        BY <2>1, <3>2 DEF DrawDisassembly
      <4> DEFINE memory == [ offset \in -BEHIND .. AHEAD |->
                               IF offset = 0 THEN {word} ELSE around[offset] ]
      <4>2. memory[0] = {word}
        BY WindowAssumption
      <4>3. word' = word /\ \E unset : lines' = Rows(memory, unset)
        BY <2>1, <4>1 DEF DrawDisassembly
      <4> HIDE DEF memory
      <4>4. PICK j \in 1 .. Len(lines') :
              j =< BEHIND + 1 /\ Marked(lines', j, word) /\ DOMAIN lines' = 1 .. Len(lines')
        <5>1. PICK unset : lines' = Rows(memory, unset)
          BY <4>3
        <5>2. \E j \in 1 .. Len(Rows(memory, unset)) :
                /\ j =< BEHIND + 1 /\ Marked(Rows(memory, unset), j, word)
                /\ DOMAIN Rows(memory, unset) = 1 .. Len(Rows(memory, unset))
          BY <4>2, RowsMarkCounter
        <5> QED
          BY <5>1, <5>2
      <4>5. Marked(lines', j, word')
        BY <4>3, <4>4
      <4> QED
        BY <4>3, <4>4, <4>5 DEF Framed, Marked
    <3> QED
      BY <3>1, <3>2
  <2>2. CASE UNCHANGED << word, lines >> /\ (stage \in {"dump", "dispatch"} \/ stage' \notin {"dump", "dispatch"})
    BY <2>2 DEF Framed, Marked
  <2>3. CASE DumpByte \/ EndDump \/ Dispatch \/ UNCHANGED vars
    BY <2>2, <2>3 DEF DumpByte, EndDump, Dispatch, vars
  <2>4. CASE FetchAssembled \/ FetchOther \/ FetchNothing
    BY <2>4 DEF FetchAssembled, FetchOther, FetchNothing, Meet, Framed
  <2> QED
    BY <2>1, <2>3, <2>4 DEF Next
<1> QED
  BY <1>1, <1>2, PTL DEF Spec

(* Whatever is mapped around it, the instruction about to run has one row,  *)
(* and the border has room for it: for every window and every memory.       *)
THEOREM CurrentShownAlways == Spec => []CurrentShown
<1>1. Framed => CurrentShown
  <2> SUFFICES ASSUME Framed, Drawn
               PROVE  \E j \in Current : /\ Current = {j} /\ j =< HEIGHT - 2
                                          /\ lines[j].at = 0
    BY DEF CurrentShown
  <2>1. PICK j \in 1 .. Len(lines) : j =< BEHIND + 1 /\ Marked(lines, j, word)
    BY DEF Framed, Drawn
  <2>2. Current = {j}
    BY <2>1 DEF Framed, Drawn, Marked, Current
  <2>3. j =< HEIGHT - 2
    BY <2>1, WindowAssumption
  <2> QED
    BY <2>1, <2>2, <2>3 DEF Marked
<1> QED
  BY <1>1, FramedAlways, PTL

-----------------------------------------------------------------------------
(* A word that the handler of an entry executes                             *)
Executes(w, entry) ==
    /\ w \in Word /\ w # {} /\ Entry(w) = entry /\ Verdict(w) = entry
    /\ Operation(w) # "none"

(* The line shows the operation, its registers and its immediate; of a load *)
(* it may show the low five bits of the immediate alone.                    *)
Agree(w, shown) ==
    /\ shown.inst = Executed(w).inst /\ shown.args = Executed(w).args
    /\ \/ shown.immd = Executed(w).immd
       \/ Entry(w) = "LOAD" /\ shown.immd = {ParseI(w).immd \cap 0 .. 4}

(* The two readings agree if they have the same name and arguments.         *)
LEMMA SameReading ==
    ASSUME NEW w, NEW g, NEW name, NEW args, NEW immd,
           GetMnemonic(w, g) = Shown(name, args, immd), name \notin {"?", "0"},
           Executed(w) = Shown(name, args, immd)
    PROVE  Agree(w, Line(w, g))
<1>1. GetMnemonic(w, g).inst = name
  BY DEF Shown
<1>2. Line(w, g) = Shown(name, args, immd)
  BY <1>1 DEF Line
<1> QED
  BY <1>2 DEF Agree

(* What the tables of eight hold                                            *)
LEMMA Tables ==
    /\ \A i \in 1 .. 8 : LoadOps[i] \in {"lb", "lh", "lw", "lbu", "lhu", "none"}
    /\ \A i \in 1 .. 8 : StoreOps[i] \in {"sb", "sh", "sw", "none"}
    /\ \A i \in 1 .. 8 : BranchOps[i] \in {"beq", "bne", "blt", "bge", "bltu", "bgeu", "none"}
    /\ \A i \in 1 .. 8 : OpOps[i] \in {"add", "sll", "slt", "sltu", "xor", "srl", "or", "and"}
    /\ \A i \in 1 .. 8 : OpImmOps[i] \in {"addi", "slli", "slti", "sltiu", "xori", "srli", "ori", "andi"}
    /\ \A i \in 2 .. 8 : Names3("MISCMEM")[i] = "none"
    /\ \A i \in 1 .. 8 : i \notin {1, 6} => Op40Ops[i] = "none"
<1>1. \A i \in 1 .. 8 : LoadOps[i] \in {"lb", "lh", "lw", "lbu", "lhu", "none"}
  BY DEF LoadOps
<1>2. \A i \in 1 .. 8 : StoreOps[i] \in {"sb", "sh", "sw", "none"}
  BY DEF StoreOps
<1>3. \A i \in 1 .. 8 : BranchOps[i] \in {"beq", "bne", "blt", "bge", "bltu", "bgeu", "none"}
  BY DEF BranchOps
<1>4. \A i \in 1 .. 8 : OpOps[i] \in {"add", "sll", "slt", "sltu", "xor", "srl", "or", "and"}
  BY DEF OpOps
<1>5. \A i \in 1 .. 8 : OpImmOps[i] \in {"addi", "slli", "slti", "sltiu", "xori", "srli", "ori", "andi"}
  BY DEF OpImmOps
<1>6. \A i \in 2 .. 8 : Names3("MISCMEM")[i] = "none"
  <2>1. Names3("MISCMEM") = << "fence", "none", "none", "none", "none", "none", "none", "none" >>
    BY DEF Names3
  <2> QED
    BY <2>1
<1>7. \A i \in 1 .. 8 : i \notin {1, 6} => Op40Ops[i] = "none"
  BY DEF Op40Ops
<1> QED
  BY <1>1, <1>2, <1>3, <1>4, <1>5, <1>6, <1>7

(* funct3 as an index of a table of eight                                   *)
LEMMA Funct3Index ==
    ASSUME NEW w \in Word
    PROVE  /\ Num(Funct3(w)) \in 0 .. 7 /\ Num(Funct3(w)) + 1 \in 1 .. 8
           /\ Num(Funct3(w)) + 1 = 1 <=> Funct3(w) = {}
BY FieldsOfWord, NumOfThree

(* One lemma per handler: what is executed is what is shown, here for loads *)
(* ...                                                                      *)
LEMMA LoadAgrees ==
    ASSUME NEW w, NEW g, Executes(w, "LOAD")
    PROVE  Agree(w, Line(w, g))
<1> DEFINE f3 == Num(Funct3(w)) + 1
           args == << Rd(w), Rs1(w) >>
           whole == {ParseI(w).immd}
           low == {ParseI(w).immd \cap 0 .. 4}
<1>1. f3 \in 1 .. 8
  BY Funct3Index DEF Executes
<1> HIDE DEF f3
<1>2. Operation(w) = LoadOps[f3]
  BY DEF Operation, Executes, f3
<1>3. Operation(w) \in {"lb", "lh", "lw", "lbu", "lhu"}
  BY <1>1, <1>2, Tables DEF Executes
<1>4. Name(w) = Operation(w)
  <2>1. Name(w) = Names3("LOAD")[f3]
    BY DEF Name, TypeOf, Executes, f3
  <2>2. Names3("LOAD") = LoadOps
    BY DEF Names3, LoadOps
  <2> QED
    BY <1>2, <2>1, <2>2
<1>5. ParseI(w).rd = Rd(w) /\ ParseI(w).rs1 = Rs1(w)
  BY DEF ParseI, Params
<1>6. GetMnemonic(w, g) = Shown(Operation(w), args, IF g THEN low ELSE whole)
  BY <1>3, <1>4, <1>5 DEF GetMnemonic, Srai, TypeOf, Parsed, Executes
<1>7. Executed(w) = Shown(Operation(w), args, whole)
  BY DEF Executed, Executes
<1>8. GetMnemonic(w, g).inst = Operation(w)
  BY <1>6 DEF Shown
<1>9. Line(w, g) = Shown(Operation(w), args, IF g THEN low ELSE whole)
  BY <1>3, <1>6, <1>8 DEF Line
<1> HIDE DEF args, whole
<1>10. /\ Line(w, g).inst = Executed(w).inst /\ Line(w, g).args = Executed(w).args
       /\ Line(w, g).immd = (IF g THEN low ELSE whole) /\ Executed(w).immd = whole
  BY <1>7, <1>9 DEF Shown
<1> QED
  BY <1>10 DEF Agree, Executes

(* ... stores ...                                                           *)
LEMMA StoreAgrees ==
    ASSUME NEW w, NEW g, Executes(w, "STORE")
    PROVE  Agree(w, Line(w, g))
<1> DEFINE f3 == Num(Funct3(w)) + 1
           args == << Rs1(w), Rs2(w) >>
           immd == {ParseS(w).immd}
<1>1. f3 \in 1 .. 8
  BY Funct3Index DEF Executes
<1> HIDE DEF f3
<1>2. Operation(w) = StoreOps[f3]
  BY DEF Operation, Executes, f3
<1>3. Operation(w) \in {"sb", "sh", "sw"}
  BY <1>1, <1>2, Tables DEF Executes
<1>4. Name(w) = Operation(w)
  <2>1. Name(w) = Names3("STORE")[f3]
    BY DEF Name, TypeOf, Executes, f3
  <2>2. Names3("STORE") = StoreOps
    BY DEF Names3, StoreOps
  <2> QED
    BY <1>2, <2>1, <2>2
<1>5. ParseS(w).rs1 = Rs1(w) /\ ParseS(w).rs2 = Rs2(w)
  BY DEF ParseS, Params
<1>6. GetMnemonic(w, g) = Shown(Operation(w), args, immd)
  BY <1>3, <1>4, <1>5 DEF GetMnemonic, Srai, TypeOf, Parsed, Executes
<1>7. Executed(w) = Shown(Operation(w), args, immd)
  BY DEF Executed, Executes
<1> QED
  BY <1>3, <1>6, <1>7, SameReading

(* ... branches ...                                                         *)
LEMMA BranchAgrees ==
    ASSUME NEW w, NEW g, Executes(w, "BRANCH")
    PROVE  Agree(w, Line(w, g))
<1> DEFINE f3 == Num(Funct3(w)) + 1
           args == << Rs1(w), Rs2(w) >>
           immd == {ParseB(w).immd}
<1>1. f3 \in 1 .. 8
  BY Funct3Index DEF Executes
<1> HIDE DEF f3
<1>2. Operation(w) = BranchOps[f3]
  BY DEF Operation, Executes, f3
<1>3. Operation(w) \in {"beq", "bne", "blt", "bge", "bltu", "bgeu"}
  BY <1>1, <1>2, Tables DEF Executes
<1>4. Name(w) = Operation(w)
  <2>1. Name(w) = Names3("BRANCH")[f3]
    BY DEF Name, TypeOf, Executes, f3
  <2>2. Names3("BRANCH") = BranchOps
    BY DEF Names3, BranchOps
  <2> QED
    BY <1>2, <2>1, <2>2
<1>5. ParseB(w).rs1 = Rs1(w) /\ ParseB(w).rs2 = Rs2(w)
  BY DEF ParseB, Params
<1>6. GetMnemonic(w, g) = Shown(Operation(w), args, immd)
  BY <1>3, <1>4, <1>5 DEF GetMnemonic, Srai, TypeOf, Parsed, Executes
<1>7. Executed(w) = Shown(Operation(w), args, immd)
  BY DEF Executed, Executes
<1> QED
  BY <1>3, <1>6, <1>7, SameReading

(* ... LUI and AUIPC ...                                                    *)
LEMMA UpperAgrees ==
    ASSUME NEW w, NEW g, Executes(w, "LUI") \/ Executes(w, "AUIPC")
    PROVE  Agree(w, Line(w, g))
<1>1. Operation(w) \in {"lui", "auipc"} /\ Name(w) = Operation(w)
  <2>1. CASE Executes(w, "LUI")
    <3>1. Operation(w) = "lui"
      BY <2>1 DEF Operation, Executes
    <3>2. Name(w) = "lui"
      BY <2>1 DEF Name, TypeOf, Executes
    <3> QED
      BY <3>1, <3>2
  <2>2. CASE Executes(w, "AUIPC")
    <3>1. Operation(w) = "auipc"
      BY <2>2 DEF Operation, Executes
    <3>2. Name(w) = "auipc"
      BY <2>2 DEF Name, TypeOf, Executes
    <3> QED
      BY <3>1, <3>2
  <2> QED
    BY <2>1, <2>2
<1>2. ParseU(w).rd = Rd(w)
  BY DEF ParseU, Params
<1>3. GetMnemonic(w, g) = Shown(Operation(w), << Rd(w) >>, {ParseU(w).immd})
  BY <1>1, <1>2 DEF GetMnemonic, Srai, TypeOf, Parsed, Executes
<1>4. Executed(w) = Shown(Operation(w), << Rd(w) >>, {ParseU(w).immd})
  BY DEF Executed, Executes
<1> QED
  BY <1>1, <1>3, <1>4, SameReading

(* ... JAL ...                                                              *)
LEMMA JalAgrees ==
    ASSUME NEW w, NEW g, Executes(w, "JAL")
    PROVE  Agree(w, Line(w, g))
<1>1. Operation(w) = "jal" /\ Name(w) = "jal"
  <2>1. Operation(w) = "jal"
    BY DEF Operation, Executes
  <2>2. Name(w) = "jal"
    BY DEF Name, TypeOf, Executes
  <2> QED
    BY <2>1, <2>2
<1>2. ParseJ(w).rd = Rd(w)
  BY DEF ParseJ, Params
<1>3. GetMnemonic(w, g) = Shown(Operation(w), << Rd(w) >>, {ParseJ(w).immd})
  BY <1>1, <1>2 DEF GetMnemonic, Srai, TypeOf, Parsed, Executes
<1>4. Executed(w) = Shown(Operation(w), << Rd(w) >>, {ParseJ(w).immd})
  BY <1>1 DEF Executed, Executes
<1> QED
  BY <1>1, <1>3, <1>4, SameReading

(* ... JALR ...                                                             *)
LEMMA JalrAgrees ==
    ASSUME NEW w, NEW g, Executes(w, "JALR")
    PROVE  Agree(w, Line(w, g))
<1> DEFINE args == << Rd(w), Rs1(w) >>
           immd == {ParseI(w).immd}
<1>1. Operation(w) = "jalr" /\ Name(w) = "jalr"
  <2>1. Operation(w) = "jalr"
    BY DEF Operation, Executes
  <2>2. Name(w) = "jalr"
    BY DEF Name, TypeOf, Executes
  <2> QED
    BY <2>1, <2>2
<1>2. ParseI(w).rd = Rd(w) /\ ParseI(w).rs1 = Rs1(w)
  BY DEF ParseI, Params
<1>3. GetMnemonic(w, g) = Shown(Operation(w), args, immd)
  BY <1>1, <1>2 DEF GetMnemonic, Srai, TypeOf, Parsed, Executes
<1>4. Executed(w) = Shown(Operation(w), args, immd)
  BY DEF Executed, Executes
<1> QED
  BY <1>1, <1>3, <1>4, SameReading

(* A FENCE has no arguments; the table knows it with a funct3 of 0 alone.   *)
LEMMA MiscmemAgrees ==
    ASSUME NEW w, NEW g, Executes(w, "MISCMEM"), ~Misnamed(w)
    PROVE  Agree(w, Line(w, g))
<1>1. Operation(w) = "fence"
  BY DEF Operation, Executes
<1>2. Num(Funct3(w)) + 1 = 1
  BY <1>1, Funct3Index DEF Misnamed, Executes
<1>3. Name(w) = "fence"
  <2>1. Name(w) = Names3("MISCMEM")[1]
    BY <1>2 DEF Name, TypeOf, Executes
  <2>2. Names3("MISCMEM")[1] = "fence"
    BY DEF Names3
  <2> QED
    BY <2>1, <2>2
<1>4. GetMnemonic(w, g) = Shown("fence", << >>, {})
  BY <1>3 DEF GetMnemonic, TypeOf, Executes
<1>5. Executed(w) = Shown("fence", << >>, {})
  BY <1>1 DEF Executed, Executes
<1> QED
  BY <1>4, <1>5, SameReading

(* ... system calls ...                                                     *)
LEMMA SystemAgrees ==
    ASSUME NEW w, NEW g, Executes(w, "SYSTEM")
    PROVE  Agree(w, Line(w, g))
<1>1. Operation(w) = SystemOperation(w)
  BY DEF Operation, Executes
<1>2. /\ Funct3(w) = {}
      /\ \/ Bits(w, 20, 12) = {} /\ Operation(w) = "ecall"
         \/ Bits(w, 20, 12) = {0} /\ Operation(w) = "ebreak"
  BY <1>1 DEF SystemOperation, Executes
<1>3. Num({}) = 0 /\ Num({0}) = 1
  BY DEF Num
<1>4. Name(w) = Names3("SYSTEM")[Num(Bits(w, 20, 12)) + 1]
  BY <1>2 DEF Name, TypeOf, Executes
<1>5. Name(w) = Operation(w) /\ Operation(w) \in {"ecall", "ebreak"}
  <2>1. Names3("SYSTEM")[1] = "ecall" /\ Names3("SYSTEM")[2] = "ebreak"
    BY DEF Names3
  <2> QED
    BY <1>2, <1>3, <1>4, <2>1
<1>6. GetMnemonic(w, g) = Shown(Operation(w), << >>, {})
  BY <1>5 DEF GetMnemonic, TypeOf, Executes
<1>7. Executed(w) = Shown(Operation(w), << >>, {})
  BY DEF Executed, Executes
<1> QED
  BY <1>5, <1>6, <1>7, SameReading

(* funct7 is no part of the name, so SUB and SRA are misnamed, and they are *)
(* the only two.                                                           *)
LEMMA OpAgrees ==
    ASSUME NEW w, NEW g, Executes(w, "OP"), ~Misnamed(w)
    PROVE  Agree(w, Line(w, g))
<1> DEFINE f3 == Num(Funct3(w)) + 1
           args == << Rd(w), Rs1(w), Rs2(w) >>
<1>1. f3 \in 1 .. 8
  BY Funct3Index DEF Executes
<1> HIDE DEF f3
<1>2. Operation(w) = OpOperation(w)
  BY DEF Operation, Executes
<1>3. ~SubSra(w)
  BY DEF SubSra, ParseR, Params
<1>4. Name(w) = OpOps[f3]
  <2>1. Name(w) = Names3("OP")[f3]
    BY <1>3 DEF Name, TypeOf, Executes, f3
  <2>2. Names3("OP") = OpOps
    BY DEF Names3, OpOps
  <2> QED
    BY <2>1, <2>2
<1>5. ParseR(w).rd = Rd(w) /\ ParseR(w).rs1 = Rs1(w) /\ ParseR(w).rs2 = Rs2(w)
  BY DEF ParseR, Params
<1>6. OpOps[f3] \in {"add", "sll", "slt", "sltu", "xor", "srl", "or", "and"}
  BY <1>1, Tables
<1>7. GetMnemonic(w, g) = Shown(OpOps[f3], args, {})
  BY <1>4, <1>5, <1>6 DEF GetMnemonic, Srai, TypeOf, Parsed, Executes
<1>8. Executed(w) = Shown(Operation(w), args, {})
  BY DEF Executed, Executes
<1>9. Operation(w) = OpOps[f3]
  <2>1. CASE Funct7(w) = {}
    BY <1>2, <2>1 DEF OpOperation, f3
  <2>2. CASE Funct7(w) = {5}
    <3>1. Operation(w) = Op40Ops[f3] /\ Operation(w) # "none"
      BY <1>2, <2>2 DEF OpOperation, Executes, f3
    <3>2. Operation(w) \in {"sub", "sra"}
      <4>1. Op40Ops[1] = "sub" /\ Op40Ops[6] = "sra"
        BY DEF Op40Ops
      <4> QED
        BY <1>1, <3>1, <4>1, Tables
    <3> QED
      BY <3>2 DEF Misnamed
  <2> QED
    BY <1>2, <2>1, <2>2 DEF OpOperation, Executes
<1> QED
  BY <1>6, <1>7, <1>8, <1>9, SameReading

(* Bit 10 of the immediate, which the disassembler looks at, tells the two  *)
(* right shifts apart whose bits 5 to 11 the handler accepts.               *)
LEMMA AltBitOfShift ==
    ASSUME NEW w \in Word
    PROVE  /\ Immd115(w) = 0 => ~AltBit(w)
           /\ Immd115(w) = 32 => AltBit(w)
<1>1. AltBit(w) <=> 30 \in w
  BY DEF AltBit, ParseI, Params, SignedFrom, Bits
<1>2. 5 \in Bits(w, 25, 7) <=> 30 \in w
  BY DEF Bits
<1> DEFINE bits == Bits(w, 25, 7)
<1>3. \A b \in 7 .. 11 : b \notin bits
  BY DEF Bits
<1> HIDE DEF bits
<1>4. /\ Num(bits) = 0 => 5 \notin bits
      /\ Num(bits) = 32 => 5 \in bits
  BY <1>3 DEF Num
<1> QED
  BY <1>1, <1>2, <1>4 DEF Immd115, bits

(* ... OP-IMM, with its shifts.                                             *)
LEMMA OpImmAgrees ==
    ASSUME NEW w, NEW g, Executes(w, "OPIMM")
    PROVE  Agree(w, Line(w, g))
<1> DEFINE f3 == Num(Funct3(w)) + 1
           args == << Rd(w), Rs1(w) >>
           immd == {IF Operation(w) = "srai" THEN ParseI(w).immd \cap 0 .. 4 ELSE ParseI(w).immd}
<1>1. f3 \in 1 .. 8 /\ Num(Funct3(w)) = f3 - 1
  BY Funct3Index DEF Executes
<1> HIDE DEF f3
<1>2. Operation(w) = OpImmOperation(w)
  BY DEF Operation, Executes
<1>3. Names3("OPIMM") = OpImmOps /\ Names7("OPIMM")[6] = "srai"
  BY DEF Names3, Names7, OpImmOps, Blank
<1>4. Name(w) = IF f3 = 6 /\ AltBit(w) THEN "srai" ELSE OpImmOps[f3]
  BY <1>3 DEF Name, TypeOf, Executes, f3
<1>5. Name(w) = Operation(w)
  <2>1. CASE f3 = 2
    <3>1. Operation(w) = "slli"
      <4>1. Num(Funct3(w)) = 1
        BY <1>1, <2>1
      <4> QED
        BY <1>2, <4>1 DEF OpImmOperation, Executes
    <3>2. OpImmOps[2] = "slli"
      BY DEF OpImmOps
    <3> QED
      BY <1>4, <2>1, <3>1, <3>2
  <2>2. CASE f3 = 6
    <3>1. \/ Immd115(w) = 32 /\ Operation(w) = "srai"
          \/ Immd115(w) = 0 /\ Operation(w) = "srli"
      <4>1. Num(Funct3(w)) = 5
        BY <1>1, <2>2
      <4> QED
        BY <1>2, <4>1 DEF OpImmOperation, Executes
    <3>2. OpImmOps[6] = "srli" /\ w \in Word
      BY DEF OpImmOps, Executes
    <3> QED
      BY <1>4, <2>2, <3>1, <3>2, AltBitOfShift
  <2>3. CASE f3 # 2 /\ f3 # 6
    <3>1. Operation(w) = OpImmOps[f3]
      <4>1. Num(Funct3(w)) # 1 /\ Num(Funct3(w)) # 5
        BY <1>1, <2>3
      <4> QED
        BY <1>2, <4>1 DEF OpImmOperation, f3
    <3> QED
      BY <1>4, <2>3, <3>1
  <2> QED
    BY <2>1, <2>2, <2>3
<1>6. Operation(w) \in {"addi", "slli", "slti", "sltiu", "xori", "srli", "ori", "andi", "srai"}
  BY <1>1, <1>4, <1>5, Tables
<1>7. ParseI(w).rd = Rd(w) /\ ParseI(w).rs1 = Rs1(w)
  BY DEF ParseI, Params
<1>8. Srai(w, g) <=> Operation(w) = "srai"
  <2>1. Srai(w, g) <=> f3 = 6 /\ AltBit(w)
    <3>1. Srai(w, g) <=> Num(Funct3(w)) = 5 /\ AltBit(w)
      BY DEF Srai, Executes
    <3> QED
      BY <1>1, <3>1
  <2>2. OpImmOps[f3] # "srai"
    BY <1>1, Tables
  <2> QED
    BY <1>4, <1>5, <2>1, <2>2
<1>9. GetMnemonic(w, g) = Shown(Operation(w), args, immd)
  BY <1>5, <1>6, <1>7, <1>8 DEF GetMnemonic, TypeOf, Parsed, Executes
<1>10. Executed(w) = Shown(Operation(w), args, immd)
  BY DEF Executed, Executes
<1> QED
  BY <1>6, <1>9, <1>10, SameReading

(* The two readings of a word agree, whatever handler executes it.          *)
LEMMA ReadingsAgree ==
    ASSUME NEW w \in Word, NEW g, Verdict(w) # "MALFORMED",
           Verdict(w) \notin {"INVALID", "UNSUPPORTED"}, ~Reported(w), ~Ignored(w), ~Misnamed(w)
    PROVE  Agree(w, Line(w, g))
<1>1. /\ Verdict(w) = Entry(w) /\ Entry(w) \in Entries
      /\ {0, 1} \subseteq w
  BY VerdictOfWord
<1>2. Operation(w) # "none"
  BY DEF Reported
<1>3. Executes(w, Entry(w))
  BY <1>1, <1>2 DEF Executes
<1>4. CASE Entry(w) \in NoImpl \cup {"UNASSIGNED"}
  <2>1. Operation(w) = "none"
    BY <1>1, <1>4 DEF Operation, NoImpl
  <2> QED
    BY <1>2, <2>1
<1>5. CASE Entry(w) \in {"LOAD", "MISCMEM", "OPIMM", "AUIPC", "STORE", "OP", "LUI", "BRANCH",
                         "JALR", "JAL", "SYSTEM"}
  BY <1>3, <1>5, LoadAgrees, MiscmemAgrees, OpImmAgrees, UpperAgrees, StoreAgrees, OpAgrees,
     BranchAgrees, JalrAgrees, JalAgrees, SystemAgrees
<1> QED
  BY <1>1, <1>4, <1>5 DEF Entries

(* For all 2^32 words: the row of an instruction that will be executed says *)
(* what its handler does - its registers, its immediate unless it is a load *)
(* for which srai happens to be set, and its name unless it is a SUB, an    *)
(* SRA or a FENCE with a funct3.                                           *)
THEOREM ShownAsExecutedAlways == Spec => []ShownAsExecuted
<1>1. Loop /\ Framed => ShownAsExecuted
  <2> SUFFICES ASSUME Loop, Framed, Drawn, ~refused, ~Reported(word), ~Ignored(word),
                      ~Misnamed(word), NEW k \in Current
               PROVE  Agree(word, lines[k].shown)
    BY DEF ShownAsExecuted, Agree
  <2>1. PICK j \in 1 .. Len(lines) : Marked(lines, j, word)
    BY DEF Framed, Drawn
  <2>2. k = j
    BY <2>1 DEF Framed, Drawn, Marked, Current
  <2>3. PICK g \in BOOLEAN : lines[k].shown = Line(word, g)
    BY <2>1, <2>2 DEF Marked
  <2>4. /\ word \in Word /\ Verdict(word) # "MALFORMED"
        /\ Verdict(word) \notin {"INVALID", "UNSUPPORTED"}
    BY DEF Loop, Judged, Drawn
  <2>5. Agree(word, Line(word, g))
    BY <2>4, ReadingsAgree
  <2> QED
    BY <2>3, <2>5
<1> QED
  BY <1>1, LoopAlways, FramedAlways, PTL

=============================================================================
