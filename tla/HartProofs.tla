----------------------------- MODULE HartProofs -----------------------------
(***************************************************************************)
(* For every program, every table of maps, every input and every use of    *)
(* the debugger: what the executor keeps true, what its errors leave       *)
(* behind, and that it implements GuestMachine.                            *)
(***************************************************************************)
EXTENDS Hart, MapLemmas, TLAPS

(***************************************************************************)
(* Arithmetic of registers.                                                *)
(***************************************************************************)
LEMMA HalfType == HALF \in Nat /\ 1 =< HALF /\ WORD >= 2 /\ 0 \in Addr /\ 1 \in Addr
<1>1. HALF \in Nat /\ PAGE \in Nat /\ BLOCK \in Nat /\ 0 < BLOCK /\ BLOCK =< PAGE /\ PAGE =< HALF
  BY WidthAssumption
<1>2. HALF \in Nat /\ 1 =< HALF
  BY <1>1
<1> QED BY <1>2, WordType DEF Addr

(* A register, read as signed.                                              *)
LEMMA SignedType == \A a \in Addr : Signed(a) \in -HALF .. HALF - 1
BY WordType, HalfType, WidthAssumption DEF Signed, Addr

(* A byte squared fits in a register, and a word has four.                 *)
LEMMA ByteType ==
    /\ BYTE \in Nat /\ 1 =< BYTE
    /\ BYTE * BYTE \in Nat /\ BYTE =< BYTE * BYTE
    /\ BYTE * BYTE * BYTE \in Nat /\ 1 =< BYTE * BYTE * BYTE
    /\ BYTE * BYTE =< WORD /\ WORD = (BYTE * BYTE) * (BYTE * BYTE)
<1>1. BYTE \in Nat /\ 1 =< BYTE /\ BYTE * BYTE * BYTE * BYTE = WORD
  BY ByteAssumption
<1> DEFINE sq == BYTE * BYTE
<1>2. sq \in Nat /\ 1 =< sq /\ BYTE =< sq
  BY <1>1
<1>3. WORD = sq * sq
  BY <1>1
<1>4. sq * BYTE \in Nat /\ 1 =< sq * BYTE
  <2> HIDE DEF sq
  <2> QED BY <1>1, <1>2
<1>5. sq =< sq * sq
  <2> HIDE DEF sq
  <2> QED BY <1>2
<1> QED BY <1>1, <1>2, <1>3, <1>4, <1>5

(* What wraps stays aligned: the addresses are a multiple of 4.            *)
LEMMA WordAligned == \E q \in Nat : WORD = 4 * q
<1>1. BYTE \in Nat /\ BYTE % 2 = 0 /\ BYTE * BYTE * BYTE * BYTE = WORD
  BY ByteAssumption
<1> DEFINE h == BYTE \div 2
<1>2. h \in Nat /\ BYTE = 2 * h
  BY <1>1
<1> HIDE DEF h
<1>3. WORD = (2 * h) * (2 * h) * (2 * h) * (2 * h)
  BY <1>1, <1>2
<1> DEFINE f == h * h * h * h
<1>4. f \in Nat
  BY <1>2
<1>5. WORD = 16 * f
  BY <1>2, <1>3
<1> HIDE DEF f
<1>6. WORD = 4 * (4 * f) /\ 4 * f \in Nat
  BY <1>4, <1>5
<1> QED BY <1>6

(* Multiples of 4 ...                                                       *)
LEMMA FourFold == \A n \in Int : n % 4 = 0 <=> n = 4 * (n \div 4)
OBVIOUS

(* ... are four times their quarter.                                        *)
LEMMA FourTimes == \A n \in Int : (4 * n) % 4 = 0
OBVIOUS

(* A multiple of 4 stays one when it wraps.                                 *)
LEMMA Low32Aligned ==
    ASSUME NEW n \in Int, n % 4 = 0
    PROVE  Low32(n) % 4 = 0
<1>1. PICK q \in Nat : WORD = 4 * q
  BY WordAligned
<1> DEFINE d == n \div WORD
           p == n \div 4
<1>2. d \in Int /\ n % WORD \in Int /\ n = WORD * d + (n % WORD)
  BY DivModInt, WordType
<1>3. p \in Int /\ n = 4 * p
  BY FourFold
<1> HIDE DEF d, p
<1>4. q * d \in Int /\ WORD * d = 4 * (q * d)
  BY <1>1, <1>2
<1>5. n % WORD = 4 * (p - q * d) /\ p - q * d \in Int
  <2> DEFINE e == q * d
             x == WORD * d
  <2>1. e \in Int /\ x = 4 * e /\ n = x + (n % WORD)
    BY <1>2, <1>4
  <2> HIDE DEF e, x
  <2>2. n % WORD = 4 * (p - e) /\ p - e \in Int
    BY <1>2, <1>3, <2>1
  <2> QED BY <2>2 DEF e
<1> QED BY <1>5, FourTimes DEF Low32

-----------------------------------------------------------------------------
Doubles(g, n) == g = [ k \in 0 .. n |-> IF k = 0 THEN 1 ELSE 2 * g[k - 1] ]

(* The powers of two up to the width of a register.                         *)
LEMMA DoublesExists == \E g : Doubles(g, XLEN)
<1> DEFINE S == { k \in Nat : \E g : Doubles(g, k) }
<1>1. 0 \in S
  <2> DEFINE g == [ k \in 0 .. 0 |-> 1 ]
  <2>1. g = [ k \in 0 .. 0 |-> IF k = 0 THEN 1 ELSE 2 * g[k - 1] ]
    OBVIOUS
  <2>2. Doubles(g, 0)
    BY <2>1 DEF Doubles
  <2> QED BY <2>2
<1>2. ASSUME NEW k \in 1 .. XLEN, k - 1 \in S PROVE k \in S
  <2>1. PICK h : Doubles(h, k - 1)
    BY <1>2
  <2> DEFINE g == [ i \in 0 .. k |-> IF i = 0 THEN 1 ELSE 2 * h[i - 1] ]
  <2>2. k \in Nat
    BY <1>2
  <2>3. ASSUME NEW i \in 0 .. k, i # 0 PROVE g[i - 1] = h[i - 1]
    <3>1. i - 1 \in 0 .. k - 1 /\ i - 1 \in 0 .. k
      BY <2>2, <2>3
    <3>2. h[i - 1] = IF i - 1 = 0 THEN 1 ELSE 2 * h[(i - 1) - 1]
      BY <2>1, <3>1 DEF Doubles
    <3> QED BY <3>1, <3>2
  <2>4. Doubles(g, k)
    BY <2>3 DEF Doubles
  <2> QED BY <2>2, <2>4
<1> HIDE DEF S
<1>3. \A k \in 0 .. XLEN : k \in S
  BY <1>1, <1>2, XlenAssumption, MemoFold!UpTo
<1>4. XLEN \in S
  BY <1>3, XlenAssumption
<1> QED BY <1>4 DEF S

(* The powers of two are positive and double, up to the first that does     *)
(* not fit in a register.                                                   *)
LEMMA Power2Type ==
    /\ \A n \in 0 .. XLEN : Power2[n] \in Nat \ {0}
    /\ Power2[0] = 1 /\ \A n \in 1 .. XLEN : Power2[n] = 2 * Power2[n - 1]
<1>1. Doubles(Power2, XLEN)
  <2>1. Power2 = CHOOSE g : Doubles(g, XLEN)
    BY DEF Power2, Doubles
  <2> QED BY <2>1, DoublesExists
<1> DEFINE P == Power2
<1>2. XLEN \in Nat /\ P = [ k \in 0 .. XLEN |-> IF k = 0 THEN 1 ELSE 2 * P[k - 1] ]
  BY <1>1, XlenAssumption DEF Doubles
<1> HIDE DEF P
<1>3. P[0] = 1 /\ \A n \in 1 .. XLEN : P[n] = 2 * P[n - 1]
  BY <1>2
<1> DEFINE S == { k \in 0 .. XLEN : P[k] \in Nat \ {0} }
<1>4. 0 \in S
  BY <1>2, <1>3
<1>5. ASSUME NEW k \in 1 .. XLEN, k - 1 \in S PROVE k \in S
  BY <1>2, <1>3, <1>5
<1> HIDE DEF S
<1>6. \A k \in 0 .. XLEN : k \in S
  BY <1>2, <1>4, <1>5, MemoFold!UpTo
<1>7. \A n \in 0 .. XLEN : P[n] \in Nat \ {0}
  BY <1>6 DEF S
<1> QED BY <1>3, <1>7 DEF P

PutBit(bits, x, i) == 2 * x + Bool(i \in bits)

BitFold == INSTANCE FoldInduction WITH Op <- PutBit

(* A word put together from bits fits in a register.                       *)
LEMMA FromBitsType == \A bits : FromBits(bits) \in Addr
<1> SUFFICES ASSUME NEW bits PROVE FromBits(bits) \in Addr
  OBVIOUS
<1> DEFINE seq == [ k \in 1 .. XLEN |-> XLEN - k ]
<1>1. XLEN \in Nat /\ XLEN # 0
  BY XlenAssumption
<1>2. FromBits(bits) = BitFold!Fold(bits, 0, seq)
  BY DEF FromBits, PutBit, FoldLeft, MapThenFoldSet, Max, BitFold!Fold,
         BitFold!FoldLeft, BitFold!MapThenFoldSet, BitFold!Max
<1>3. DOMAIN seq = 1 .. XLEN
  OBVIOUS
<1> HIDE DEF seq
<1>4. PICK f : BitFold!Traces(f, bits, 0, seq, XLEN)
  BY <1>1, <1>3, BitFold!FoldTrace
<1>5. /\ f[0] = 0 /\ FromBits(bits) = f[XLEN]
      /\ \A k \in 1 .. XLEN : f[k] = PutBit(bits, f[k - 1], seq[k])
  BY <1>2, <1>4 DEF BitFold!Traces
<1> DEFINE S == { k \in 0 .. XLEN : f[k] \in 0 .. Power2[k] - 1 }
<1>6. 0 \in S
  BY <1>1, <1>5, Power2Type
<1>7. ASSUME NEW k \in 1 .. XLEN, k - 1 \in S PROVE k \in S
  <2>1. k \in 0 .. XLEN /\ k - 1 \in 0 .. XLEN /\ f[k - 1] \in 0 .. Power2[k - 1] - 1
    BY <1>1, <1>7
  <2>2. Power2[k] = 2 * Power2[k - 1] /\ Power2[k - 1] \in Nat
    BY <2>1, Power2Type
  <2>3. f[k] = 2 * f[k - 1] + Bool(seq[k] \in bits)
    BY <1>5 DEF PutBit
  <2>4. Bool(seq[k] \in bits) \in 0 .. 1
    BY DEF Bool
  <2> DEFINE b == Bool(seq[k] \in bits)
             x == f[k - 1]
             p == Power2[k - 1]
  <2>5. f[k] = 2 * x + b /\ b \in 0 .. 1 /\ x \in 0 .. p - 1 /\ p \in Nat /\ Power2[k] = 2 * p
    BY <2>1, <2>2, <2>3, <2>4
  <2> HIDE DEF b, x, p
  <2>6. 2 * x + b \in 0 .. 2 * p - 1
    BY <2>5
  <2> QED BY <2>1, <2>5, <2>6
<1> HIDE DEF S
<1>8. \A k \in 0 .. XLEN : k \in S
  BY <1>1, <1>6, <1>7, BitFold!UpTo
<1>9. f[XLEN] \in 0 .. Power2[XLEN] - 1
  BY <1>1, <1>8 DEF S
<1> QED BY <1>5, <1>9, XlenAssumption DEF Addr

(* A shift is by a power of two.                                            *)
LEMMA ShamtType == \A b \in Addr : Power2[Shamt(b)] \in Nat /\ 1 =< Power2[Shamt(b)]
<1> SUFFICES ASSUME NEW b \in Addr PROVE Power2[Shamt(b)] \in Nat /\ 1 =< Power2[Shamt(b)]
  OBVIOUS
<1>1. XLEN \in Nat /\ 0 < XLEN /\ b \in Nat
  BY XlenAssumption, AddrType
<1>2. Shamt(b) \in 0 .. XLEN - 1
  BY <1>1, DivMod DEF Shamt
<1>3. Shamt(b) \in 0 .. XLEN
  BY <1>1, <1>2
<1> QED BY <1>3, Power2Type

(* A quotient is no larger than the number.                                *)
LEMMA Quotient ==
    ASSUME NEW a \in Nat, NEW p \in Nat, 1 =< p
    PROVE  a \div p \in 0 .. a
<1> DEFINE q == a \div p
           r == a % p
<1>1. q \in Nat /\ r \in 0 .. p - 1 /\ a = p * q + r
  BY DivMod
<1> HIDE DEF q, r
<1>2. q =< p * q
  BY <1>1
<1> DEFINE m == p * q
<1>3. m \in Int /\ q =< m /\ a = m + r
  BY <1>1, <1>2
<1> HIDE DEF m
<1>4. q \in 0 .. a
  BY <1>1, <1>3
<1> QED BY <1>4 DEF q

(* Shifts to the right yield registers, logical ...                         *)
LEMMA SrlType ==
    ASSUME NEW a \in Addr, NEW b \in Addr
    PROVE  Srl(a, b) \in Addr
<1>1. Srl(a, b) \in 0 .. a
  BY AddrType, ShamtType, Quotient DEF Srl
<1> QED BY <1>1, WordType DEF Addr

(* ... and arithmetic ones.                                                 *)
LEMMA SraType ==
    ASSUME NEW a \in Addr, NEW b \in Addr
    PROVE  Sra(a, b) \in Addr
<1>1. Signed(a) \in Int
  BY SignedType, HalfType
<1>2. Signed(a) \div Power2[Shamt(b)] \in Int
  BY <1>1, ShamtType, DivModInt
<1> QED BY <1>2, LowAddr DEF Sra

(* What OP and OP-IMM compute is a register's value.                       *)
LEMMA BaseType ==
    ASSUME NEW f \in 0 .. 7, NEW a \in Addr, NEW b \in Addr
    PROVE  Base(f, a, b) \in Addr
<1>1. Low32(a + b) \in Addr
  BY AddrType, LowAddr
<1>2. Low32(a * Power2[Shamt(b)]) \in Addr
  <2>1. a * Power2[Shamt(b)] \in Int
    BY AddrType, ShamtType
  <2> QED BY <2>1, LowAddr
<1>3. \A c : Bool(c) \in Addr
  BY HalfType DEF Bool
<1>4. /\ Bool(Signed(a) < Signed(b)) \in Addr /\ Bool(a < b) \in Addr
      /\ FromBits((Bits(a) \cup Bits(b)) \ (Bits(a) \cap Bits(b))) \in Addr
      /\ Srl(a, b) \in Addr
      /\ FromBits(Bits(a) \cup Bits(b)) \in Addr
      /\ FromBits(Bits(a) \cap Bits(b)) \in Addr
  BY <1>3, FromBitsType, SrlType
<1>5. f \in {ADDSUB, SLL, SLT, SLTU, XOR, SRLSRA, OR, AND}
  BY DEF ADDSUB, SLL, SLT, SLTU, XOR, SRLSRA, OR, AND
<1> QED BY <1>1, <1>2, <1>4, <1>5 DEF Base, ADDSUB, SLL, SLT, SLTU, XOR, SRLSRA, OR, AND

(* OP and OP-IMM compute registers, whatever funct3 and funct7.             *)
LEMMA OpType ==
    ASSUME NEW f7, NEW f \in 0 .. 7, NEW a \in Addr, NEW b \in Addr
    PROVE  Op(f7, f, a, b) \in Addr /\ OpImm(f, b, a) \in Addr
<1>1. Low32(a - b) \in Addr
  BY AddrType, LowAddr
<1> QED BY <1>1, BaseType, SraType DEF Op, OpImm

(* The bytes of a register are bytes.                                       *)
LEMMA ByteOfType ==
    ASSUME NEW v \in Addr, NEW k \in 0 .. 3
    PROVE  ByteOf(v, k) \in Byte
<1> DEFINE d == << 1, BYTE, BYTE * BYTE, BYTE * BYTE * BYTE >>[k + 1]
<1>1. d \in Nat /\ 1 =< d
  BY ByteType
<1> HIDE DEF d
<1>2. v \div d \in Nat
  BY <1>1, AddrType, Quotient
<1>3. (v \div d) % BYTE \in 0 .. BYTE - 1
  BY <1>2, ByteType, DivMod
<1> QED BY <1>3 DEF ByteOf, Byte, d

(* A byte or a half that is sign-extended is a register.                    *)
LEMMA SignExtendType ==
    ASSUME NEW n \in Nat, 1 =< n, n =< WORD, NEW v \in 0 .. n - 1
    PROVE  SignExtend(v, n) \in Addr
<1>1. n \div 2 \in Nat /\ v \in Int /\ WORD \in Nat
  BY WordType
<1> QED BY <1>1 DEF SignExtend, Addr

(***************************************************************************)
(* The inductive invariant.  The table and the memo are what the lookups   *)
(* need to answer right; the types of registers and memory need the        *)
(* arithmetic above and the transfers of MapLemmas.                        *)
(***************************************************************************)
HInv ==
    /\ TypeOK
    /\ Table(iomaps)
    /\ MemoOk(iomaps, memo)
    /\ ZeroRegister
    /\ PcAligned

(* Multiples of PAGE and of BLOCK are multiples of 4, cut to 32 bits, too.  *)
LEMMA PageAligned ==
    ASSUME NEW n \in Nat, Multiple(n, PAGE)
    PROVE  Low32(n) % 4 = 0
<1>1. PICK k \in 0 .. n : n = k * PAGE
  BY DEF Multiple
<1>2. /\ PAGE \in Nat /\ BLOCK \in Nat /\ 0 < BLOCK /\ PAGE % BLOCK = 0 /\ BLOCK % 4 = 0
  BY WidthAssumption, WindowsAssumption
<1> DEFINE p == PAGE \div BLOCK
           b == BLOCK \div 4
<1>3. p \in Int /\ PAGE = BLOCK * p /\ b \in Int /\ BLOCK = 4 * b
  BY <1>2, DivMod
<1> HIDE DEF p, b
<1>4. n = 4 * (k * (b * p))
  <2>1. n = k * ((4 * b) * p)
    BY <1>1, <1>3
  <2> QED BY <1>1, <1>3, <2>1
<1>5. k * (b * p) \in Int
  BY <1>1, <1>3
<1>6. n % 4 = 0
  BY <1>4, <1>5, FourTimes
<1> QED BY <1>6, Low32Aligned

(* Accepted maps start at multiples of 4 and have sizes that are.           *)
LEMMA MapsAligned ==
    ASSUME NEW c, Accepted(c), NEW T, T = TableOf(c), Table(T), NEW i \in DOMAIN T
    PROVE  T[i].start_addr % 4 = 0 /\ T[i].size % 4 = 0
<1>1. T[i].start_addr % 4 = 0
  <2>1. T[i].start_addr \in Nat /\ T[i].start_addr % BLOCK = 0
    BY RowType, WidthAssumption
  <2>2. BLOCK \in Nat /\ 0 < BLOCK /\ BLOCK % 4 = 0
    BY WidthAssumption, WindowsAssumption
  <2> DEFINE a == T[i].start_addr
             q == a \div BLOCK
             b == BLOCK \div 4
  <2>3. q \in Int /\ a = BLOCK * q /\ b \in Int /\ BLOCK = 4 * b
    BY <2>1, <2>2, DivMod
  <2> HIDE DEF a, q, b
  <2>4. a = 4 * (b * q) /\ b * q \in Int
    <3>1. a = (4 * b) * q
      BY <2>3
    <3> QED BY <2>3, <3>1
  <2>5. a % 4 = 0
    BY <2>4, FourTimes
  <2> QED BY <2>5 DEF a
<1>2. CASE c.is_using_mmap
  <2>1. T = [ j \in DOMAIN c.choosen_iomaps |->
                IomapAdd(c.choosen_iomaps[j].addr, c.choosen_iomaps[j].size) ]
    BY <1>2 DEF TableOf
  <2>2. i \in DOMAIN c.choosen_iomaps /\ T[i].size = Low32(c.choosen_iomaps[i].size)
    BY <2>1 DEF IomapAdd
  <2>3. c.choosen_iomaps[i] \in ChosenIoMap /\ AcceptedIoMap(c.choosen_iomaps[i])
    BY <2>2 DEF Accepted, Cmdline
  <2>4. c.choosen_iomaps[i].size \in Nat /\ Multiple(c.choosen_iomaps[i].size, PAGE)
    BY <2>3, WidthAssumption DEF ChosenIoMap, AcceptedIoMap
  <2> QED BY <1>1, <2>2, <2>4, PageAligned
<1>3. CASE ~c.is_using_mmap
  <2>1. T = << IomapAdd(0, c.ramamnt) >>
    BY <1>3 DEF TableOf
  <2>2. T[i].size = Low32(c.ramamnt)
    BY <2>1 DEF IomapAdd
  <2>3. c.ramamnt \in Nat /\ Multiple(c.ramamnt, PAGE)
    BY AddrType DEF Accepted, Cmdline
  <2> QED BY <1>1, <2>2, <2>3, PageAligned
<1> QED BY <1>2, <1>3

(* An access inside the buffer of the map that answers touches mapped bytes *)
(* only; the map that answers for its first byte is the one that holds it.  *)
LEMMA BufferMapped ==
    ASSUME HInv, NEW m, MemoOk(iomaps, m), NEW a \in Addr, ~OobAddr(iomaps, m, a),
           NEW n \in Nat
    PROVE  /\ a \in Mapped(iomaps)
           /\ InBuffer(m, a, n) => \A x \in a .. a + n - 1 : x \in Mapped(iomaps)
           /\ n # 0 => (InBuffer(m, a, n) <=> InOneMap(iomaps, a, n))
<1> DEFINE k == GetIomapByAddr(iomaps, m, a)
<1>1. Table(iomaps)
  BY DEF HInv
<1>2. /\ k \in DOMAIN iomaps /\ Holds(iomaps[k], a) /\ a \in Mapped(iomaps)
      /\ \A i \in DOMAIN iomaps : Holds(iomaps[i], a) => i = k
  BY <1>1, LookupIn DEF OobAddr
<1>3. InBuffer(m, a, n) <=> (a - iomaps[k].start_addr) + n =< iomaps[k].size
  BY DEF InBuffer, TrueAddr
<1>4. iomaps[k].start_addr \in 0 .. HALF - 1 /\ iomaps[k].size \in 0 .. HALF - 1
  BY <1>1, <1>2, RowType
<1> DEFINE s == iomaps[k].start_addr
           z == iomaps[k].size
<1>5. /\ a \in Nat /\ a < WORD /\ HALF \in Nat /\ WORD = 2 * HALF /\ s =< a /\ a < s + z
      /\ s \in 0 .. HALF - 1 /\ z \in 0 .. HALF - 1
  BY <1>2, <1>4, AddrType, WordType, HalfType DEF Holds
<1>6. ASSUME InBuffer(m, a, n), NEW x \in a .. a + n - 1
      PROVE  x \in Mapped(iomaps)
  <2>1. (a - s) + n =< z
    BY <1>3, <1>6
  <2> HIDE DEF k, s, z
  <2>2. x \in Int /\ s =< x /\ x < s + z /\ x \in 0 .. WORD - 1
    BY <1>5, <1>6, <2>1
  <2>3. Holds(iomaps[k], x) /\ x \in Addr
    BY <2>2 DEF Holds, s, z, Addr
  <2> QED BY <1>2, <2>3, MappedIn DEF k
<1>7. ASSUME n # 0, InBuffer(m, a, n) PROVE InOneMap(iomaps, a, n)
  <2>1. (a - s) + n =< z
    BY <1>3, <1>7
  <2>2. a \in Region(iomaps[k])
    BY <1>5 DEF Region
  <2>3. a + n - 1 \in Addr /\ s =< a + n - 1 /\ a + n - 1 < s + z
    <3> HIDE DEF s, z
    <3> QED BY <1>5, <1>7, <2>1 DEF Addr
  <2>4. a + n - 1 \in Region(iomaps[k])
    BY <2>3 DEF Region
  <2> HIDE DEF k, s, z
  <2> QED BY <1>2, <2>2, <2>4 DEF InOneMap, k
<1>8. ASSUME n # 0, InOneMap(iomaps, a, n) PROVE InBuffer(m, a, n)
  <2>1. PICK i \in DOMAIN iomaps : a \in Region(iomaps[i]) /\ a + n - 1 \in Region(iomaps[i])
    BY <1>8 DEF InOneMap
  <2>2. i = k
    BY <1>2, <2>1 DEF Region, Holds
  <2>3. a + n - 1 < s + z
    BY <2>1, <2>2 DEF Region
  <2> HIDE DEF k, s, z
  <2>4. (a - s) + n =< z
    BY <1>5, <2>3
  <2> QED BY <1>3, <2>4 DEF s, z, k
<1> QED BY <1>2, <1>6, <1>7, <1>8

(* A word at a multiple of 4 never straddles the end of a map.             *)
LEMMA AlignedInside ==
    ASSUME HInv, NEW m, MemoOk(iomaps, m), NEW a \in Addr, ~OobAddr(iomaps, m, a), a % 4 = 0
    PROVE  InBuffer(m, a, 4)
<1> DEFINE k == GetIomapByAddr(iomaps, m, a)
           s == iomaps[k].start_addr
           z == iomaps[k].size
<1>1. Table(iomaps) /\ iomaps = TableOf(cmd) /\ Accepted(cmd)
  BY CmdlinesAssumption DEF HInv, TypeOK
<1>2. k \in DOMAIN iomaps /\ Holds(iomaps[k], a)
  BY <1>1, LookupIn DEF OobAddr
<1>3. s \in Nat /\ z \in Nat
  BY <1>1, <1>2, RowType, HalfType
<1>4. s % 4 = 0 /\ z % 4 = 0
  BY <1>1, <1>2, MapsAligned
<1>5. s =< a /\ a < s + z /\ a \in Nat
  BY <1>2, AddrType DEF Holds
<1>6. InBuffer(m, a, 4) <=> (a - s) + 4 =< z
  BY DEF InBuffer, TrueAddr
<1> HIDE DEF k, s, z
<1>7. a = 4 * (a \div 4) /\ s = 4 * (s \div 4) /\ z = 4 * (z \div 4)
  BY <1>3, <1>4, <1>5, FourFold
<1> DEFINE qa == a \div 4
           qs == s \div 4
           qz == z \div 4
<1>8. qa \in Int /\ qs \in Int /\ qz \in Int /\ a = 4 * qa /\ s = 4 * qs /\ z = 4 * qz
  BY <1>3, <1>5, <1>7
<1> HIDE DEF qa, qs, qz
<1>9. (a - s) + 4 =< z
  BY <1>5, <1>8
<1> QED BY <1>6, <1>9

(***************************************************************************)
(* The panels: they move the memo, to a map with bytes, and when what they *)
(* show begins between two instructions they read nothing past a map.      *)
(***************************************************************************)
LEMMA CodeWindowType ==
    ASSUME NEW p \in Addr
    PROVE  /\ CodeWindow(p) \in Seq(Addr)
           /\ p % 4 = 0 => \A i \in DOMAIN CodeWindow(p) : CodeWindow(p)[i] % 4 = 0
<1> DEFINE n == (BEHIND + AHEAD) \div 4 + 1
<1>1. /\ BEHIND \in Nat /\ AHEAD \in Nat /\ BEHIND % 4 = 0 /\ p \in Int
  BY WindowsAssumption, AddrType
<1>2. n \in Nat
  BY <1>1
<1>3. CodeWindow(p) = [ i \in 1 .. n |-> Low32(p - BEHIND + 4 * (i - 1)) ]
  BY DEF CodeWindow
<1> HIDE DEF n
<1>4. \A i \in 1 .. n : p - BEHIND + 4 * (i - 1) \in Int
  BY <1>1, <1>2
<1>5. CodeWindow(p) \in Seq(Addr)
  BY <1>2, <1>3, <1>4, LowAddr
<1>6. ASSUME p % 4 = 0, NEW i \in 1 .. n PROVE Low32(p - BEHIND + 4 * (i - 1)) % 4 = 0
  <2> DEFINE q == p \div 4
             b == BEHIND \div 4
  <2>1. q \in Int /\ p = 4 * q /\ b \in Int /\ BEHIND = 4 * b
    BY <1>1, <1>6, FourFold
  <2> HIDE DEF q, b
  <2>2. p - BEHIND + 4 * (i - 1) = 4 * (q - b + i - 1) /\ q - b + i - 1 \in Int
    BY <1>2, <2>1
  <2>3. (p - BEHIND + 4 * (i - 1)) % 4 = 0
    BY <2>2, FourTimes
  <2> QED BY <1>4, <2>3, Low32Aligned
<1> QED BY <1>3, <1>5, <1>6

(* The bytes the dump looks at have addresses, whatever the frame pointer.  *)
LEMMA FrameWindowType ==
    ASSUME NEW f \in Addr
    PROVE  FrameWindow(f) \in Seq(Addr)
<1>1. FRAME \in Nat /\ f \in Int
  BY WindowsAssumption, AddrType
<1>2. \A i \in 1 .. 2 * FRAME : f - FRAME + i - 1 \in Int
  BY <1>1
<1> QED BY <1>1, <1>2, LowAddr DEF FrameWindow

(* A word at a multiple of 4 lies in one map if its first byte does, so the *)
(* panel of code reads no byte behind a map.                                *)
LEMMA NoOverread ==
    ASSUME HInv, NEW m, MemoOk(iomaps, m), NEW p \in Addr, p % 4 = 0
    PROVE  ~Overreads(m, p)
<1> SUFFICES ASSUME NEW i \in DOMAIN CodeWindow(p), ~OobAddr(iomaps, m, CodeWindow(p)[i])
             PROVE  InBuffer(m, CodeWindow(p)[i], 4)
  BY DEF Overreads
<1>1. CodeWindow(p)[i] \in Addr /\ CodeWindow(p)[i] % 4 = 0
  BY CodeWindowType
<1> QED BY <1>1, AlignedInside

(* What a step may leave in the memo and in state when the panels are      *)
(* drawn.                                                                  *)
Shown(m, p, next) ==
    /\ MemoOk(iomaps, memo')
    /\ state' \in {next, "undefined", "unlisted"}
    /\ state' = "undefined" /\ next # "undefined" => p % 4 # 0

(* Drawing the panels changes the memo at most, and never leaves a buffer.  *)
LEMMA BacktraceShows ==
    ASSUME HInv, NEW m, MemoOk(iomaps, m), NEW p \in Addr, NEW r \in [Reg -> Addr],
           NEW next, Backtrace(m, p, r, next)
    PROVE  Shown(m, p, next)
<1>1. r[s0] \in Addr
  BY DEF s0, Reg
<1> DEFINE addrs == CodeWindow(p) \o FrameWindow(r[s0])
<1>2. addrs \in Seq(Addr)
  BY <1>1, CodeWindowType, FrameWindowType
<1>3. DOMAIN addrs = 1 .. Len(addrs) /\ Len(addrs) \in Nat /\ \A i \in 1 .. Len(addrs) : addrs[i] \in Addr
  BY <1>2
<1> HIDE DEF addrs
<1>4. MemoOk(iomaps, MemoAfterAll(iomaps, m, addrs))
  BY <1>3, MemoAfterAllOk DEF HInv
<1>5. MemoOk(iomaps, memo')
  BY <1>4 DEF Backtrace, addrs
<1>6. state' = "undefined" /\ next # "undefined" => p % 4 # 0
  BY NoOverread DEF Backtrace
<1> QED BY <1>5, <1>6 DEF Shown, Backtrace

-----------------------------------------------------------------------------
(* What every step keeps: HInv, but for the variables that have changed.   *)
Keeps ==
    /\ state' \in {"fetch", "prompt", "execute"} \cup Stopped
    /\ MemoOk(iomaps, memo')
    /\ pc' \in Addr /\ (pc % 4 = 0 => pc' % 4 = 0)
    /\ regs' \in [Reg -> Addr] /\ regs'[0] = 0
    /\ mem' \in [Mapped(iomaps) -> Byte]
    /\ output' \in Seq(0 .. BYTE)
    /\ report' \in SUBSET Addr

(* A step that keeps what Keeps lists keeps the invariant.                  *)
LEMMA KeepsHInv ==
    ASSUME HInv, Keeps, inst' \in Inst, steps' \in 0 .. MaxSteps, UNCHANGED fixed
    PROVE  HInv'
<1>1. /\ UNCHANGED << cmd, debug, noopstub, iomaps >>
  BY DEF fixed
<1>2. MemoOk(iomaps, memo)' /\ memo' \in DOMAIN iomaps
  BY <1>1 DEF Keeps, MemoOk
<1>3. TypeOK'
  BY <1>1, <1>2 DEF HInv, TypeOK, Keeps
<1>4. Table(iomaps)'
  BY <1>1 DEF HInv
<1>5. ZeroRegister' /\ PcAligned'
  BY <1>1 DEF HInv, ZeroRegister, PcAligned, Keeps
<1> QED BY <1>2, <1>3, <1>4, <1>5 DEF HInv

(* Named facts of a state of the invariant.                                *)
LEMMA Facts ==
    ASSUME HInv
    PROVE  /\ Table(iomaps) /\ MemoOk(iomaps, memo) /\ Accepted(cmd)
           /\ inst \in Inst /\ pc \in Addr /\ regs \in [Reg -> Addr] /\ regs[0] = 0
           /\ mem \in [Mapped(iomaps) -> Byte] /\ output \in Seq(0 .. BYTE)
           /\ report \in SUBSET Addr
           /\ Next4 \in Addr /\ (pc % 4 = 0 => Next4 % 4 = 0)
           /\ Rs1 \in Addr /\ Rs2 \in Addr /\ Funct3 \in 0 .. 7 /\ inst.rd \in Reg
           /\ inst.immd \in Addr /\ AccessAddr \in Addr
<1>1. /\ Table(iomaps) /\ MemoOk(iomaps, memo) /\ Accepted(cmd)
      /\ inst \in Inst /\ pc \in Addr /\ regs \in [Reg -> Addr] /\ regs[0] = 0
      /\ mem \in [Mapped(iomaps) -> Byte] /\ output \in Seq(0 .. BYTE)
      /\ report \in SUBSET Addr
  BY CmdlinesAssumption DEF HInv, TypeOK, ZeroRegister
<1>2. /\ inst.rd \in Reg /\ inst.rs1 \in Reg /\ inst.rs2 \in Reg /\ inst.funct3 \in 0 .. 7
      /\ inst.immd \in Addr
  BY <1>1 DEF Inst
<1>3. Rs1 \in Addr /\ Rs2 \in Addr /\ Funct3 \in 0 .. 7
  BY <1>1, <1>2 DEF Rs1, Rs2, Funct3
<1>4. pc + 4 \in Int /\ Rs1 + inst.immd \in Int /\ (pc % 4 = 0 => (pc + 4) % 4 = 0)
  BY <1>1, <1>2, <1>3, AddrType
<1>5. Next4 \in Addr /\ (pc % 4 = 0 => Next4 % 4 = 0) /\ AccessAddr \in Addr
  BY <1>4, LowAddr, Low32Aligned DEF Next4, AccessAddr
<1> QED BY <1>1, <1>2, <1>3, <1>5

(* Writing a register other than x0.                                        *)
LEMMA SetRegister ==
    ASSUME HInv, NEW r \in Reg \ {0}, NEW v \in Addr
    PROVE  LET s == [regs EXCEPT ![r] = v] IN s \in [Reg -> Addr] /\ s[0] = 0
<1>1. regs \in [Reg -> Addr] /\ regs[0] = 0 /\ 0 \in Reg
  BY Facts DEF Reg
<1> QED BY <1>1

(* An error leaves a program counter, registers and a memo of the right     *)
(* kind, and the message names an address.                                  *)
LEMMA FailKeeps ==
    ASSUME HInv, NEW at \in Addr, NEW p \in {pc, Next4}, NEW r \in [Reg -> Addr], r[0] = 0,
           NEW m, MemoOk(iomaps, m), Fail(at, p, r, m), UNCHANGED << mem, output >>
    PROVE  Keeps
<1>1. p \in Addr /\ pc % 4 = 0 => p % 4 = 0
  BY Facts
<1>2. p \in Addr
  BY Facts
<1>3. Shown(m, p, "error")
  BY <1>2, BacktraceShows DEF Fail
<1>4. state' \in {"fetch", "prompt", "execute"} \cup Stopped /\ MemoOk(iomaps, memo')
  BY <1>3 DEF Shown, Stopped
<1>5. report' \in SUBSET Addr /\ pc' = p /\ regs' = r
  BY DEF Fail
<1>6. pc % 4 = 0 => p % 4 = 0
  BY Facts
<1> QED BY <1>2, <1>4, <1>5, <1>6, Facts DEF Keeps

(* A handler that ends without an error and has written only what it may.   *)
LEMMA ContinueKeeps ==
    ASSUME HInv, NEW p \in Addr, pc % 4 = 0 => p % 4 = 0, Continue(p), MemoOk(iomaps, memo'),
           regs' \in [Reg -> Addr], regs'[0] = 0, mem' \in [Mapped(iomaps) -> Byte],
           output' \in Seq(0 .. BYTE)
    PROVE  Keeps
<1>1. state' = "fetch" /\ pc' = p /\ report' = report
  BY DEF Continue
<1> QED BY <1>1, Facts DEF Keeps

(* A handler that only moves on.                                            *)
LEMMA IgnoreKeeps ==
    ASSUME HInv, Ignore, UNCHANGED << mem, output >>
    PROVE  Keeps
<1>1. Continue(Next4) /\ UNCHANGED << regs, memo >>
  BY DEF Ignore
<1> QED BY <1>1, Facts, ContinueKeeps

(* A handler that writes its result to rd and moves on.                     *)
LEMMA RetireKeeps ==
    ASSUME HInv, inst.rd # 0, NEW v \in Addr, RetireRd(v), UNCHANGED << mem, output >>
    PROVE  Keeps
<1>1. inst.rd \in Reg \ {0} /\ Next4 \in Addr /\ (pc % 4 = 0 => Next4 % 4 = 0)
      /\ MemoOk(iomaps, memo)
  BY Facts
<1>2. regs' = [regs EXCEPT ![inst.rd] = v] /\ Continue(Next4) /\ UNCHANGED memo
  BY DEF RetireRd
<1>3. regs' \in [Reg -> Addr] /\ regs'[0] = 0
  BY <1>1, <1>2, SetRegister
<1> QED BY <1>1, <1>2, <1>3, Facts, ContinueKeeps

(* Leaving defined behaviour.                                               *)
LEMMA UndefinedKeeps ==
    ASSUME HInv, Undefined
    PROVE  Keeps
BY Facts DEF Undefined, Keeps, Stopped

(* The handlers that touch neither memory nor the order of instructions.    *)
LEMMA ComputeKeeps ==
    ASSUME HInv, DoOpImm \/ DoOp \/ DoUpper \/ DoMiscMem \/ DoNoImpl \/ DoUnassigned
    PROVE  Keeps
<1>1. /\ MemoOk(iomaps, memo) /\ pc \in Addr /\ Next4 \in Addr /\ regs \in [Reg -> Addr]
      /\ regs[0] = 0 /\ Rs1 \in Addr /\ Rs2 \in Addr /\ Funct3 \in 0 .. 7
      /\ inst.immd \in Addr
  BY Facts
<1>2. ASSUME FailBehind, UNCHANGED << mem, output >> PROVE Keeps
  BY <1>1, <1>2, FailKeeps DEF FailBehind
<1>3. CASE DoOpImm
  <2>1. OpImm(Funct3, inst.immd, Rs1) \in Addr
    BY <1>1, OpType
  <2> QED BY <1>2, <1>3, <2>1, IgnoreKeeps, RetireKeeps DEF DoOpImm
<1>4. CASE DoOp
  <2>1. Op(inst.funct7, Funct3, Rs1, Rs2) \in Addr
    BY <1>1, OpType
  <2> QED BY <1>2, <1>4, <2>1, IgnoreKeeps, RetireKeeps DEF DoOp
<1>5. CASE DoUpper
  <2>1. pc + inst.immd \in Int
    BY <1>1, AddrType
  <2>2. (IF inst.op = "LUI" THEN inst.immd ELSE Low32(pc + inst.immd)) \in Addr
    BY <1>1, <2>1, LowAddr
  <2> QED BY <1>5, <2>2, IgnoreKeeps, RetireKeeps DEF DoUpper
<1>6. CASE DoMiscMem
  BY <1>6, IgnoreKeeps DEF DoMiscMem
<1>7. CASE DoNoImpl
  BY <1>1, <1>7, FailKeeps DEF DoNoImpl, FailHere
<1>8. CASE DoUnassigned
  BY <1>8, UndefinedKeeps DEF DoUnassigned
<1> QED BY <1>3, <1>4, <1>5, <1>6, <1>7, <1>8

(* The link of a jump, dropped for rd = 0.                                  *)
LEMMA LinkedType ==
    ASSUME HInv
    PROVE  Linked \in [Reg -> Addr] /\ Linked[0] = 0
<1>1. regs \in [Reg -> Addr] /\ regs[0] = 0 /\ Next4 \in Addr /\ inst.rd \in Reg
  BY Facts
<1> QED BY <1>1, SetRegister DEF Linked

(* A wrapping sum is an address, and a multiple of 4 if both parts are.     *)
LEMMA SumType ==
    ASSUME NEW a \in Addr, NEW b \in Addr
    PROVE  /\ Low32(a + b) \in Addr
           /\ a % 4 = 0 /\ b % 4 = 0 => Low32(a + b) % 4 = 0
<1>1. a \in Int /\ b \in Int
  BY AddrType
<1>2. a + b \in Int
  BY <1>1
<1>3. a % 4 = 0 /\ b % 4 = 0 => (a + b) % 4 = 0
  BY <1>1
<1> QED BY <1>2, <1>3, LowAddr, Low32Aligned

(* Branches and jumps: a target that is not a multiple of 4 is an error.    *)
LEMMA JumpKeeps ==
    ASSUME HInv, DoBranch \/ DoJalr \/ DoJal
    PROVE  Keeps
<1>1. /\ MemoOk(iomaps, memo) /\ pc \in Addr /\ Next4 \in Addr /\ regs \in [Reg -> Addr]
      /\ regs[0] = 0 /\ inst.immd \in Addr /\ (pc % 4 = 0 => Next4 % 4 = 0)
      /\ mem \in [Mapped(iomaps) -> Byte] /\ output \in Seq(0 .. BYTE)
      /\ inst \in Inst
  BY Facts
<1>2. Low32(pc - 4) \in Addr
  BY <1>1, AddrType, LowAddr
<1>3. /\ Low32(pc + inst.immd) \in Addr
      /\ pc % 4 = 0 /\ inst.immd % 4 = 0 => Low32(pc + inst.immd) % 4 = 0
  BY <1>1, SumType
<1>4. CASE DoBranch
  <2>1. CASE Fail(Low32(pc - 4), pc, regs, memo) /\ UNCHANGED << mem, output >>
    BY <1>1, <1>2, <2>1, FailKeeps
  <2>2. CASE /\ inst.immd % 4 = 0
             /\ Continue(IF Taken THEN Low32(pc + inst.immd) ELSE Next4)
             /\ UNCHANGED << regs, memo, mem, output >>
    <3> DEFINE p == IF Taken THEN Low32(pc + inst.immd) ELSE Next4
    <3>1. p \in Addr /\ (pc % 4 = 0 => p % 4 = 0)
      BY <1>1, <1>3, <2>2
    <3>2. Continue(p)
      BY <2>2
    <3> HIDE DEF p
    <3> QED BY <1>1, <2>2, <3>1, <3>2, ContinueKeeps
  <2> QED BY <1>4, <2>1, <2>2 DEF DoBranch
<1>5. CASE DoJalr
  <2>1. JalrTarget \in Addr
    <3> DEFINE sum == Low32(Linked[inst.rs1] + inst.immd)
    <3>1. Linked[inst.rs1] \in Addr
      BY <1>1, LinkedType DEF Inst
    <3>2. sum \in Addr
      BY <1>1, <3>1, SumType
    <3> HIDE DEF sum
    <3>3. sum - (sum % 2) \in 0 .. WORD - 1
      BY <3>2, AddrType, WordType DEF Addr
    <3> QED BY <3>3 DEF JalrTarget, sum, Addr
  <2>2. CASE FailHere /\ UNCHANGED << mem, output >>
    BY <1>1, <2>2, FailKeeps DEF FailHere
  <2>3. CASE Fail(pc, pc, Linked, memo) /\ UNCHANGED << mem, output >>
    BY <1>1, <2>3, LinkedType, FailKeeps
  <2>4. CASE /\ JalrTarget % 4 = 0 /\ regs' = Linked /\ Continue(JalrTarget)
             /\ UNCHANGED << memo, mem, output >>
    BY <1>1, <2>1, <2>4, LinkedType, ContinueKeeps
  <2> QED BY <1>5, <2>2, <2>3, <2>4 DEF DoJalr
<1>6. CASE DoJal
  <2>1. CASE FailHere /\ UNCHANGED << mem, output >>
    BY <1>1, <2>1, FailKeeps DEF FailHere
  <2>2. CASE /\ inst.immd % 4 = 0 /\ regs' = Linked /\ Continue(Low32(pc + inst.immd))
             /\ UNCHANGED << memo, mem, output >>
    BY <1>1, <1>3, <2>2, LinkedType, ContinueKeeps
  <2> QED BY <1>6, <2>1, <2>2 DEF DoJal
<1> QED BY <1>4, <1>5, <1>6

(***************************************************************************)
(* Loads and stores.                                                       *)
(***************************************************************************)
LEMMA Digits ==
    ASSUME NEW m \in Nat, NEW n \in Nat, NEW x \in 0 .. m - 1, NEW y \in 0 .. n - 1
    PROVE  x * n + y \in 0 .. m * n - 1
<1>1. x + 1 =< m /\ n >= 1 /\ x \in Nat
  OBVIOUS
<1>2. (x + 1) * n =< m * n
  <2> DEFINE d == m - (x + 1)
  <2>1. d \in Nat /\ m = (x + 1) + d
    BY <1>1
  <2> HIDE DEF d
  <2>2. m * n = (x + 1) * n + d * n /\ d * n \in Nat /\ (x + 1) * n \in Int
    BY <1>1, <2>1
  <2> QED BY <2>2
<1>3. (x + 1) * n = x * n + n /\ x * n \in Nat /\ m * n \in Int
  BY <1>1
<1> DEFINE xn == x * n
           mn == m * n
<1>4. xn \in Nat /\ mn \in Int /\ xn + n =< mn
  BY <1>2, <1>3
<1> HIDE DEF xn, mn
<1>5. xn + y \in 0 .. mn - 1
  BY <1>1, <1>4
<1> QED BY <1>5 DEF xn, mn

(* Two bytes of guest memory make a half.                                   *)
LEMMA HalfOfType ==
    ASSUME HInv, NEW a, a \in Mapped(iomaps), a + 1 \in Mapped(iomaps)
    PROVE  GetHalf(a) \in 0 .. BYTE * BYTE - 1
<1>1. mem[a] \in 0 .. BYTE - 1 /\ mem[a + 1] \in 0 .. BYTE - 1 /\ BYTE \in Nat
  BY Facts, ByteType DEF Byte
<1> QED BY <1>1, Digits DEF GetHalf

(* What a load of mapped bytes yields is a register.                        *)
LEMMA LoadedType ==
    ASSUME HInv, NEW a \in Addr, Funct3 \in Loads,
           \A x \in a .. a + BytesOf(Funct3) - 1 : x \in Mapped(iomaps)
    PROVE  Loaded(a) \in Addr
<1>1. a \in Int /\ BYTE \in Nat /\ 1 =< BYTE /\ BYTE * BYTE \in Nat /\ BYTE =< BYTE * BYTE
      /\ BYTE * BYTE =< WORD /\ WORD \in Nat /\ WORD = (BYTE * BYTE) * (BYTE * BYTE)
  BY AddrType, ByteType, WordType
<1> DEFINE sq == BYTE * BYTE
<1>2. CASE Funct3 \in {0, 4}
  <2>1. a \in Mapped(iomaps)
    BY <1>1, <1>2 DEF BytesOf
  <2>2. mem[a] \in 0 .. BYTE - 1
    BY <2>1, Facts DEF Byte
  <2>3. BYTE =< WORD
    <3> HIDE DEF sq
    <3>1. sq \in Int /\ BYTE =< sq /\ sq =< WORD
      BY <1>1 DEF sq
    <3> QED BY <1>1, <3>1
  <2>4. mem[a] \in Addr
    BY <1>1, <2>2, <2>3 DEF Addr
  <2>5. SignExtend(mem[a], BYTE) \in Addr
    BY <1>1, <2>2, <2>3, SignExtendType
  <2> QED BY <1>2, <2>4, <2>5 DEF Loaded, GetByte
<1>3. CASE Funct3 \in {1, 5}
  <2>1. a \in Mapped(iomaps) /\ a + 1 \in Mapped(iomaps)
    BY <1>1, <1>3 DEF BytesOf
  <2>2. GetHalf(a) \in 0 .. sq - 1
    BY <2>1, HalfOfType
  <2>3. sq \in Nat /\ 1 =< sq /\ sq =< WORD
    <3>1. 1 =< BYTE /\ BYTE =< sq /\ sq \in Int /\ sq =< WORD
      BY <1>1
    <3> HIDE DEF sq
    <3> QED BY <1>1, <3>1
  <2> HIDE DEF sq
  <2>4. GetHalf(a) \in Addr
    BY <1>1, <2>2, <2>3 DEF Addr
  <2>5. SignExtend(GetHalf(a), sq) \in Addr
    BY <2>2, <2>3, SignExtendType
  <2> QED BY <1>3, <2>4, <2>5 DEF Loaded, sq
<1>4. CASE Funct3 = 2
  <2>1. /\ a \in Mapped(iomaps) /\ a + 1 \in Mapped(iomaps)
        /\ a + 2 \in Mapped(iomaps) /\ a + 3 \in Mapped(iomaps)
    BY <1>1, <1>4 DEF BytesOf
  <2>2. (a + 2) + 1 = a + 3
    BY <1>1
  <2>3. GetHalf(a) \in 0 .. sq - 1 /\ GetHalf(a + 2) \in 0 .. sq - 1 /\ sq \in Nat
    BY <1>1, <2>1, <2>2, HalfOfType
  <2>4. GetWord(a) = GetHalf(a) * sq + GetHalf(a + 2)
    <3>1. GetHalf(a) \in Int
      BY <1>1, <2>3
    <3> DEFINE h == GetHalf(a)
               l == GetHalf(a + 2)
    <3>2. GetWord(a) = h * BYTE * BYTE + l /\ h \in Int
      BY <3>1 DEF GetWord
    <3> HIDE DEF h, l
    <3>3. h * BYTE * BYTE = h * sq
      BY <1>1, <3>2
    <3> QED BY <3>2, <3>3 DEF h, l
  <2> HIDE DEF sq
  <2>5. GetWord(a) \in 0 .. sq * sq - 1
    BY <2>3, <2>4, Digits
  <2> QED BY <1>1, <1>4, <2>5 DEF Loaded, Addr, sq
<1> QED BY <1>2, <1>3, <1>4 DEF Loads

(* What a store leaves in memory are bytes, at the same addresses.          *)
LEMMA StoredType ==
    ASSUME HInv, NEW a \in Addr, NEW n \in {1, 2, 4}, NEW v \in Addr
    PROVE  Stored(a, n, v) \in [Mapped(iomaps) -> Byte]
<1>1. mem \in [Mapped(iomaps) -> Byte] /\ a \in Int
  BY Facts, AddrType
<1>2. ASSUME NEW x \in Mapped(iomaps), a =< x, x < a + n
      PROVE  ByteOf(v, a + n - 1 - x) \in Byte
  <2>1. x \in Int
    BY AddrType DEF Mapped, Region
  <2>2. a + n - 1 - x \in 0 .. 3
    BY <1>1, <1>2, <2>1
  <2> QED BY <2>2, ByteOfType
<1> QED BY <1>1, <1>2 DEF Stored

(* An access whose first byte is not mapped.                                *)
LEMMA OutOfBoundsKeeps ==
    ASSUME HInv, OutOfBounds, UNCHANGED << mem, output >>
    PROVE  Keeps
<1>1. /\ state' = "error" /\ pc' = Next4 /\ UNCHANGED << memo, regs, report >>
  BY DEF OutOfBounds
<1> QED BY <1>1, Facts DEF Keeps, Stopped

(* A load or store with a funct3 nobody knows.                              *)
LEMMA NoAccessKeeps ==
    ASSUME HInv, NEW known, NoAccess(known), UNCHANGED << mem, output >>
    PROVE  Keeps
<1>1. /\ MemoOk(iomaps, memo) /\ pc \in Addr /\ regs \in [Reg -> Addr] /\ regs[0] = 0
      /\ AccessAddr \in Addr /\ Table(iomaps)
  BY Facts
<1>2. MemoOk(iomaps, MemoAfter(iomaps, memo, AccessAddr))
  BY <1>1, LookupIn
<1>3. Fail(pc, Next4, regs, MemoAfter(iomaps, memo, AccessAddr))
  BY DEF NoAccess
<1> QED BY <1>1, <1>2, <1>3, FailKeeps

(* An access that is performed has all its bytes in maps.                   *)
LEMMA AccessMoves ==
    ASSUME HInv, NEW known \in {Loads, Stores}, Access(known)
    PROVE  /\ MemoOk(iomaps, memo') /\ Continue(Next4) /\ Funct3 \in known
           /\ BytesOf(Funct3) \in {1, 2, 4}
           /\ \A x \in AccessAddr .. AccessAddr + BytesOf(Funct3) - 1 : x \in Mapped(iomaps)
<1>1. /\ MemoOk(iomaps, memo) /\ AccessAddr \in Addr /\ Table(iomaps)
  BY Facts
<1>2. /\ ~OobAddr(iomaps, memo, AccessAddr)
      /\ Funct3 \in known /\ InBuffer(memo, AccessAddr, BytesOf(Funct3))
      /\ memo' = MemoAfter(iomaps, memo, AccessAddr)
      /\ Continue(Next4)
  BY DEF Access
<1>3. BytesOf(Funct3) \in {1, 2, 4}
  BY <1>2 DEF BytesOf, Loads, Stores
<1>4. MemoOk(iomaps, memo')
  BY <1>1, <1>2, LookupIn
<1> QED BY <1>1, <1>2, <1>3, <1>4, BufferMapped

(* Loads, in all their ways out.                                            *)
LEMMA LoadKeeps ==
    ASSUME HInv, DoLoad
    PROVE  Keeps
<1>1. /\ inst.rd \in Reg /\ AccessAddr \in Addr /\ Next4 \in Addr /\ (pc % 4 = 0 => Next4 % 4 = 0)
      /\ mem \in [Mapped(iomaps) -> Byte] /\ output \in Seq(0 .. BYTE)
  BY Facts
<1>2. UNCHANGED << mem, output >>
  BY DEF DoLoad
<1>3. CASE inst.rd = 0 /\ Ignore
  BY <1>2, <1>3, IgnoreKeeps
<1>4. CASE OutOfBounds
  BY <1>2, <1>4, OutOfBoundsKeeps
<1>5. CASE /\ inst.rd # 0 /\ Access(Loads)
           /\ regs' = [regs EXCEPT ![inst.rd] = Loaded(AccessAddr)]
  <2>1. /\ MemoOk(iomaps, memo') /\ Continue(Next4) /\ Funct3 \in Loads
        /\ \A x \in AccessAddr .. AccessAddr + BytesOf(Funct3) - 1 : x \in Mapped(iomaps)
    BY <1>5, AccessMoves
  <2>2. Loaded(AccessAddr) \in Addr
    BY <1>1, <2>1, LoadedType
  <2>3. regs' \in [Reg -> Addr] /\ regs'[0] = 0
    BY <1>1, <1>5, <2>2, SetRegister
  <2> QED BY <1>1, <1>2, <2>1, <2>3, ContinueKeeps
<1>6. CASE Overrun(Loads)
  BY <1>6, UndefinedKeeps DEF Overrun
<1>7. CASE NoAccess(Loads)
  BY <1>2, <1>7, NoAccessKeeps
<1> QED BY <1>3, <1>4, <1>5, <1>6, <1>7 DEF DoLoad

(* Stores, in all their ways out.                                           *)
LEMMA StoreKeeps ==
    ASSUME HInv, DoStore
    PROVE  Keeps
<1>1. /\ AccessAddr \in Addr /\ Next4 \in Addr /\ (pc % 4 = 0 => Next4 % 4 = 0)
      /\ mem \in [Mapped(iomaps) -> Byte] /\ output \in Seq(0 .. BYTE)
      /\ regs \in [Reg -> Addr] /\ regs[0] = 0 /\ Rs2 \in Addr
  BY Facts
<1>2. UNCHANGED output
  BY DEF DoStore
<1>3. CASE OutOfBounds /\ UNCHANGED mem
  BY <1>2, <1>3, OutOfBoundsKeeps
<1>4. CASE /\ Access(Stores)
           /\ mem' = Stored(AccessAddr, BytesOf(Funct3), Rs2)
           /\ UNCHANGED regs
  <2>1. /\ MemoOk(iomaps, memo') /\ Continue(Next4) /\ BytesOf(Funct3) \in {1, 2, 4}
    BY <1>4, AccessMoves
  <2>2. mem' \in [Mapped(iomaps) -> Byte]
    BY <1>1, <1>4, <2>1, StoredType
  <2> QED BY <1>1, <1>2, <1>4, <2>1, <2>2, ContinueKeeps
<1>5. CASE Overrun(Stores)
  BY <1>5, UndefinedKeeps DEF Overrun
<1>6. CASE NoAccess(Stores) /\ UNCHANGED mem
  BY <1>2, <1>6, NoAccessKeeps
<1> QED BY <1>3, <1>4, <1>5, <1>6 DEF DoStore

(***************************************************************************)
(* The system calls.                                                       *)
(***************************************************************************)
LEMMA Arguments ==
    ASSUME HInv
    PROVE  /\ a0 \in Reg \ {0} /\ regs[a0] \in Addr /\ regs[a1] \in Addr /\ regs[a2] \in Addr
           /\ regs[a2] \in Nat
<1>1. regs \in [Reg -> Addr]
  BY Facts
<1>2. regs[a0] \in Addr /\ regs[a1] \in Addr /\ regs[a2] \in Addr /\ a0 \in Reg \ {0}
  BY <1>1 DEF a0, a1, a2, Reg
<1> QED BY <1>2, AddrType

(* The count of a read: never more than what was typed or asked for, unless *)
(* it is a negative number that was asked for.                              *)
LEMMA ReadCountType ==
    ASSUME NEW typed \in Nat, NEW asked \in Addr
    PROVE  LET count == ReadCount(typed, asked)
           IN  /\ count \in Addr /\ count \in Nat /\ count =< asked
               /\ count < HALF => count =< typed /\ Signed(count) =< Signed(asked)
<1>1. asked \in Nat /\ asked < WORD /\ HALF \in Nat /\ WORD = 2 * HALF
  BY AddrType, WordType, HalfType
<1>2. CASE typed < Signed(asked)
  <2>1. Signed(asked) = asked /\ asked < HALF
    BY <1>1, <1>2 DEF Signed
  <2>2. typed < HALF /\ typed \in 0 .. WORD - 1 /\ Signed(typed) = typed
    BY <1>1, <1>2, <2>1 DEF Signed
  <2> QED BY <1>1, <1>2, <2>1, <2>2 DEF ReadCount, Addr
<1>3. CASE ~(typed < Signed(asked))
  <2>1. ReadCount(typed, asked) = asked
    BY <1>3 DEF ReadCount
  <2>2. asked < HALF => asked =< typed
    BY <1>1, <1>3 DEF Signed
  <2>3. Signed(asked) \in Int
    BY <1>1 DEF Signed
  <2> QED BY <1>1, <2>1, <2>2, <2>3
<1> QED BY <1>2, <1>3

(* The question of a system call about its buffer moves the memo to a row   *)
(* of the table.                                                            *)
LEMMA RoomMemo ==
    ASSUME HInv, NEW s \in Addr, NEW n \in Int, NEW room,
           room = Contiguous(iomaps, memo, s, Low32(n))
    PROVE  Reports(iomaps, s, Low32(n), room) /\ MemoOk(iomaps, room.memo)
<1>1. Low32(n) \in Addr /\ Table(iomaps) /\ MemoOk(iomaps, memo)
  BY LowAddr, Facts
<1>2. Reports(iomaps, s, Low32(n), room)
  BY <1>1, ContiguousReports
<1> QED BY <1>2 DEF Reports

(* The write call, in all its ways out.                                     *)
LEMMA WriteKeeps ==
    ASSUME HInv, Write
    PROVE  Keeps
<1> DEFINE from == regs[a1]
           size == regs[a2]
           room == Contiguous(iomaps, memo, from, Low32(from + size - 1))
           buf == CopyFromGuest(iomaps, room.memo, mem, from, size, BYTE)
<1>1. from \in Addr /\ size \in Nat /\ size \in Addr /\ Table(iomaps)
      /\ pc \in Addr /\ regs \in [Reg -> Addr] /\ regs[0] = 0
      /\ mem \in [Mapped(iomaps) -> Byte] /\ output \in Seq(0 .. BYTE)
      /\ Next4 \in Addr /\ (pc % 4 = 0 => Next4 % 4 = 0)
  BY Facts, Arguments
<1>2. MemoOk(iomaps, room.memo)
  <2>1. from + size - 1 \in Int
    BY <1>1, AddrType
  <2> QED BY <1>1, <2>1, RoomMemo
<1>3. CASE SystemIgnore
  BY <1>3, IgnoreKeeps DEF SystemIgnore
<1>4. CASE Fail(pc, Next4, regs, room.memo) /\ UNCHANGED << mem, output >>
  <2> HIDE DEF room
  <2> QED BY <1>1, <1>2, <1>4, FailKeeps
<1>5. CASE Undefined
  BY <1>5, UndefinedKeeps
<1>6. CASE /\ CopyDefined(iomaps, room.memo, from, size)
           /\ output' = output \o [ i \in 1 .. size |-> buf[i - 1] ]
           /\ memo' = Collect(iomaps, room.memo, from, size).memo
           /\ Continue(Next4) /\ UNCHANGED << regs, mem >>
  <2> HIDE DEF room, from, size
  <2>1. MemoOk(iomaps, memo')
    BY <1>1, <1>2, <1>6, CollectOk DEF Collected
  <2>2. \A k \in 0 .. size - 1 : buf[k] \in Byte \cup {BYTE}
    BY <1>1, <1>2, <1>6, CopyFromGuestTyped
  <2>3. \A i \in 1 .. size : buf[i - 1] \in 0 .. BYTE
    <3>1. Byte \cup {BYTE} \subseteq 0 .. BYTE
      BY ByteType DEF Byte
    <3>2. \A i \in 1 .. size : i - 1 \in 0 .. size - 1
      BY <1>1
    <3> HIDE DEF buf
    <3> QED BY <2>2, <3>1, <3>2
  <2> HIDE DEF buf
  <2>4. [ i \in 1 .. size |-> buf[i - 1] ] \in Seq(0 .. BYTE)
    BY <1>1, <2>3
  <2>5. output' \in Seq(0 .. BYTE)
    BY <1>1, <1>6, <2>4
  <2> QED BY <1>1, <1>6, <2>1, <2>5, ContinueKeeps
<1>7. \/ SystemIgnore
      \/ Fail(pc, Next4, regs, room.memo) /\ UNCHANGED << mem, output >>
      \/ Undefined
      \/ /\ CopyDefined(iomaps, room.memo, from, size)
         /\ output' = output \o [ i \in 1 .. size |-> buf[i - 1] ]
         /\ memo' = Collect(iomaps, room.memo, from, size).memo
         /\ Continue(Next4) /\ UNCHANGED << regs, mem >>
  BY DEF Write
<1> QED BY <1>3, <1>4, <1>5, <1>6, <1>7

(* The read call, with any line of input.                                   *)
LEMMA ReadKeeps ==
    ASSUME HInv, NEW input \in Inputs, ReadInput(input)
    PROVE  Keeps
<1> DEFINE to    == regs[a1]
           count == ReadCount(Len(input), regs[a2])
           room  == Contiguous(iomaps, memo, to, Low32(to + count))
           bytes == [ k \in 0 .. Len(input) - 1 |-> input[k + 1] ]
           r == [regs EXCEPT ![a0] = count]
<1>1. to \in Addr /\ Table(iomaps) /\ a0 \in Reg \ {0} /\ regs[a2] \in Addr
      /\ pc \in Addr
      /\ mem \in [Mapped(iomaps) -> Byte] /\ output \in Seq(0 .. BYTE)
      /\ Next4 \in Addr /\ (pc % 4 = 0 => Next4 % 4 = 0)
  BY Facts, Arguments
<1>2. input \in Seq(Byte) /\ Len(input) \in Nat
  BY BytesAssumption
<1>3. count \in Addr /\ count \in Nat /\ (count < HALF => count =< Len(input))
  BY <1>1, <1>2, ReadCountType
<1>4. MemoOk(iomaps, room.memo)
  <2>1. to + count \in Int
    BY <1>1, <1>3, AddrType
  <2> HIDE DEF count
  <2> QED BY <1>1, <2>1, RoomMemo
<1>5. r \in [Reg -> Addr] /\ r[0] = 0
  BY <1>1, <1>3, SetRegister
<1>6. \/ Fail(pc, Next4, r, room.memo) /\ UNCHANGED << mem, output >>
      \/ Undefined
      \/ /\ Count(count) /\ CopyDefined(iomaps, room.memo, to, count)
         /\ regs' = r
         /\ mem' = CopyFromHost(iomaps, room.memo, mem, to, bytes, count)
         /\ memo' = Collect(iomaps, room.memo, to, count).memo
         /\ Continue(Next4) /\ UNCHANGED output
  BY DEF ReadInput
<1> HIDE DEF r, room, to, count
<1>7. CASE Fail(pc, Next4, r, room.memo) /\ UNCHANGED << mem, output >>
  BY <1>1, <1>4, <1>5, <1>7, FailKeeps
<1>8. CASE Undefined
  BY <1>8, UndefinedKeeps
<1>9. CASE /\ Count(count) /\ CopyDefined(iomaps, room.memo, to, count)
           /\ regs' = r
           /\ mem' = CopyFromHost(iomaps, room.memo, mem, to, bytes, count)
           /\ memo' = Collect(iomaps, room.memo, to, count).memo
           /\ Continue(Next4) /\ UNCHANGED output
  <2>1. MemoOk(iomaps, memo')
    BY <1>1, <1>3, <1>4, <1>9, CollectOk DEF Collected
  <2>2. \A k \in 0 .. count - 1 : bytes[k] \in Byte
    <3>1. count =< Len(input)
      BY <1>3, <1>9 DEF Count
    <3>2. \A k \in 0 .. count - 1 : k \in 0 .. Len(input) - 1 /\ k + 1 \in 1 .. Len(input)
      BY <1>2, <1>3, <3>1
    <3> QED BY <1>2, <3>2
  <2>3. Mapped(iomaps) \subseteq Nat
    BY AddrType DEF Mapped, Region
  <2> HIDE DEF bytes
  <2>4. mem' \in [Mapped(iomaps) -> Byte]
    BY <1>1, <1>3, <1>4, <1>9, <2>2, <2>3, CopyFromHostTyped
  <2> QED BY <1>1, <1>5, <1>9, <2>1, <2>4, ContinueKeeps
<1> QED BY <1>6, <1>7, <1>8, <1>9

(* ECALL, EBREAK and what is neither.                                       *)
LEMMA SystemKeeps ==
    ASSUME HInv, DoSystem
    PROVE  Keeps
<1>1. /\ MemoOk(iomaps, memo) /\ pc \in Addr /\ Next4 \in Addr /\ regs \in [Reg -> Addr]
      /\ regs[0] = 0 /\ (pc % 4 = 0 => Next4 % 4 = 0)
      /\ mem \in [Mapped(iomaps) -> Byte] /\ output \in Seq(0 .. BYTE)
      /\ report \in SUBSET Addr
  BY Facts
<1>2. CASE SystemFail
  BY <1>1, <1>2, FailKeeps DEF SystemFail, FailBehind
<1>3. CASE Ebreak
  <2>1. Shown(memo, pc, "fetch")
    BY <1>1, <1>3, BacktraceShows DEF Ebreak
  <2>2. state' \in {"fetch", "prompt", "execute"} \cup Stopped /\ MemoOk(iomaps, memo')
    BY <2>1 DEF Shown, Stopped
  <2> QED BY <1>1, <1>3, <2>2 DEF Ebreak, Keeps
<1>4. CASE Ecall
  <2>1. CASE Exit
    BY <1>1, <2>1 DEF Exit, Keeps, Stopped
  <2>2. CASE SystemIgnore
    BY <2>2, IgnoreKeeps DEF SystemIgnore
  <2>3. CASE ReadNothing
    BY <1>1, <2>3 DEF ReadNothing, Keeps, Stopped
  <2> QED BY <1>2, <1>4, <2>1, <2>2, <2>3, WriteKeeps, ReadKeeps DEF Ecall
<1> QED BY <1>2, <1>3, <1>4 DEF DoSystem

-----------------------------------------------------------------------------
(* rv32i_hart_init leaves a table, its first map as the memo and registers  *)
(* of 0.                                                                    *)
LEMMA InitHInv == Init => HInv
<1> SUFFICES ASSUME Init PROVE HInv
  OBVIOUS
<1>1. cmd \in Cmdlines /\ Accepted(cmd) /\ iomaps = TableOf(cmd) /\ Table(iomaps)
  BY CmdlinesAssumption, TableOfAccepted DEF Init, Table
<1>2. cmd.load_at \in Addr /\ InitialAddr(cmd) \in Addr
  BY <1>1, HalfType DEF Accepted, Cmdline, InitialAddr
<1>3. memo = GetIomapByAddrNonMemoised(iomaps, InitialAddr(cmd)) /\ memo # NULL
  BY DEF Init
<1>4. memo \in 0 .. Len(iomaps) /\ Covers(iomaps[memo], InitialAddr(cmd))
  BY <1>1, <1>2, <1>3, FindUnique DEF Table
<1>5. memo \in DOMAIN iomaps /\ iomaps[memo] \in IoMap
  BY <1>1, <1>3, <1>4 DEF NULL, Table
<1>6. iomaps[memo].size # 0
  <2>1. /\ iomaps[memo].start_addr \in 0 .. HALF - 1 /\ iomaps[memo].size \in 0 .. HALF - 1
    BY <1>1, <1>5, RowType
  <2>2. /\ iomaps[memo].start_addr =< InitialAddr(cmd)
        /\ InitialAddr(cmd) < iomaps[memo].start_addr + iomaps[memo].size
    BY <1>2, <1>4, <1>5, <2>1, CoversRegion, HalfType
  <2> QED BY <1>2, <2>1, <2>2, AddrType, HalfType
<1>7. MemoOk(iomaps, memo)
  BY <1>5, <1>6 DEF MemoOk
<1>8. pc = cmd.load_at /\ pc \in Addr /\ regs \in [Reg -> Addr] /\ regs[0] = 0
  BY <1>2, HalfType DEF Init, Reg
<1>9. mem \in [Mapped(iomaps) -> Byte]
  <2>1. PICK image \in Images : mem = [ a \in Mapped(iomaps) |-> image[a] ]
    BY DEF Init
  <2>2. \A a \in Mapped(iomaps) : a \in Addr
    BY DEF Mapped, Region
  <2>3. image \in [Addr -> Byte]
    BY BytesAssumption
  <2> QED BY <2>1, <2>2, <2>3
<1>10. /\ state = "fetch" /\ steps \in 0 .. MaxSteps /\ report = {} /\ output = << >>
       /\ debug \in BOOLEAN /\ noopstub \in BOOLEAN /\ inst = NoInst
  BY CmdlinesAssumption, WindowsAssumption DEF Init
<1>11. NoInst \in Inst
  BY HalfType DEF NoInst, Inst, Reg, Refused
<1>12. TypeOK
  BY <1>1, <1>5, <1>8, <1>9, <1>10, <1>11 DEF TypeOK, Stopped
<1> QED BY <1>1, <1>7, <1>8, <1>12 DEF HInv, ZeroRegister, PcAligned

(* The top of the loop: fetch, refusals and the first panels.               *)
LEMMA FetchHInv ==
    ASSUME HInv, Fetch
    PROVE  HInv'
<1> DEFINE m == MemoAfter(iomaps, memo, pc)
<1>1. /\ Table(iomaps) /\ MemoOk(iomaps, memo) /\ pc \in Addr /\ regs \in [Reg -> Addr]
      /\ regs[0] = 0 /\ mem \in [Mapped(iomaps) -> Byte] /\ output \in Seq(0 .. BYTE)
      /\ report \in SUBSET Addr /\ inst \in Inst
  BY Facts
<1>2. MemoOk(iomaps, m)
  BY <1>1, LookupIn
<1>3. steps' \in 0 .. MaxSteps /\ UNCHANGED << pc, regs, mem, output, fixed >>
  BY WindowsAssumption DEF Fetch, HInv, TypeOK
<1>4. \/ /\ state' \in {"error", "undefined"} /\ report' \in {{pc}, report}
         /\ memo' \in {memo, m} /\ inst' = inst
      \/ /\ report' = {pc} /\ UNCHANGED inst
         /\ (state' = "error" /\ memo' = m) \/ Backtrace(m, pc, regs, "error")
      \/ /\ inst' \in Insts /\ memo' = m /\ state' \in {"prompt", "execute"}
         /\ UNCHANGED report
  BY DEF Fetch
<1> HIDE DEF m
<1>5. ASSUME Backtrace(m, pc, regs, "error")
      PROVE  state' \in Stopped /\ MemoOk(iomaps, memo')
  <2>1. Shown(m, pc, "error")
    BY <1>1, <1>2, <1>5, BacktraceShows
  <2> QED BY <2>1 DEF Shown, Stopped
<1>6. /\ state' \in {"fetch", "prompt", "execute"} \cup Stopped
      /\ MemoOk(iomaps, memo') /\ report' \in SUBSET Addr /\ inst' \in Inst
  BY <1>1, <1>2, <1>4, <1>5, InstsAssumption DEF Stopped
<1>7. Keeps
  BY <1>1, <1>3, <1>6 DEF Keeps
<1> QED BY <1>3, <1>6, <1>7, KeepsHInv

(* A turn of the prompt of the debugger.                                    *)
LEMMA PromptHInv ==
    ASSUME HInv, Prompt
    PROVE  HInv'
<1>1. /\ MemoOk(iomaps, memo) /\ pc \in Addr /\ regs \in [Reg -> Addr] /\ regs[0] = 0
      /\ mem \in [Mapped(iomaps) -> Byte] /\ output \in Seq(0 .. BYTE)
      /\ report \in SUBSET Addr /\ inst \in Inst /\ steps \in 0 .. MaxSteps
  BY Facts DEF HInv, TypeOK
<1>2. UNCHANGED << inst, steps, pc, regs, mem, output, report, fixed >>
  BY DEF Prompt
<1>3. PICK next \in {"execute", "quit", "prompt"} : Backtrace(memo, pc, regs, next)
  BY DEF Prompt
<1>4. Shown(memo, pc, next)
  BY <1>1, <1>3, BacktraceShows
<1>5. state' \in {"fetch", "prompt", "execute"} \cup Stopped /\ MemoOk(iomaps, memo')
  BY <1>4 DEF Shown, Stopped
<1>6. Keeps
  BY <1>1, <1>2, <1>5 DEF Keeps
<1> QED BY <1>1, <1>2, <1>6, KeepsHInv

(* One handler, chosen by the opcode.                                       *)
LEMMA ExecuteHInv ==
    ASSUME HInv, Execute
    PROVE  HInv'
<1>1. Keeps
  BY ComputeKeeps, JumpKeeps, LoadKeeps, StoreKeeps, SystemKeeps DEF Execute
<1>2. inst' = NoInst /\ steps' = steps /\ UNCHANGED fixed
  BY DEF Execute
<1>3. NoInst \in Inst
  BY HalfType DEF NoInst, Inst, Reg, Refused
<1> QED BY <1>1, <1>2, <1>3, KeepsHInv DEF HInv, TypeOK

(* Every step of the executor keeps the invariant.                          *)
LEMMA StepHInv == HInv /\ [Next]_vars => HInv'
<1> SUFFICES ASSUME HInv, [Next]_vars PROVE HInv'
  OBVIOUS
<1>1. CASE UNCHANGED vars
  <2>1. UNCHANGED << cmd, debug, noopstub, state, inst, steps, iomaps, memo, pc, regs, mem,
                     output, report >>
    BY <1>1 DEF vars
  <2> QED BY <2>1 DEF HInv, TypeOK, MemoOk, ZeroRegister, PcAligned
<1> QED BY <1>1, FetchHInv, PromptHInv, ExecuteHInv DEF Next

(* The table is the one of the command line and stays aligned and separate, *)
(* the memo one of its rows, x0 is 0, and the program counter a multiple of *)
(* 4.                                                                       *)
THEOREM SpecHInv == Spec => []HInv
<1>1. Init => HInv
  BY InitHInv
<1>2. HInv /\ [Next]_vars => HInv'
  BY StepHInv
<1> QED BY <1>1, <1>2, PTL DEF Spec

(* Registers stay 32-bit, the memory keeps its shape and its bytes, the     *)
(* table its maps, and the memo is always one of them.                      *)
THEOREM HartTypes == Spec => []TypeOK
<1>1. HInv => TypeOK
  BY DEF HInv
<1> QED BY <1>1, SpecHInv, PTL

(* No handler, system call or error path ever writes x0.                    *)
THEOREM ZeroStaysZero == Spec => []ZeroRegister
<1>1. HInv => ZeroRegister
  BY DEF HInv
<1> QED BY <1>1, SpecHInv, PTL

(* Whatever jumps a program makes, around the end of the address space and  *)
(* back, and whatever error it ends in.                                     *)
THEOREM PcStaysAligned == Spec => []PcAligned
<1>1. HInv => PcAligned
  BY DEF HInv
<1> QED BY <1>1, SpecHInv, PTL

-----------------------------------------------------------------------------
(***************************************************************************)
(* What a step may never do.                                               *)
(***************************************************************************)
NoEffect ==
    /\ UNCHANGED << mem, output >>
    /\ regs' # regs =>
          \/ Executes({"JALR"}) /\ regs' = Linked
          \/ Executes({"SYSTEM"}) /\ regs[a0] = 2
             /\ \A r \in Reg \ {a0} : regs'[r] = regs[r]

(* A step into an error has no effect but the two the code leaves.          *)
LEMMA ErrorStep ==
    ASSUME HInv, [Next]_vars, state # "error", state' = "error"
    PROVE  NoEffect
<1>1. CASE UNCHANGED vars
  BY <1>1 DEF vars
<1>2. CASE Fetch
  BY <1>2 DEF Fetch, NoEffect
<1>3. CASE Prompt
  BY <1>3 DEF Prompt, NoEffect
<1>4. CASE DoOpImm \/ DoOp \/ DoUpper \/ DoMiscMem \/ DoNoImpl \/ DoUnassigned
  BY <1>4 DEF DoOpImm, DoOp, DoUpper, DoMiscMem, DoNoImpl, DoUnassigned, Ignore, RetireRd,
              Continue, FailBehind, FailHere, Fail, Undefined, NoEffect
<1>5. CASE state = "execute" /\ (DoBranch \/ DoJalr \/ DoJal)
  BY <1>5 DEF DoBranch, DoJalr, DoJal, Continue, FailHere, Fail, NoEffect, Executes
<1>6. CASE DoLoad \/ DoStore
  <2>1. ~Undefined
    BY DEF Undefined
  <2>2. ~Continue(Next4)
    BY DEF Continue
  <2> QED BY <1>6, <2>1, <2>2 DEF DoLoad, DoStore, Ignore, OutOfBounds, Access, Overrun, NoAccess,
                                 Fail, NoEffect
<1>7. CASE state = "execute" /\ DoSystem
  <2>1. CASE SystemFail
    BY <2>1 DEF SystemFail, FailBehind, Fail, NoEffect
  <2>2. CASE Ebreak
    BY <2>2 DEF Ebreak, NoEffect
  <2>3. CASE Exit \/ SystemIgnore
    BY <2>3 DEF Exit, SystemIgnore, Ignore, Continue
  <2>4. CASE Write
    BY <2>4 DEF Write, SystemIgnore, Ignore, Continue, Fail, Undefined, NoEffect
  <2>5. CASE ReadNothing
    BY <2>5 DEF ReadNothing, NoEffect
  <2>6. CASE regs[a0] = 2 /\ \E input \in Inputs : ReadInput(input)
    <3>1. PICK input \in Inputs : ReadInput(input)
      BY <2>6
    <3> DEFINE count == ReadCount(Len(input), regs[a2])
    <3>2. PICK m : Fail(pc, Next4, [regs EXCEPT ![a0] = count], m) /\ UNCHANGED << mem, output >>
      BY <3>1 DEF ReadInput, Undefined, Continue
    <3>3. regs' = [regs EXCEPT ![a0] = count] /\ regs \in [Reg -> Addr]
      BY <3>2, Facts DEF Fail
    <3> HIDE DEF count
    <3>4. \A r \in Reg \ {a0} : regs'[r] = regs[r]
      BY <3>3
    <3>5. Executes({"SYSTEM"})
      BY <1>7 DEF DoSystem, Executes
    <3> QED BY <2>6, <3>2, <3>4, <3>5 DEF NoEffect
  <2>7. CASE Ecall
    BY <2>1, <2>3, <2>4, <2>5, <2>6, <2>7 DEF Ecall
  <2> QED BY <1>7, <2>1, <2>2, <2>7 DEF DoSystem
<1> QED BY <1>1, <1>2, <1>3, <1>4, <1>5, <1>6, <1>7 DEF Next, Execute

(* An instruction that ends in an error has changed no byte of memory and   *)
(* no output, and no register but the link of a JALR and the count of a     *)
(* read.                                                                    *)
THEOREM ErrorsLeaveNoTrace == Spec => ErrorsHaveNoEffect
<1>1. HInv /\ [Next]_vars =>
        [ state # "error" /\ state' = "error" =>
            /\ UNCHANGED << mem, output >>
            /\ regs' # regs =>
                  \/ Executes({"JALR"}) /\ regs' = Linked
                  \/ Executes({"SYSTEM"}) /\ regs[a0] = 2
                     /\ \A r \in Reg \ {a0} : regs'[r] = regs[r] ]_vars
  BY ErrorStep DEF NoEffect
<1> QED BY <1>1, SpecHInv, PTL DEF Spec, ErrorsHaveNoEffect

(* The program counter a message names.                                     *)
LEMMA ReportStep ==
    ASSUME HInv, [Next]_vars, report' # report
    PROVE  report' = IF Executes({"BRANCH"}) THEN {Low32(pc - 4)} ELSE {pc}
<1>1. CASE UNCHANGED vars
  BY <1>1 DEF vars
<1>2. CASE Fetch
  BY <1>2 DEF Fetch, Executes
<1>3. CASE Prompt
  BY <1>3 DEF Prompt
<1>4. CASE DoOpImm \/ DoOp \/ DoUpper \/ DoMiscMem \/ DoNoImpl \/ DoUnassigned
  BY <1>4 DEF DoOpImm, DoOp, DoUpper, DoMiscMem, DoNoImpl, DoUnassigned, Ignore, RetireRd,
              Continue, FailBehind, FailHere, Fail, Undefined, Executes, NoImpl
<1>5. CASE state = "execute" /\ (DoBranch \/ DoJalr \/ DoJal)
  BY <1>5 DEF DoBranch, DoJalr, DoJal, Continue, FailHere, Fail, Executes
<1>6. CASE DoLoad \/ DoStore
  BY <1>6 DEF DoLoad, DoStore, Ignore, OutOfBounds, Access, Overrun, NoAccess,
              Undefined, Continue, Fail, Executes
<1>7. CASE DoSystem
  <2>1. ~Executes({"BRANCH"})
    BY <1>7 DEF DoSystem, Executes
  <2>2. CASE SystemFail \/ Ebreak \/ Exit \/ SystemIgnore \/ ReadNothing
    BY <2>1, <2>2 DEF SystemFail, FailBehind, Fail, Ebreak, Exit, SystemIgnore, Ignore,
                      Continue, ReadNothing
  <2>3. CASE Write
    BY <2>1, <2>3 DEF Write, SystemIgnore, Ignore, Continue, Fail, Undefined
  <2>4. ASSUME NEW input \in Inputs, ReadInput(input) PROVE report' = {pc}
    BY <2>4 DEF ReadInput, Continue, Fail, Undefined
  <2> QED BY <1>7, <2>1, <2>2, <2>3, <2>4 DEF DoSystem, Ecall
<1> QED BY <1>1, <1>2, <1>3, <1>4, <1>5, <1>6, <1>7 DEF Next, Execute

(* Handlers that have moved the program counter and handlers that have not  *)
(* report the same instruction, BRANCH alone the one before.                *)
THEOREM ErrorsNameTheirInstruction == Spec => ReportsFaultingPc
<1>1. HInv /\ [Next]_vars =>
        [ report' # report =>
            report' = IF Executes({"BRANCH"}) THEN {Low32(pc - 4)} ELSE {pc} ]_vars
  BY ReportStep
<1> QED BY <1>1, SpecHInv, PTL DEF Spec, ReportsFaultingPc

(* A load or store, and the handlers it is not.                             *)
LEMMA AccessStep ==
    ASSUME HInv, Next, Accesses
    PROVE  \/ Executes({"LOAD"}) /\ Funct3 \in Loads /\ inst.rd # 0 /\ DoLoad
           \/ Executes({"STORE"}) /\ Funct3 \in Stores /\ DoStore
<1>1. state = "execute" /\ inst.op \in {"LOAD", "STORE"} /\ Execute
  BY DEF Accesses, Executes, Next, Fetch, Prompt
<1>2. DoLoad \/ DoStore
  BY <1>1 DEF Execute, DoOpImm, DoOp, DoUpper, DoMiscMem, DoNoImpl, DoUnassigned, DoBranch,
              DoJalr, DoJal, DoSystem, NoImpl
<1>3. DoLoad => inst.op = "LOAD"
  BY DEF DoLoad
<1>4. DoStore => inst.op = "STORE"
  BY DEF DoStore
<1> QED BY <1>2, <1>3, <1>4 DEF Accesses, Executes

(* A load or store is an error exactly if its first byte is not mapped.     *)
LEMMA RefusedStep ==
    ASSUME HInv, Next, Accesses
    PROVE  state' = "error" <=> AccessAddr \notin Mapped(iomaps)
<1>1. /\ Table(iomaps) /\ MemoOk(iomaps, memo) /\ AccessAddr \in Addr
  BY Facts
<1>2. OobAddr(iomaps, memo, AccessAddr) <=> AccessAddr \notin Mapped(iomaps)
  BY <1>1, LookupIn
<1>3. \/ OutOfBounds
      \/ \E known \in {Loads, Stores} : Access(known) \/ Overrun(known)
  BY AccessStep DEF DoLoad, DoStore, NoAccess
<1>4. OutOfBounds => state' = "error" /\ OobAddr(iomaps, memo, AccessAddr)
  BY DEF OutOfBounds
<1>5. ASSUME NEW known, Access(known) \/ Overrun(known)
      PROVE  state' # "error" /\ ~OobAddr(iomaps, memo, AccessAddr)
  BY <1>5 DEF Access, Overrun, Undefined, Continue
<1> QED BY <1>2, <1>3, <1>4, <1>5

(* Loads and stores are refused by the first byte alone, and the memo has   *)
(* no say in it.                                                            *)
THEOREM UnmappedIsRefused == Spec => RefusesUnmapped
<1>1. HInv /\ [Next]_vars =>
        [ Accesses => (state' = "error" <=> AccessAddr \notin Mapped(iomaps)) ]_vars
  BY RefusedStep
<1> QED BY <1>1, SpecHInv, PTL DEF Spec, RefusesUnmapped

-----------------------------------------------------------------------------
(* The shorter of two ranges that start together: in the map of the longer, *)
(* and over no more pages.                                                  *)
LEMMA ShorterWalk ==
    ASSUME NEW a \in Addr, NEW n \in Nat, NEW m \in Nat, m =< n, ShortWalk(a, n)
    PROVE  ShortWalk(a, m)
<1> DEFINE up == AlignToPage(a)
           later(c) == { k \in 1 .. c : up + k * PAGE < a + c }
           pages(c) == IF c = 0 THEN 0 ELSE 1 + Cardinality(later(c))
<1>1. a \in Nat /\ up \in Nat /\ PAGE \in Nat /\ HARDCAP \in Nat
  BY AddrType, AlignUp, WidthAssumption, CapAssumption
<1>2. \A c \in Nat : Cardinality(later(c)) \in Nat /\ later(c) = 1 .. Cardinality(later(c))
  BY <1>1, PagesCounted
<1>3. ASSUME NEW c \in Nat PROVE Len(PageWalk(a, c)) = pages(c)
  <2>1. PageWalk(a, c) = [ i \in 1 .. pages(c) |-> IF i = 1 THEN a ELSE up + (i - 1) * PAGE ]
    BY DEF PageWalk
  <2>2. pages(c) \in Nat
    BY <1>2
  <2> HIDE DEF pages
  <2> QED BY <2>1, <2>2
<1>4. later(m) \subseteq later(n)
  <2>1. ASSUME NEW k \in 1 .. m, up + k * PAGE < a + m PROVE k \in 1 .. n /\ up + k * PAGE < a + n
    <3>1. k * PAGE \in Int
      BY <1>1
    <3> QED BY <1>1, <2>1, <3>1
  <2> QED BY <2>1
<1> DEFINE cm == Cardinality(later(m))
           cn == Cardinality(later(n))
<1>5. cm \in Nat /\ cn \in Nat /\ later(m) = 1 .. cm /\ later(n) = 1 .. cn
  BY <1>2
<1>6. Len(PageWalk(a, m)) = (IF m = 0 THEN 0 ELSE 1 + cm)
      /\ Len(PageWalk(a, n)) = (IF n = 0 THEN 0 ELSE 1 + cn)
  BY <1>3
<1> HIDE DEF later, cm, cn
<1>7. cm =< cn
  <2>1. 1 .. cm \subseteq 1 .. cn
    BY <1>4, <1>5
  <2> QED BY <1>5, <2>1
<1> QED BY <1>1, <1>5, <1>6, <1>7 DEF ShortWalk

(* A part from the start of a range in one map is in one map.               *)
LEMMA ShorterRange ==
    ASSUME NEW T, Table(T), NEW a \in Addr, NEW n \in Nat, NEW m \in Nat, m # 0, m =< n,
           InOneMap(T, a, n)
    PROVE  InOneMap(T, a, m)
<1>1. PICK i \in DOMAIN T : a \in Region(T[i]) /\ a + n - 1 \in Region(T[i])
  BY DEF InOneMap
<1>2. /\ T[i].start_addr =< a /\ a < T[i].start_addr + T[i].size
      /\ a + n - 1 \in Addr /\ a + n - 1 < T[i].start_addr + T[i].size
  BY <1>1 DEF Region
<1>3. a \in Nat /\ WORD \in Nat /\ a + n - 1 < WORD
  BY <1>2, AddrType, WordType
<1>4. a + m - 1 \in Addr
  BY <1>3 DEF Addr
<1>5. T[i].start_addr =< a + m - 1 /\ a + m - 1 < T[i].start_addr + T[i].size
  <2>1. T[i].start_addr \in Nat /\ T[i].size \in Nat
    BY RowType, HalfType
  <2> QED BY <1>2, <1>3, <2>1
<1>6. a + m - 1 \in Region(T[i])
  BY <1>4, <1>5 DEF Region
<1> QED BY <1>1, <1>6 DEF InOneMap

(* Nothing to copy is a copy inside every buffer.                           *)
LEMMA EmptyCopy ==
    ASSUME NEW T, Table(T), NEW m, MemoOk(T, m), NEW a \in Addr
    PROVE  CopyDefined(T, m, a, 0)
<1>1. Collect(T, m, a, 0).maps = << >>
  BY CollectOk
<1>2. Copies(T, << >>, a, 0) = << >>
  BY DEF Copies
<1>3. ~ArrayOverrun(<< >>)
  BY CapAssumption DEF ArrayOverrun
<1> QED BY <1>1, <1>2, <1>3 DEF CopyDefined

(* A buffer in one map, and what is read or written of it, stays inside.    *)
LEMMA WholeIsDefined ==
    ASSUME NEW T, Table(T), NEW m, MemoOk(T, m), NEW a \in Addr, NEW n \in Addr, NEW c \in Addr,
           c =< n, InOneMap(T, a, n), ShortWalk(a, n)
    PROVE  Count(c) /\ CopyDefined(T, m, a, c)
<1>1. n \in Nat /\ c \in Nat /\ a \in Nat /\ HALF \in Nat
  BY AddrType, HalfType
<1>2. PICK i \in DOMAIN T : a \in Region(T[i]) /\ a + n - 1 \in Region(T[i])
  BY DEF InOneMap
<1>3. /\ T[i].start_addr =< a /\ a + n - 1 < T[i].start_addr + T[i].size
  BY <1>2 DEF Region
<1>4. T[i].start_addr \in Nat /\ T[i].size \in 0 .. HALF - 1
  BY RowType, HalfType
<1>5. n < HALF
  BY <1>1, <1>3, <1>4
<1>6. ShortWalk(a, c) /\ (c # 0 => InOneMap(T, a, c))
  BY <1>1, ShorterWalk, ShorterRange
<1>7. CopyDefined(T, m, a, c)
  BY <1>1, <1>6, EmptyCopy, OneMapCopyOut
<1> QED BY <1>1, <1>5, <1>7 DEF Count

(* An error of an aligned program never is the panels reading past a map.   *)
LEMMA FailDefined ==
    ASSUME HInv, pc % 4 = 0, NEW at, NEW p \in {pc, Next4}, NEW r \in [Reg -> Addr],
           NEW m, MemoOk(iomaps, m), Fail(at, p, r, m)
    PROVE  state' # "undefined"
<1>1. p \in Addr /\ p % 4 = 0
  BY Facts
<1>2. Shown(m, p, "error")
  BY <1>1, BacktraceShows DEF Fail
<1> QED BY <1>1, <1>2 DEF Shown

WholeBuffer == InOneMap(iomaps, regs[a1], regs[a2]) /\ ShortWalk(regs[a1], regs[a2])

(* A system call leaves its buffers only if the guest's buffer is not in    *)
(* one map, or its walk too long.                                           *)
LEMMA CallUndefined ==
    ASSUME HInv, DoSystem, pc % 4 = 0, state' = "undefined"
    PROVE  ~WholeBuffer
<1> SUFFICES ASSUME WholeBuffer PROVE FALSE
  OBVIOUS
<1>1. /\ MemoOk(iomaps, memo) /\ Table(iomaps) /\ pc \in Addr /\ Next4 \in Addr
      /\ regs \in [Reg -> Addr]
      /\ a0 \in Reg \ {0} /\ regs[a1] \in Addr /\ regs[a2] \in Addr /\ regs[a2] \in Nat
  BY Facts, Arguments
<1>2. CASE SystemFail
  BY <1>1, <1>2, FailDefined DEF SystemFail, FailBehind
<1>3. CASE Ebreak
  <2>1. Shown(memo, pc, "fetch")
    BY <1>1, <1>3, BacktraceShows DEF Ebreak
  <2> QED BY <2>1 DEF Shown
<1>4. CASE Exit \/ SystemIgnore \/ ReadNothing
  BY <1>4 DEF Exit, SystemIgnore, Ignore, Continue, ReadNothing
<1>5. CASE Write
  <2> DEFINE room == Contiguous(iomaps, memo, regs[a1], Low32(regs[a1] + regs[a2] - 1))
  <2>1. MemoOk(iomaps, room.memo)
    <3>1. regs[a1] + regs[a2] - 1 \in Int
      BY <1>1, AddrType
    <3> QED BY <1>1, <3>1, RoomMemo
  <2>2. \/ SystemIgnore
        \/ Fail(pc, Next4, regs, room.memo)
        \/ ~Count(regs[a2]) \/ ~CopyDefined(iomaps, room.memo, regs[a1], regs[a2])
        \/ Continue(Next4)
    BY <1>5 DEF Write
  <2> HIDE DEF room
  <2>3. Count(regs[a2]) /\ CopyDefined(iomaps, room.memo, regs[a1], regs[a2])
    BY <1>1, <2>1, WholeIsDefined DEF WholeBuffer
  <2> QED BY <1>1, <1>4, <2>1, <2>2, <2>3, FailDefined DEF Continue
<1>6. ASSUME NEW input \in Inputs, ReadInput(input) PROVE FALSE
  <2> DEFINE count == ReadCount(Len(input), regs[a2])
             room  == Contiguous(iomaps, memo, regs[a1], Low32(regs[a1] + count))
             r == [regs EXCEPT ![a0] = count]
  <2>1. Len(input) \in Nat
    BY BytesAssumption
  <2>2. count \in Addr /\ count \in Nat /\ count =< regs[a2]
    BY <1>1, <2>1, ReadCountType
  <2>3. \/ Fail(pc, Next4, r, room.memo)
        \/ ~Count(count) \/ ~CopyDefined(iomaps, room.memo, regs[a1], count)
        \/ Continue(Next4)
    BY <1>6 DEF ReadInput
  <2> HIDE DEF count
  <2>4. MemoOk(iomaps, room.memo)
    <3>1. regs[a1] \in Int
      BY <1>1, AddrType
    <3>2. regs[a1] + count \in Int
      BY <2>2, <3>1
    <3> QED BY <1>1, <3>2, RoomMemo
  <2>5. r \in [Reg -> Addr]
    BY <1>1, <2>2
  <2> HIDE DEF room, r
  <2>6. Count(count) /\ CopyDefined(iomaps, room.memo, regs[a1], count)
    BY <1>1, <2>2, <2>4, WholeIsDefined DEF WholeBuffer
  <2> QED BY <1>1, <2>3, <2>4, <2>5, <2>6, FailDefined DEF Continue
<1> QED BY <1>2, <1>3, <1>4, <1>5, <1>6 DEF DoSystem, Ecall

(* Every way out of defined behaviour, by handler.                          *)
LEMMA UndefinedStep ==
    ASSUME HInv, Next, state' = "undefined", pc % 4 = 0
    PROVE  \/ Executes({"UNASSIGNED"})
           \/ Accesses /\ ~InOneMap(iomaps, AccessAddr, BytesOf(Funct3))
           \/ Executes({"SYSTEM"}) /\ ~WholeBuffer
<1>1. /\ MemoOk(iomaps, memo) /\ Table(iomaps) /\ pc \in Addr /\ Next4 \in Addr
      /\ regs \in [Reg -> Addr] /\ AccessAddr \in Addr
  BY Facts
<1>2. ~Fetch
  <2> DEFINE m == MemoAfter(iomaps, memo, pc)
  <2>1. MemoOk(iomaps, m)
    BY <1>1, LookupIn
  <2>2. OobAddr(iomaps, memo, pc) \/ InBuffer(memo, pc, 4)
    BY <1>1, AlignedInside
  <2>3. ~Backtrace(m, pc, regs, "error")
    BY <1>1, <2>1, BacktraceShows DEF Shown
  <2> HIDE DEF m
  <2>4. Fetch => Backtrace(m, pc, regs, "error")
    BY <2>2 DEF Fetch, m
  <2> QED BY <2>3, <2>4
<1>3. ~Prompt
  <2>1. ASSUME NEW next \in {"execute", "quit", "prompt"}, Backtrace(memo, pc, regs, next)
        PROVE  FALSE
    BY <1>1, <2>1, BacktraceShows DEF Shown
  <2> QED BY <2>1 DEF Prompt
<1>4. Execute
  BY <1>2, <1>3 DEF Next
<1>5. \A at : /\ ~Fail(at, pc, regs, memo) /\ ~Fail(at, Next4, regs, memo)
              /\ ~Fail(at, pc, Linked, memo)
              /\ ~Fail(at, Next4, regs, MemoAfter(iomaps, memo, AccessAddr))
  <2>1. MemoOk(iomaps, MemoAfter(iomaps, memo, AccessAddr))
    BY <1>1, LookupIn
  <2> QED BY <1>1, <2>1, LinkedType, FailDefined
<1>6. /\ \A p : ~Continue(p)
      /\ ~OutOfBounds
  BY DEF Continue, OutOfBounds
<1>7. CASE DoUnassigned
  BY <1>4, <1>7 DEF DoUnassigned, Executes, Execute
<1>8. ~DoOpImm /\ ~DoOp /\ ~DoUpper /\ ~DoMiscMem /\ ~DoNoImpl
  BY <1>5, <1>6 DEF DoOpImm, DoOp, DoUpper, DoMiscMem, DoNoImpl, Ignore, RetireRd, FailBehind,
                    FailHere
<1>9. ~DoBranch /\ ~DoJalr /\ ~DoJal
  BY <1>5, <1>6 DEF DoBranch, DoJalr, DoJal, FailHere
<1>10. CASE DoLoad \/ DoStore
  <2>1. /\ state = "execute"
        /\ \/ inst.op = "LOAD" /\ inst.rd # 0 /\ Overrun(Loads)
           \/ inst.op = "STORE" /\ Overrun(Stores)
    BY <1>4, <1>5, <1>6, <1>10 DEF Execute, DoLoad, DoStore, Ignore, Access, NoAccess
  <2>2. Accesses
    BY <2>1 DEF Accesses, Executes, Overrun
  <2>3. ~OobAddr(iomaps, memo, AccessAddr) /\ ~InBuffer(memo, AccessAddr, BytesOf(Funct3))
        /\ BytesOf(Funct3) \in {1, 2, 4}
    BY <2>1 DEF Overrun, BytesOf, Loads, Stores
  <2>4. ~InOneMap(iomaps, AccessAddr, BytesOf(Funct3))
    BY <1>1, <2>3, BufferMapped
  <2> QED BY <2>2, <2>4
<1>11. CASE DoSystem
  <2>1. Executes({"SYSTEM"})
    BY <1>4, <1>11 DEF Execute, DoSystem, Executes
  <2> QED BY <1>11, <2>1, CallUndefined
<1> QED BY <1>4, <1>7, <1>8, <1>9, <1>10, <1>11 DEF Execute

(* An aligned program leaves the defined only by what it asks for itself.   *)
THEOREM UndefinedOnlyOutside == Spec => DefinedInsideMaps
<1>1. HInv /\ [Next]_vars =>
        [ state' = "undefined" /\ pc % 4 = 0 =>
            \/ Executes({"UNASSIGNED"})
            \/ Accesses /\ ~InOneMap(iomaps, AccessAddr, BytesOf(Funct3))
            \/ /\ Executes({"SYSTEM"})
               /\ \/ ~InOneMap(iomaps, regs[a1], regs[a2])
                  \/ ~ShortWalk(regs[a1], regs[a2]) ]_vars
  BY UndefinedStep DEF WholeBuffer
<1> QED BY <1>1, SpecHInv, PTL DEF Spec, DefinedInsideMaps

-----------------------------------------------------------------------------
(***************************************************************************)
(* What the system calls do to the output and to memory.                   *)
(***************************************************************************)
LEMMA CallStep ==
    ASSUME HInv, Next, NEW n, Calls(n)
    PROVE  /\ n = 1 => Write
           /\ n = 2 => ReadNothing \/ \E input \in Inputs : ReadInput(input)
<1>1. state = "execute" /\ inst.op = "SYSTEM" /\ Plain /\ inst.immd = 0 /\ regs[a0] = n /\ ~noopstub
  BY DEF Calls, Executes
<1>2. DoSystem
  BY <1>1 DEF Next, Fetch, Prompt, Execute, DoOpImm, DoOp, DoUpper, DoMiscMem, DoNoImpl,
              DoUnassigned, DoBranch, DoJalr, DoJal, DoLoad, DoStore, NoImpl
<1>3. Ecall
  BY <1>1, <1>2 DEF DoSystem
<1> QED BY <1>1, <1>3 DEF Ecall

(* Nothing but the write call emits.                                        *)
LEMMA OnlyWriteEmits ==
    ASSUME HInv, Next, output' # output
    PROVE  Calls(1)
<1>1. ~Fetch /\ ~Prompt
  BY DEF Fetch, Prompt
<1>2. Execute
  BY <1>1 DEF Next
<1>3. ~Undefined /\ ~SystemIgnore /\ ~SystemFail
  BY DEF Undefined, SystemIgnore, SystemFail
<1>4. DoSystem
  BY <1>2, <1>3 DEF Execute, DoOpImm, DoOp, DoUpper, DoMiscMem, DoNoImpl,
              DoUnassigned, DoBranch, DoJalr, DoJal, DoLoad, DoStore
<1>5. Plain /\ inst.immd = 0 /\ Ecall
  BY <1>3, <1>4 DEF DoSystem, Ebreak
<1>6. \A input : ~ReadInput(input)
  BY <1>3 DEF ReadInput
<1>7. regs[a0] = 1 /\ ~noopstub
  BY <1>3, <1>5, <1>6 DEF Ecall, Exit, ReadNothing
<1> QED BY <1>2, <1>4, <1>5, <1>7 DEF Calls, Executes, Execute, DoSystem

(* What the write call emits of a buffer in one map.                        *)
LEMMA WriteStep ==
    ASSUME HInv, Next, Calls(1), WholeBuffer
    PROVE  output' = output \o [ i \in 1 .. regs[a2] |-> mem[regs[a1] + i - 1] ]
<1> DEFINE from == regs[a1]
           size == regs[a2]
           room == Contiguous(iomaps, memo, from, Low32(from + size - 1))
           buf == CopyFromGuest(iomaps, room.memo, mem, from, size, BYTE)
<1>1. from \in Addr /\ size \in Nat /\ size \in Addr /\ Table(iomaps) /\ from \in Int
      /\ output \in Seq(0 .. BYTE) /\ from \in Nat /\ MemoOk(iomaps, memo)
  BY Facts, Arguments, AddrType
<1>2. Write
  BY CallStep
<1>3. CASE size = 0
  <2>1. output' = output
    <3>1. SystemIgnore
      BY <1>2, <1>3 DEF Write
    <3> QED BY <3>1 DEF SystemIgnore
  <2>2. [ i \in 1 .. size |-> mem[from + i - 1] ] = << >>
    BY <1>3
  <2>3. output \o << >> = output
    BY <1>1
  <2> QED BY <2>1, <2>2, <2>3
<1>4. CASE size # 0
  <2> DEFINE end == from + size - 1
  <2>1. PICK i \in DOMAIN iomaps : from \in Region(iomaps[i]) /\ end \in Region(iomaps[i])
    BY DEF WholeBuffer, InOneMap
  <2>2. from \in Mapped(iomaps) /\ end \in Addr
    BY <2>1 DEF Mapped, Region
  <2>3. Low32(end) = end /\ ~(end < from) /\ end \in Int
    <3>1. end \in 0 .. WORD - 1 /\ WORD \in Nat
      BY <2>2, WordType DEF Addr
    <3> HIDE DEF end
    <3>2. Low32(end) = end
      BY <3>1, ModBelow DEF Low32
    <3>3. ~(end < from)
      BY <1>1, <1>4 DEF end
    <3> QED BY <3>1, <3>2, <3>3
  <2>4. Reports(iomaps, from, Low32(end), room) /\ MemoOk(iomaps, room.memo)
    BY <1>1, <2>3, RoomMemo
  <2>5. room.bytes # 0
    <3> HIDE DEF room, end, from
    <3> QED BY <2>2, <2>3, <2>4 DEF Reports
  <2>6. Count(size) /\ CopyDefined(iomaps, room.memo, from, size)
    <3> HIDE DEF room
    <3> QED BY <1>1, <2>4, WholeIsDefined DEF WholeBuffer
  <2>7. output' = output \o [ j \in 1 .. size |-> buf[j - 1] ]
    BY <1>2, <1>4, <2>5, <2>6 DEF Write
  <2>8. buf = [ k \in 0 .. size - 1 |-> mem[from + k] ]
    <3> DEFINE m == room.memo
    <3>1. InOneMap(iomaps, from, size) /\ ShortWalk(from, size) /\ MemoOk(iomaps, m)
      BY <2>4 DEF WholeBuffer
    <3>2. from \in Addr /\ size \in Nat /\ Table(iomaps)
      BY <1>1
    <3> HIDE DEF m, from, size
    <3>3. CopyFromGuest(iomaps, m, mem, from, size, BYTE) = [ k \in 0 .. size - 1 |-> mem[from + k] ]
      BY <3>1, <3>2, OneMapCopyOut
    <3> QED BY <3>3 DEF m
  <2>9. \A j \in 1 .. size : buf[j - 1] = mem[from + j - 1]
    <3>1. \A j \in 1 .. size : j - 1 \in 0 .. size - 1 /\ from + (j - 1) = from + j - 1
      BY <1>1
    <3> HIDE DEF buf
    <3> QED BY <2>8, <3>1
  <2>10. [ j \in 1 .. size |-> buf[j - 1] ] = [ j \in 1 .. size |-> mem[from + j - 1] ]
    <3> HIDE DEF buf, from, size
    <3> QED BY <2>9
  <2> QED BY <2>7, <2>10
<1> QED BY <1>3, <1>4

(* The write call emits what the guest holds in its buffer, and nothing     *)
(* else ever emits.                                                         *)
THEOREM WritesTheGuestBytes == Spec => WritesWhatIsThere
<1>1. HInv /\ [Next]_vars =>
        [ LET whole == InOneMap(iomaps, regs[a1], regs[a2]) /\ ShortWalk(regs[a1], regs[a2])
          IN  IF Calls(1)
              THEN whole => output' = output \o [ i \in 1 .. regs[a2] |-> mem[regs[a1] + i - 1] ]
              ELSE output' = output ]_vars
  BY WriteStep, OnlyWriteEmits DEF WholeBuffer
<1> QED BY <1>1, SpecHInv, PTL DEF Spec, WritesWhatIsThere

(* A read that returns has put its count in a0 and its bytes in the buffer. *)
LEMMA ReadStep ==
    ASSUME HInv, NEW input \in Inputs, ReadInput(input), mem' # mem
    PROVE  /\ Signed(regs'[a0]) =< Signed(regs[a2])
           /\ \A x \in DOMAIN mem : mem'[x] # mem[x] =>
                 regs[a1] =< x /\ x < regs[a1] + regs'[a0]
<1> DEFINE to    == regs[a1]
           count == ReadCount(Len(input), regs[a2])
           room  == Contiguous(iomaps, memo, to, Low32(to + count))
           bytes == [ k \in 0 .. Len(input) - 1 |-> input[k + 1] ]
<1>1. to \in Addr /\ Table(iomaps) /\ a0 \in Reg \ {0} /\ regs[a2] \in Addr
      /\ mem \in [Mapped(iomaps) -> Byte] /\ regs \in [Reg -> Addr] /\ to \in Int
  BY Facts, Arguments, AddrType
<1>2. Len(input) \in Nat
  BY BytesAssumption
<1>3. /\ count \in Addr /\ count \in Nat
      /\ count < HALF => Signed(count) =< Signed(regs[a2])
  BY <1>1, <1>2, ReadCountType
<1>4. /\ Count(count) /\ CopyDefined(iomaps, room.memo, to, count)
      /\ regs' = [regs EXCEPT ![a0] = count]
      /\ mem' = CopyFromHost(iomaps, room.memo, mem, to, bytes, count)
  BY DEF ReadInput, Undefined
<1> HIDE DEF count, bytes
<1>5. MemoOk(iomaps, room.memo)
  <2>1. to + count \in Int
    BY <1>1, <1>3
  <2> QED BY <1>1, <2>1, RoomMemo
<1>6. count < HALF /\ regs'[a0] = count
  BY <1>1, <1>4 DEF Count
<1>7. Mapped(iomaps) \subseteq Nat
  BY AddrType DEF Mapped, Region
<1> HIDE DEF room, to
<1>8. ASSUME NEW x \in Mapped(iomaps), mem'[x] # mem[x]
      PROVE  to =< x /\ x < to + count
  BY <1>1, <1>3, <1>4, <1>5, <1>6, <1>7, <1>8, CopyFromHostInRange
<1>9. DOMAIN mem = Mapped(iomaps)
  BY <1>1
<1> QED BY <1>3, <1>6, <1>8, <1>9 DEF to

(* A read changes no byte outside the count it returns, which is no more    *)
(* than it was asked for, as signed numbers.                                *)
THEOREM ReadsStayInTheirBuffer == Spec => ReadsNoMoreThanAsked
<1>1. HInv /\ [Next]_vars =>
        [ Calls(2) /\ mem' # mem =>
            /\ Signed(regs'[a0]) =< Signed(regs[a2])
            /\ \A x \in DOMAIN mem : mem'[x] # mem[x] =>
                  regs[a1] =< x /\ x < regs[a1] + regs'[a0] ]_vars
  <2> SUFFICES ASSUME HInv, Next, Calls(2), mem' # mem
               PROVE  /\ Signed(regs'[a0]) =< Signed(regs[a2])
                      /\ \A x \in DOMAIN mem : mem'[x] # mem[x] =>
                            regs[a1] =< x /\ x < regs[a1] + regs'[a0]
    OBVIOUS
  <2>1. ReadNothing \/ \E input \in Inputs : ReadInput(input)
    BY CallStep
  <2>2. ~ReadNothing
    BY DEF ReadNothing
  <2> QED BY <2>1, <2>2, ReadStep
<1> QED BY <1>1, SpecHInv, PTL DEF Spec, ReadsNoMoreThanAsked

-----------------------------------------------------------------------------
(***************************************************************************)
(* The executor implements the guest machine: a step that leaves the loop  *)
(* is a Stop, one that goes on is one of its instructions, or the fetch,   *)
(* the prompt or a redraw, which the guest does not see.                   *)
(***************************************************************************)
OneRegister == \E r \in Reg \ {0} : \A q \in Reg \ {r} : regs'[q] = regs[q]

(* GuestMachine's effect on the registers: one is set ...                   *)
LEMMA RegisterSet ==
    ASSUME HInv, NEW r \in Reg \ {0}, NEW v, regs' = [regs EXCEPT ![r] = v]
    PROVE  OneRegister
<1>1. DOMAIN regs = Reg
  BY Facts
<1>2. \A q \in Reg \ {r} : regs'[q] = regs[q]
  BY <1>1
<1> QED BY <1>2 DEF OneRegister

(* ... or none is ...                                                       *)
LEMMA RegistersKept ==
    ASSUME UNCHANGED regs
    PROVE  OneRegister
<1>1. 1 \in Reg \ {0}
  BY DEF Reg
<1> QED BY <1>1 DEF OneRegister

(* ... or the link is.                                                      *)
LEMMA RegisterLinked ==
    ASSUME HInv, regs' = Linked
    PROVE  OneRegister
<1>1. CASE inst.rd = 0
  BY <1>1, RegistersKept DEF Linked
<1>2. CASE inst.rd # 0
  <2>1. inst.rd \in Reg \ {0}
    BY <1>2, Facts
  <2> QED BY <1>2, <2>1, RegisterSet DEF Linked
<1> QED BY <1>1, <1>2

Stops == state' \in Stopped => OneRegister /\ UNCHANGED << mem, output >>

(* A handler that continues does not stop the machine.                      *)
LEMMA ContinueRuns ==
    ASSUME NEW p, Continue(p)
    PROVE  state' \notin Stopped
BY DEF Continue, Stopped

(* A read changes no register but a0.                                       *)
LEMMA CountReturned ==
    ASSUME HInv, NEW input \in Inputs, ReadInput(input), regs' # regs
    PROVE  \E v : regs' = [regs EXCEPT ![a0] = v]
<1> DEFINE count == ReadCount(Len(input), regs[a2])
<1>1. regs' = [regs EXCEPT ![a0] = count]
  BY DEF ReadInput, Undefined, Fail
<1> HIDE DEF count
<1> QED BY <1>1

(* A stop is final.                                                         *)
LEMMA OnlyFromRunning ==
    ASSUME Next
    PROVE  state \notin Stopped
BY DEF Next, Fetch, Prompt, Execute, Stopped

(* A step that stops leaves what GuestMachine's Stop leaves.                *)
LEMMA StopStep ==
    ASSUME HInv, Next
    PROVE  Stops
<1> USE DEF Stops
<1>1. CASE Fetch \/ Prompt
  <2>1. UNCHANGED << regs, mem, output >>
    BY <1>1 DEF Fetch, Prompt
  <2> QED BY <2>1, RegistersKept
<1>2. CASE DoOpImm \/ DoOp \/ DoUpper \/ DoMiscMem \/ DoNoImpl \/ DoUnassigned
  <2>1. \/ UNCHANGED << regs, mem, output >>
        \/ Continue(Next4)
    BY <1>2 DEF DoOpImm, DoOp, DoUpper, DoMiscMem, DoNoImpl, DoUnassigned, Ignore, RetireRd,
                FailBehind, FailHere, Fail, Undefined
  <2> QED BY <2>1, RegistersKept, ContinueRuns
<1>3. CASE DoBranch \/ DoJalr \/ DoJal
  <2>1. UNCHANGED << mem, output >>
    BY <1>3 DEF DoBranch, DoJalr, DoJal
  <2>2. UNCHANGED regs \/ regs' = Linked
    BY <1>3 DEF DoBranch, DoJalr, DoJal, FailHere, Fail
  <2> QED BY <2>1, <2>2, RegistersKept, RegisterLinked
<1>4. CASE DoLoad \/ DoStore
  <2>1. \/ UNCHANGED << regs, mem, output >>
        \/ Continue(Next4)
    BY <1>4 DEF DoLoad, DoStore, Ignore, OutOfBounds, Access, Overrun, NoAccess, Fail, Undefined
  <2> QED BY <2>1, RegistersKept, ContinueRuns
<1>5. CASE DoSystem
  <2>1. CASE SystemFail \/ Ebreak \/ Exit \/ SystemIgnore \/ ReadNothing
    <3>1. UNCHANGED << regs, mem, output >>
      BY <2>1 DEF SystemFail, FailBehind, Fail, Ebreak, Exit, SystemIgnore, Ignore, ReadNothing
    <3> QED BY <3>1, RegistersKept
  <2>2. CASE Write
    <3>1. \/ UNCHANGED << regs, mem, output >>
          \/ Continue(Next4)
      BY <2>2 DEF Write, SystemIgnore, Ignore, Fail, Undefined
    <3> QED BY <3>1, RegistersKept, ContinueRuns
  <2>3. ASSUME NEW input \in Inputs, ReadInput(input) PROVE Stops
    <3>1. OneRegister
      <4>1. a0 \in Reg \ {0}
        BY Arguments
      <4> QED BY <2>3, <4>1, CountReturned, RegisterSet, RegistersKept
    <3>2. UNCHANGED << mem, output >> \/ Continue(Next4)
      BY <2>3 DEF ReadInput, Undefined
    <3> QED BY <3>1, <3>2, ContinueRuns
  <2> QED BY <1>5, <2>1, <2>2, <2>3 DEF DoSystem, Ecall
<1> QED BY <1>1, <1>2, <1>3, <1>4, <1>5 DEF Next, Execute

(* The instructions, as the guest machine has them.                         *)
MovesOn == pc' = (pc + 4) % WORD

Computes ==
    OneRegister /\ pc' \in Addr /\ UNCHANGED << mem, output >>

BytesFrom(from, n) ==
    /\ DOMAIN mem' = DOMAIN mem
    /\ \A x \in DOMAIN mem : mem'[x] # mem[x] => from =< x /\ x < from + n

Stores4 ==
    /\ \E from \in DOMAIN mem : BytesFrom(from, 4)
    /\ MovesOn /\ UNCHANGED << regs, output >>

Writes ==
    /\ Len(output') = Len(output) + regs[12]
    /\ \A i \in DOMAIN output' :
          output'[i] \in IF i =< Len(output) THEN {output[i]} ELSE 0 .. BYTE
    /\ MovesOn /\ UNCHANGED << regs, mem >>

Reads ==
    /\ \A q \in Reg \ {10} : regs'[q] = regs[q]
    /\ BytesFrom(regs[11], regs'[10])
    /\ MovesOn /\ UNCHANGED output

Runs ==
    state' \notin Stopped =>
        \/ UNCHANGED << pc, regs, mem, output >>
        \/ Computes \/ Stores4 \/ Writes \/ Reads

(* Moving to the next instruction.                                          *)
LEMMA NextMovesOn ==
    ASSUME NEW p, p = Next4, Continue(p)
    PROVE  MovesOn
BY DEF Continue, Next4, Low32, MovesOn

(* No step changes which addresses there are.                               *)
LEMMA SameBytes ==
    ASSUME HInv, HInv', UNCHANGED fixed
    PROVE  DOMAIN mem' = DOMAIN mem /\ DOMAIN mem = Mapped(iomaps) /\ pc' \in Addr
<1>1. iomaps' = iomaps
  BY DEF fixed
<1>2. mem \in [Mapped(iomaps) -> Byte]
  BY DEF HInv, TypeOK
<1>3. mem' \in [Mapped(iomaps)' -> Byte] /\ pc' \in Addr
  BY DEF HInv, TypeOK
<1>4. mem' \in [Mapped(iomaps) -> Byte]
  BY <1>1, <1>3
<1> QED BY <1>2, <1>3, <1>4

(* A handler that ends in no memory and no output computes.                 *)
LEMMA ComputeRuns ==
    ASSUME HInv, pc' \in Addr, DoOpImm \/ DoOp \/ DoUpper \/ DoMiscMem \/ DoNoImpl
                               \/ DoUnassigned \/ DoBranch \/ DoJalr \/ DoJal
    PROVE  Runs
<1>1. inst.rd \in Reg
  BY Facts
<1>2. ASSUME NEW v, inst.rd # 0, RetireRd(v) PROVE OneRegister
  BY <1>1, <1>2, RegisterSet DEF RetireRd
<1>3. ASSUME Ignore PROVE OneRegister
  BY <1>3, RegistersKept DEF Ignore
<1>4. ASSUME NEW at, NEW p, Fail(at, p, regs, memo) PROVE OneRegister
  BY <1>4, RegistersKept DEF Fail
<1>5. CASE DoUnassigned
  BY <1>5 DEF DoUnassigned, Undefined, Runs
<1>6. CASE DoOpImm \/ DoOp \/ DoUpper \/ DoMiscMem \/ DoNoImpl
  <2>1. UNCHANGED << mem, output >>
    BY <1>6 DEF DoOpImm, DoOp, DoUpper, DoMiscMem, DoNoImpl
  <2>2. OneRegister
    BY <1>2, <1>3, <1>4, <1>6 DEF DoOpImm, DoOp, DoUpper, DoMiscMem, DoNoImpl, FailBehind, FailHere
  <2> QED BY <2>1, <2>2 DEF Runs, Computes
<1>7. CASE DoBranch \/ DoJalr \/ DoJal
  <2>1. UNCHANGED << mem, output >>
    BY <1>7 DEF DoBranch, DoJalr, DoJal
  <2>2. UNCHANGED regs \/ regs' = Linked
    BY <1>7 DEF DoBranch, DoJalr, DoJal, FailHere, Fail
  <2> QED BY <2>1, <2>2, RegistersKept, RegisterLinked DEF Runs, Computes
<1> QED BY <1>5, <1>6, <1>7

(* A load is one effect of GuestMachine: a register.                        *)
LEMMA LoadRuns ==
    ASSUME HInv, pc' \in Addr, DoLoad
    PROVE  Runs
<1>1. UNCHANGED << mem, output >>
  BY DEF DoLoad
<1>2. OneRegister
  <2>1. \/ UNCHANGED regs
        \/ inst.rd # 0 /\ regs' = [regs EXCEPT ![inst.rd] = Loaded(AccessAddr)]
    BY DEF DoLoad, Ignore, OutOfBounds, Overrun, Undefined, NoAccess, Fail
  <2> QED BY <2>1, Facts, RegistersKept, RegisterSet
<1> QED BY <1>1, <1>2 DEF Runs, Computes

(* A store is one: at most four bytes from the address it names.            *)
LEMMA StoreRuns ==
    ASSUME HInv, DOMAIN mem' = DOMAIN mem, DOMAIN mem = Mapped(iomaps), pc' \in Addr, DoStore
    PROVE  Runs
<1>1. CASE OutOfBounds \/ Overrun(Stores)
  BY <1>1 DEF OutOfBounds, Overrun, Undefined, Runs, Stopped
<1>2. CASE NoAccess(Stores) /\ UNCHANGED mem
  <2>1. UNCHANGED << regs, mem, output >>
    BY <1>2 DEF NoAccess, Fail, DoStore
  <2> QED BY <2>1, RegistersKept DEF Runs, Computes
<1>3. CASE Access(Stores) /\ mem' = Stored(AccessAddr, BytesOf(Funct3), Rs2) /\ UNCHANGED regs
  <2>1. /\ Continue(Next4) /\ BytesOf(Funct3) \in {1, 2, 4}
        /\ \A x \in AccessAddr .. AccessAddr + BytesOf(Funct3) - 1 : x \in Mapped(iomaps)
    BY <1>3, AccessMoves
  <2>2. AccessAddr \in Nat
    BY Facts, AddrType
  <2>3. AccessAddr \in DOMAIN mem
    <3>1. AccessAddr \in AccessAddr .. AccessAddr + BytesOf(Funct3) - 1
      BY <2>1, <2>2
    <3> QED BY <2>1, <3>1
  <2>4. \A x \in DOMAIN mem : mem'[x] # mem[x] =>
            AccessAddr =< x /\ x < AccessAddr + BytesOf(Funct3)
    BY <1>3 DEF Stored
  <2>5. \A x \in DOMAIN mem : x \in Nat
    BY AddrType DEF Mapped, Region
  <2>6. BytesFrom(AccessAddr, 4)
    BY <2>1, <2>2, <2>4, <2>5 DEF BytesFrom
  <2>7. UNCHANGED << regs, output >>
    BY <1>3 DEF DoStore
  <2> QED BY <2>1, <2>3, <2>6, <2>7, NextMovesOn DEF Runs, Stores4
<1> QED BY <1>1, <1>2, <1>3 DEF DoStore

(* Sequences put together keep the first and add elements of the second's   *)
(* set.                                                                     *)
LEMMA Appended ==
    ASSUME NEW S, NEW u \in Seq(S), NEW v \in Seq(S), NEW w, w = u \o v
    PROVE  /\ Len(w) = Len(u) + Len(v)
           /\ \A i \in DOMAIN w : w[i] \in IF i =< Len(u) THEN {u[i]} ELSE S
<1>1. Len(u) \in Nat /\ Len(v) \in Nat
  OBVIOUS
<1>2. Len(w) = Len(u) + Len(v)
  OBVIOUS
<1>3. \A i \in 1 .. Len(w) : w[i] = IF i =< Len(u) THEN u[i] ELSE v[i - Len(u)]
  BY <1>1, <1>2
<1>4. \A i \in 1 .. Len(w) : ~(i =< Len(u)) => i - Len(u) \in 1 .. Len(v)
  BY <1>1, <1>2
<1>5. \A k \in 1 .. Len(v) : v[k] \in S
  OBVIOUS
<1>6. DOMAIN w = 1 .. Len(w)
  OBVIOUS
<1> QED BY <1>2, <1>3, <1>4, <1>5, <1>6

(* The write call is one: output is appended.                               *)
LEMMA WriteRuns ==
    ASSUME HInv, pc' \in Addr, Write
    PROVE  Runs
<1> DEFINE from == regs[a1]
           size == regs[a2]
           room == Contiguous(iomaps, memo, from, Low32(from + size - 1))
           buf == CopyFromGuest(iomaps, room.memo, mem, from, size, BYTE)
           new == [ i \in 1 .. size |-> buf[i - 1] ]
<1>1. from \in Addr /\ size \in Nat /\ Table(iomaps)
      /\ mem \in [Mapped(iomaps) -> Byte] /\ output \in Seq(0 .. BYTE)
  BY Facts, Arguments
<1>2. MemoOk(iomaps, room.memo)
  <2>1. from + size - 1 \in Int
    BY <1>1, AddrType
  <2> QED BY <1>1, <2>1, RoomMemo
<1>3. \/ UNCHANGED << regs, mem, output >>
      \/ /\ CopyDefined(iomaps, room.memo, from, size)
         /\ output' = output \o new
         /\ Continue(Next4) /\ UNCHANGED << regs, mem >>
  BY DEF Write, SystemIgnore, Ignore, Fail, Undefined
<1>4. CASE UNCHANGED << regs, mem, output >>
  BY <1>4, RegistersKept DEF Runs, Computes
<1>5. CASE /\ CopyDefined(iomaps, room.memo, from, size)
           /\ output' = output \o new
           /\ Continue(Next4) /\ UNCHANGED << regs, mem >>
  <2>1. \A k \in 0 .. size - 1 : buf[k] \in Byte \cup {BYTE}
    <3> HIDE DEF room, from, size
    <3> QED BY <1>1, <1>2, <1>5, CopyFromGuestTyped
  <2>2. Byte \cup {BYTE} \subseteq 0 .. BYTE
    BY ByteType DEF Byte
  <2>3. \A i \in 1 .. size : i - 1 \in 0 .. size - 1
    BY <1>1
  <2>4. \A i \in 1 .. size : buf[i - 1] \in 0 .. BYTE
    <3> HIDE DEF buf, size
    <3> QED BY <2>1, <2>2, <2>3
  <2>5. new \in Seq(0 .. BYTE) /\ Len(new) = size
    <3> HIDE DEF buf, size
    <3> QED BY <1>1, <2>4
  <2>6. size = regs[12]
    BY DEF a2
  <2> HIDE DEF new, size
  <2>7. output' = output \o new
    BY <1>5
  <2>8. Len(output') = Len(output) + size
    <3>1. output \in Seq(0 .. BYTE)
      BY <1>1
    <3>2. new \in Seq(0 .. BYTE)
      BY <2>5
    <3>3. Len(output') = Len(output) + Len(new)
      BY <2>7, <3>1, <3>2, Appended
    <3> QED BY <2>5, <3>3
  <2>9. \A i \in DOMAIN output' :
           output'[i] \in IF i =< Len(output) THEN {output[i]} ELSE 0 .. BYTE
    BY <1>1, <2>5, <2>7, Appended
  <2> QED BY <1>5, <2>6, <2>8, <2>9, NextMovesOn DEF Runs, Writes
<1> QED BY <1>3, <1>4, <1>5

(* The read call is one: bytes in its range, and the count.                 *)
LEMMA ReadRuns ==
    ASSUME HInv, DOMAIN mem' = DOMAIN mem, pc' \in Addr, NEW input \in Inputs, ReadInput(input)
    PROVE  Runs
<1>1. a0 \in Reg \ {0} /\ a0 = 10 /\ a1 = 11
  BY Arguments DEF a0, a1
<1>2. \A q \in Reg \ {10} : regs'[q] = regs[q]
  <2>1. CASE regs' = regs
    BY <2>1
  <2>2. CASE regs' # regs
    <3>1. PICK v : regs' = [regs EXCEPT ![a0] = v]
      BY <2>2, CountReturned
    <3>2. DOMAIN regs = Reg
      BY Facts
    <3> QED BY <1>1, <3>1, <3>2
  <2> QED BY <2>1, <2>2
<1>3. CASE UNCHANGED << mem, output >>
  <2>1. OneRegister
    BY <1>1, <1>2 DEF OneRegister
  <2> QED BY <1>3, <2>1 DEF Runs, Computes
<1>4. CASE ~UNCHANGED << mem, output >>
  <2>1. Continue(Next4) /\ UNCHANGED output
    BY <1>4 DEF ReadInput, Undefined
  <2>2. mem' # mem
    BY <1>4, <2>1
  <2>3. BytesFrom(regs[11], regs'[10])
    BY <1>1, <2>2, ReadStep DEF BytesFrom
  <2> QED BY <1>2, <2>1, <2>3, NextMovesOn DEF Runs, Reads
<1> QED BY <1>3, <1>4

(* Every system call is one of them or moves on.                            *)
LEMMA SystemRuns ==
    ASSUME HInv, DOMAIN mem' = DOMAIN mem, pc' \in Addr, DoSystem
    PROVE  Runs
<1>1. CASE SystemFail \/ Ebreak \/ Exit \/ SystemIgnore \/ ReadNothing
  <2>1. UNCHANGED << regs, mem, output >>
    BY <1>1 DEF SystemFail, FailBehind, Fail, Ebreak, Exit, SystemIgnore, Ignore, ReadNothing
  <2> QED BY <2>1, RegistersKept DEF Runs, Computes
<1> QED BY <1>1, WriteRuns, ReadRuns DEF DoSystem, Ecall

(* Every step that does not stop is one effect of an instruction, or none.  *)
LEMMA RunStep ==
    ASSUME HInv, HInv', Next
    PROVE  Runs
<1>1. UNCHANGED fixed
  BY DEF Next, Fetch, Prompt, Execute
<1>2. DOMAIN mem' = DOMAIN mem /\ DOMAIN mem = Mapped(iomaps) /\ pc' \in Addr
  BY <1>1, SameBytes
<1>3. CASE Fetch \/ Prompt
  BY <1>3 DEF Fetch, Prompt, Runs
<1>4. CASE Execute
  BY <1>2, <1>4, ComputeRuns, LoadRuns, StoreRuns, SystemRuns DEF Execute
<1> QED BY <1>3, <1>4 DEF Next

(* The memory that Init leaves is a part of the addresses.                  *)
LEMMA InitRefines ==
    ASSUME Init
    PROVE  GuestMachineSpec!Init
<1>1. HInv
  BY InitHInv
<1>2. pc \in Addr /\ mem \in [Mapped(iomaps) -> Byte]
  BY <1>1, Facts
<1>3. state \notin Stopped
  BY DEF Init, Stopped
<1>4. DOMAIN mem \subseteq Addr
  BY <1>2 DEF Mapped, Region
<1>5. regs = [ r \in Reg |-> 0 ] /\ output = << >>
  BY DEF Init
<1> QED BY <1>2, <1>3, <1>4, <1>5 DEF GuestMachineSpec!Init, GuestMachineSpec!Addr, Addr

(* A step of the executor is a step of GuestMachine or leaves what it sees  *)
(* alone.                                                                   *)
LEMMA StepRefines ==
    ASSUME HInv, HInv', [Next]_vars
    PROVE  [GuestMachineSpec!Next]_GuestMachineSpec!gmvars
<1> USE DEF GuestMachineSpec!gmvars
<1>1. CASE UNCHANGED vars
  BY <1>1 DEF vars
<1>2. CASE Next /\ state' \in Stopped
  <2>1. state \notin Stopped /\ OneRegister /\ UNCHANGED << mem, output >>
    BY <1>2, OnlyFromRunning, StopStep DEF Stops
  <2>2. GuestMachineSpec!Stop
    BY <1>2, <2>1 DEF GuestMachineSpec!Stop, GuestMachineSpec!OnlyRegister, OneRegister
  <2> QED BY <2>2 DEF GuestMachineSpec!Next
<1>3. CASE Next /\ state' \notin Stopped
  <2>1. state \notin Stopped /\ Runs
    BY <1>3, OnlyFromRunning, RunStep
  <2>2. (state' \notin Stopped) = (state \notin Stopped)
    BY <1>3, <2>1
  <2>3. CASE UNCHANGED << pc, regs, mem, output >>
    BY <2>2, <2>3
  <2>4. CASE Computes
    <3>1. GuestMachineSpec!Compute
      BY <2>4 DEF Computes, OneRegister, GuestMachineSpec!Compute, GuestMachineSpec!OnlyRegister,
                  GuestMachineSpec!Addr, Addr
    <3> QED BY <2>1, <2>2, <3>1 DEF GuestMachineSpec!Next, GuestMachineSpec!Instruction
  <2>5. CASE Stores4
    <3>1. GuestMachineSpec!Store
      BY <2>5 DEF Stores4, BytesFrom, MovesOn, GuestMachineSpec!Store, GuestMachineSpec!OnlyBytes,
                  GuestMachineSpec!Onwards
    <3> QED BY <2>1, <2>2, <3>1 DEF GuestMachineSpec!Next, GuestMachineSpec!Instruction
  <2>6. CASE Writes
    <3>1. GuestMachineSpec!Write
      BY <2>6 DEF Writes, MovesOn, GuestMachineSpec!Write, GuestMachineSpec!Onwards
    <3> QED BY <2>1, <2>2, <3>1 DEF GuestMachineSpec!Next, GuestMachineSpec!Instruction
  <2>7. CASE Reads
    <3>1. GuestMachineSpec!Read
      BY <2>7 DEF Reads, BytesFrom, MovesOn, GuestMachineSpec!Read, GuestMachineSpec!OnlyRegister,
                  GuestMachineSpec!OnlyBytes, GuestMachineSpec!Onwards
    <3> QED BY <2>1, <2>2, <3>1 DEF GuestMachineSpec!Next, GuestMachineSpec!Instruction
  <2> QED BY <1>3, <2>1, <2>3, <2>4, <2>5, <2>6, <2>7 DEF Runs
<1> QED BY <1>1, <1>2, <1>3

(* Every behaviour of the executor, with the debugger or without, is one of *)
(* the guest machine: instructions with one effect each, until a stop that  *)
(* is final.                                                                *)
THEOREM GuestSeesInstructionsOnly == Spec => ImplementsGuestMachine
<1>1. Init => GuestMachineSpec!Init
  BY InitRefines
<1>2. HInv /\ HInv' /\ [Next]_vars => [GuestMachineSpec!Next]_GuestMachineSpec!gmvars
  BY StepRefines
<1> QED BY <1>1, <1>2, SpecHInv, PTL DEF Spec, ImplementsGuestMachine, GuestMachineSpec!Spec
=============================================================================
