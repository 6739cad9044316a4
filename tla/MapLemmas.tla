----------------------------- MODULE MapLemmas -----------------------------
(***************************************************************************)
(* Lemmas about the address map and the transfers through it, for the      *)
(* proofs of the modules that use them: what a table built from an         *)
(* accepted command line looks like, what a lookup finds and leaves in the *)
(* memo, what rv32i_mem_contiguous reports, and which bytes a transfer     *)
(* reaches.                                                                *)
(***************************************************************************)
EXTENDS Transfers, FiniteSetTheorems, TLAPS

(***************************************************************************)
(* Arithmetic of machine words.                                            *)
(***************************************************************************)
LEMMA DivMod ==
    ASSUME NEW a \in Nat, NEW w \in Nat, 0 < w
    PROVE  /\ a \div w \in Nat /\ a % w \in 0 .. w - 1
           /\ a = w * (a \div w) + (a % w)
    OBVIOUS

(* Division and remainder of any integer, as the machine's words need it.   *)
LEMMA DivModInt ==
    ASSUME NEW a \in Int, NEW w \in Nat, 0 < w
    PROVE  /\ a \div w \in Int /\ a % w \in 0 .. w - 1
           /\ a = w * (a \div w) + (a % w)
    OBVIOUS

(* There is one quotient and one remainder.                                 *)
LEMMA DivModUnique ==
    ASSUME NEW w \in Nat, 0 < w, NEW p \in Int, NEW q \in Int,
           NEW r \in 0 .. w - 1, NEW s \in 0 .. w - 1, w * p + r = w * q + s
    PROVE  p = q /\ r = s
<1>1. ASSUME NEW d \in Int, d > 0 PROVE w * d >= w
  BY <1>1
<1>2. ~(p - q > 0)
  <2>1. SUFFICES ASSUME p - q > 0 PROVE FALSE
    OBVIOUS
  <2>2. w * (p - q) >= w /\ w * (p - q) = s - r
    BY <1>1, <2>1
  <2> QED
    BY <2>2
<1>3. ~(q - p > 0)
  <2>1. SUFFICES ASSUME q - p > 0 PROVE FALSE
    OBVIOUS
  <2>2. w * (q - p) >= w /\ w * (q - p) = r - s
    BY <1>1, <2>1
  <2> QED
    BY <2>2
<1>4. p = q
  BY <1>2, <1>3
<1> QED
  BY <1>4

(* A remainder is what is left after multiples of the divisor.              *)
LEMMA ModIs ==
    ASSUME NEW w \in Nat, 0 < w, NEW q \in Int, NEW r \in 0 .. w - 1
    PROVE  (w * q + r) % w = r
<1> DEFINE a == w * q + r
<1>1. a \in Int
  OBVIOUS
<1> HIDE DEF a
<1>2. a \div w \in Int /\ a % w \in 0 .. w - 1 /\ a = w * (a \div w) + (a % w)
  BY <1>1, DivModInt
<1>3. w * q + r = w * (a \div w) + (a % w)
  BY <1>2 DEF a
<1>4. r = a % w
  BY <1>2, <1>3, DivModUnique, ZenonT(40)
<1> QED
  BY <1>4 DEF a

(* A number just below zero wraps once.                                     *)
LEMMA ModBorrow ==
    ASSUME NEW w \in Nat, 0 < w, NEW a \in -w .. -1
    PROVE  a % w = a + w
    OBVIOUS

(* A number that fits is its own remainder.                                 *)
LEMMA ModBelow ==
    ASSUME NEW w \in Nat, NEW a \in 0 .. w - 1
    PROVE  a % w = a
    OBVIOUS

(* The width of an address.                                                 *)
LEMMA WordType == WORD \in Nat /\ 0 < WORD /\ WORD = 2 * HALF /\ HALF < WORD
    BY WidthAssumption DEF WORD

(* Addresses are small naturals.                                            *)
LEMMA AddrType == \A a \in Addr : a \in Int /\ a \in Nat /\ 0 =< a /\ a < WORD
    BY WordType DEF Addr

(* A conversion to 32 bits of a positive multiple of PAGE is 0 or a page   *)
(* at least, never more than the number.                                   *)
LEMMA Low32Pages ==
    ASSUME NEW n \in Nat, Multiple(n, PAGE)
    PROVE  /\ Low32(n) \in Addr /\ Low32(n) =< n
           /\ Low32(n) = 0 \/ Low32(n) >= PAGE
<1> DEFINE d == n \div WORD
           s == n % WORD
<1>1. /\ d \in Nat /\ s \in 0 .. WORD - 1 /\ n = WORD * d + s
  BY DivMod, WordType
<1>2. PICK k \in 0 .. n : n = k * PAGE
  BY DEF Multiple
<1>3. PICK q \in Nat : WORD = q * PAGE
  <2>1. HALF = PAGE * (HALF \div PAGE) /\ HALF \div PAGE \in Nat
    BY DivMod, WidthAssumption
  <2>2. WORD = (2 * (HALF \div PAGE)) * PAGE
    BY <2>1, WordType, WidthAssumption
  <2> QED BY <2>1, <2>2
<1>4. s = (k - q * d) * PAGE
  BY <1>1, <1>2, <1>3, WidthAssumption
<1>5. s = 0 \/ s >= PAGE
  <2>1. k - q * d \in Int
    BY <1>1, <1>2, <1>3
  <2>2. ASSUME NEW x \in Int, 0 < x * PAGE PROVE x * PAGE >= PAGE
    BY <2>2, WidthAssumption
  <2> QED BY <1>1, <1>4, <2>1, <2>2
<1>6. s =< n
  <2>1. WORD * d >= 0 BY <1>1, WordType
  <2> QED BY <1>1, <2>1, WordType
<1> QED BY <1>1, <1>5, <1>6 DEF Low32, Addr

(* An accepted size ends below the last half word of size_t. *)
LEMMA NoSizetWrap ==
    ASSUME NEW a \in 0 .. HALF - 1, NEW n \in 0 .. SIZET - 1, ~Negative(n), 0 < n
    PROVE  (a + n - 1) % SIZET = a + n - 1
<1> DEFINE d == n \div WORD
           s == n % WORD
           m == SIZET \div WORD
<1>1. /\ d \in Nat /\ s \in 0 .. WORD - 1 /\ n = WORD * d + s
  BY DivMod, WordType, WidthAssumption
<1>2. s < HALF
  BY <1>1, WidthAssumption DEF Negative, Low32
<1>3. m \in Nat /\ SIZET = WORD * m
  BY DivMod, WordType, WidthAssumption DEF WORD
<1>4. d + 1 =< m
  <2>1. WORD * d < WORD * m
    BY <1>1, <1>3, WordType, WidthAssumption
  <2> QED BY <2>1, <1>1, <1>3, WordType
<1>5. WORD * d + WORD =< SIZET
  <2>1. WORD * (d + 1) =< WORD * m
    <3>1. ASSUME NEW x \in Nat, NEW y \in Nat, x =< y PROVE WORD * x =< WORD * y
      BY <3>1, WordType
    <3> HIDE DEF d, m
    <3> QED BY <3>1, <1>1, <1>3, <1>4
  <2>2. WORD * (d + 1) = WORD * d + WORD
    BY <1>1, WordType
  <2> QED BY <2>1, <2>2, <1>1, <1>3, WordType
<1>6. a + n - 1 \in 0 .. SIZET - 1
  BY <1>1, <1>2, <1>5, WordType, WidthAssumption
<1> QED BY <1>6, ModBelow, WidthAssumption

(***************************************************************************)
(* The table.                                                              *)
(***************************************************************************)
RowsBounded(T) ==
    \A i \in DOMAIN T : /\ T[i].start_addr < HALF /\ T[i].start_addr % BLOCK = 0
                        /\ T[i].size < HALF
                        /\ T[i].size = 0 \/ T[i].size >= PAGE

RowsDisjoint(T) ==
    \A i, j \in DOMAIN T :
        i # j => \/ T[i].start_addr + T[i].size =< T[j].start_addr
                 \/ T[j].start_addr + T[j].size =< T[i].start_addr

TableInv(T) == RowsBounded(T) /\ RowsDisjoint(T)

(* Inside the bounds the parser sets, the 32-bit sum of a lookup is exact. *)
LEMMA CoversRegion ==
    ASSUME NEW map \in IoMap, map.start_addr < HALF, map.size < HALF, NEW a \in Addr
    PROVE  Covers(map, a) <=> /\ map.start_addr =< a
                              /\ a < map.start_addr + map.size
<1>1. map.size + map.start_addr \in 0 .. WORD - 1
  BY WordType, WidthAssumption DEF IoMap, Addr
<1>2. Low32(map.size + map.start_addr) = map.size + map.start_addr
  BY <1>1, ModBelow, WordType DEF Low32
<1> QED BY <1>2, WordType DEF Covers, IoMap, Addr

(* The plain scan finds the one map that covers the address, if any. *)
LEMMA FindUnique ==
    ASSUME NEW T \in Seq(IoMap), TableInv(T), NEW a \in Addr
    PROVE  LET k == GetIomapByAddrNonMemoised(T, a)
           IN  /\ k \in 0 .. Len(T)
               /\ k = NULL => \A i \in DOMAIN T : ~Covers(T[i], a)
               /\ k # NULL => /\ Covers(T[k], a)
                              /\ \A i \in DOMAIN T : Covers(T[i], a) => i = k
<1> DEFINE I == { i \in 1 .. Len(T) : Covers(T[i], a) }
<1>1. \A i \in 1 .. Len(T) : T[i] \in IoMap
  OBVIOUS
<1>2. ASSUME NEW i \in I, NEW j \in I PROVE i = j
  <2>1. Covers(T[i], a) /\ Covers(T[j], a) /\ i \in DOMAIN T /\ j \in DOMAIN T
    OBVIOUS
  <2>2. /\ T[i].start_addr =< a /\ a < T[i].start_addr + T[i].size
        /\ T[j].start_addr =< a /\ a < T[j].start_addr + T[j].size
    BY <1>1, <2>1, CoversRegion DEF TableInv, RowsBounded
  <2>3. /\ T[i].start_addr \in Int /\ T[i].size \in Int
        /\ T[j].start_addr \in Int /\ T[j].size \in Int /\ a \in Int
    BY <1>1, <2>1 DEF IoMap, Addr
  <2>4. i # j => \/ T[i].start_addr + T[i].size =< T[j].start_addr
                 \/ T[j].start_addr + T[j].size =< T[i].start_addr
    BY <2>1 DEF TableInv, RowsDisjoint
  <2> HIDE DEF I
  <2> QED BY <2>2, <2>3, <2>4
<1>3. GetIomapByAddrNonMemoised(T, a) = IF I # {} THEN Min(I) ELSE 0
  BY DEF GetIomapByAddrNonMemoised, SelectInSeq
<1>4. CASE I = {}
  BY <1>3, <1>4 DEF NULL
<1>5. CASE I # {}
  <2>1. PICK k \in I : TRUE
    BY <1>5
  <2>2. \A x \in I : k =< x
    BY <1>2, <2>1
  <2>3. Min(I) = k
    BY <1>2, <2>1, <2>2 DEF Min
  <2>4. GetIomapByAddrNonMemoised(T, a) = k
    BY <1>3, <1>5, <2>3
  <2>5. k \in 1 .. Len(T) /\ Covers(T[k], a)
    BY <2>1
  <2>6. \A i \in DOMAIN T : Covers(T[i], a) => i = k
    BY <1>2, <2>1
  <2> HIDE DEF I
  <2> QED BY <2>4, <2>5, <2>6 DEF NULL
<1> QED BY <1>4, <1>5

(* A hit of the memo is a map that covers the address: it starts the block *)
(* of the address and no map is shorter than a block.                      *)
LEMMA MemoSound ==
    ASSUME NEW T \in Seq(IoMap), TableInv(T), NEW m \in 1 .. Len(T), T[m].size # 0,
           NEW a \in Addr
    PROVE  GetIomapByAddr(T, m, a) = GetIomapByAddrNonMemoised(T, a)
<1>1. CASE BlockOf(a) = T[m].start_addr
  <2>1. a % BLOCK \in 0 .. BLOCK - 1
    BY DivMod, WidthAssumption DEF Addr
  <2>2. T[m] \in IoMap /\ T[m].size >= PAGE /\ m \in DOMAIN T
    BY DEF TableInv, RowsBounded
  <2>3. T[m].start_addr =< a /\ a < T[m].start_addr + T[m].size
    <3>1. /\ T[m].start_addr \in Int /\ T[m].size \in Int /\ a \in Int
          /\ a % BLOCK \in Int /\ BLOCK \in Int /\ PAGE \in Int
      BY <2>1, <2>2, WidthAssumption DEF IoMap, Addr
    <3>2. a - (a % BLOCK) = T[m].start_addr
      BY <1>1 DEF BlockOf
    <3>3. 0 =< a % BLOCK /\ a % BLOCK < BLOCK /\ BLOCK =< PAGE /\ PAGE =< T[m].size
      BY <2>1, <2>2, WidthAssumption
    <3> QED BY <3>1, <3>2, <3>3
  <2>4. Covers(T[m], a)
    BY <2>2, <2>3, CoversRegion DEF TableInv, RowsBounded
  <2>5. GetIomapByAddrNonMemoised(T, a) = m
    BY <2>2, <2>4, FindUnique
  <2> QED BY <1>1, <2>5 DEF GetIomapByAddr
<1>2. CASE BlockOf(a) # T[m].start_addr
  BY <1>2 DEF GetIomapByAddr
<1> QED BY <1>1, <1>2

(***************************************************************************)
(* rv32i_hart_init: two options the overlap test lets through end up as    *)
(* two rows of the table that do not share an address.                     *)
(***************************************************************************)
LEMMA RowOfOption ==
    ASSUME NEW c \in ChosenIoMap, AcceptedIoMap(c)
    PROVE  LET m == IomapAdd(c.addr, c.size)
           IN  /\ m \in IoMap
               /\ m.start_addr = c.addr /\ m.start_addr < HALF /\ m.start_addr % BLOCK = 0
               /\ m.size = Low32(c.size) /\ m.size < HALF /\ m.size =< c.size
               /\ m.size = 0 \/ m.size >= PAGE
<1>1. c.size \in Nat /\ c.addr \in Addr /\ Multiple(c.size, PAGE)
  BY WidthAssumption DEF ChosenIoMap, AcceptedIoMap
<1>2. /\ Low32(c.size) \in Addr /\ Low32(c.size) =< c.size
      /\ Low32(c.size) = 0 \/ Low32(c.size) >= PAGE
  BY <1>1, Low32Pages
<1>3. Low32(c.size) < HALF
  BY <1>2, WidthAssumption, WordType DEF AcceptedIoMap, Negative, Addr
<1>4. c.addr < HALF /\ c.addr % BLOCK = 0
  BY DEF AcceptedIoMap
<1> QED BY <1>1, <1>2, <1>3, <1>4 DEF IomapAdd, IoMap

(* The overlap test of the parser compares last and first addresses in      *)
(* size_t; two accepted maps that pass it are apart also after their sizes  *)
(* are cut to 32 bits.                                                      *)
LEMMA RowsApart ==
    ASSUME NEW c \in ChosenIoMap, NEW d \in ChosenIoMap,
           AcceptedIoMap(c), AcceptedIoMap(d), d.addr >= c.addr, d.addr # c.addr,
           ~ ((c.addr + c.size - 1) % SIZET >= d.addr)
    PROVE  c.addr + Low32(c.size) =< d.addr
<1>1. /\ c.addr \in 0 .. HALF - 1 /\ c.size \in 0 .. SIZET - 1 /\ 0 < c.size
      /\ ~Negative(c.size) /\ Multiple(c.size, PAGE) /\ d.addr \in Int
  BY WidthAssumption, WordType DEF AcceptedIoMap, ChosenIoMap, Addr
<1>2. (c.addr + c.size - 1) % SIZET = c.addr + c.size - 1
  BY <1>1, NoSizetWrap
<1>3. Low32(c.size) =< c.size /\ Low32(c.size) \in Int
  BY <1>1, Low32Pages, WidthAssumption DEF Addr
<1>4. c.addr + c.size - 1 < d.addr
  <2>1. ~ (c.addr + c.size - 1 >= d.addr)
    BY <1>2
  <2> QED BY <1>1, <2>1
<1>5. c.size \in Int /\ c.addr \in Int
  BY <1>1
<1> QED BY <1>1, <1>3, <1>4, <1>5

(* Every accepted command line without an overlap gives a table of aligned, *)
(* separate rows.                                                           *)
LEMMA TableOfAccepted ==
    ASSUME NEW c, Accepted(c), ~CheckOverlap(c.choosen_iomaps), NEW T, T = TableOf(c)
    PROVE  T \in Seq(IoMap) /\ TableInv(T)
<1> DEFINE maps == c.choosen_iomaps
<1>1. CASE ~c.is_using_mmap
  <2>1. T = << IomapAdd(0, c.ramamnt) >>
    BY <1>1 DEF TableOf
  <2>2. c.ramamnt \in 0 .. HALF - 1 /\ c.ramamnt \in Nat /\ Multiple(c.ramamnt, PAGE)
    BY WidthAssumption, WordType DEF Accepted, Cmdline, Addr
  <2>3. Low32(c.ramamnt) = 0 \/ Low32(c.ramamnt) >= PAGE
    BY <2>2, Low32Pages
  <2>4. Low32(c.ramamnt) = c.ramamnt
    <3>1. c.ramamnt \in 0 .. WORD - 1
      BY <2>2, WordType, WidthAssumption
    <3> QED BY <3>1, ModBelow, WordType DEF Low32
  <2>5. 0 % BLOCK = 0
    BY ModBelow, WidthAssumption
  <2>6. IomapAdd(0, c.ramamnt) \in IoMap
    BY <2>2, <2>4, WordType, WidthAssumption DEF IomapAdd, IoMap, Addr
  <2>7. T \in Seq(IoMap) /\ DOMAIN T = {1} /\ T[1] = IomapAdd(0, c.ramamnt)
    BY <2>1, <2>6
  <2>8. /\ T[1].start_addr = 0 /\ T[1].size = c.ramamnt
    BY <2>4, <2>7 DEF IomapAdd
  <2>9. RowsBounded(T)
    <3>1. /\ T[1].start_addr < HALF /\ T[1].size < HALF
          /\ T[1].size = 0 \/ T[1].size >= PAGE
      BY <2>2, <2>3, <2>4, <2>8, WidthAssumption
    <3>2. T[1].start_addr % BLOCK = 0
      BY <2>5, <2>8
    <3> QED BY <2>7, <3>1, <3>2 DEF RowsBounded
  <2>10. RowsDisjoint(T)
    BY <2>7 DEF RowsDisjoint
  <2> QED BY <2>7, <2>9, <2>10 DEF TableInv
<1>2. CASE c.is_using_mmap
  <2>1. T = [i \in DOMAIN maps |-> IomapAdd(maps[i].addr, maps[i].size)]
    BY <1>2 DEF TableOf
  <2>2. /\ maps \in Seq(ChosenIoMap)
        /\ \A i \in DOMAIN maps : maps[i] \in ChosenIoMap /\ AcceptedIoMap(maps[i])
    BY DEF Accepted, Cmdline
  <2>3. DOMAIN T = DOMAIN maps /\ \A i \in DOMAIN T : T[i] = IomapAdd(maps[i].addr, maps[i].size)
    BY <2>1
  <2>4. \A i \in DOMAIN T : /\ T[i] \in IoMap
                             /\ T[i].start_addr = maps[i].addr
                             /\ T[i].size = Low32(maps[i].size)
    BY <2>2, <2>3, RowOfOption
  <2>5. T \in Seq(IoMap)
    <3>1. DOMAIN maps = 1 .. Len(maps) /\ Len(maps) \in Nat
      BY <2>2
    <3>2. T \in [1 .. Len(maps) -> IoMap]
      BY <2>1, <2>3, <2>4, <3>1
    <3> QED BY <3>1, <3>2
  <2>6. RowsBounded(T)
    BY <2>2, <2>3, RowOfOption DEF RowsBounded
  <2>7. ASSUME NEW i \in DOMAIN T, NEW j \in DOMAIN T, i # j, maps[j].addr >= maps[i].addr
        PROVE  T[i].start_addr + T[i].size =< T[j].start_addr
    <3>1. maps[j].addr # maps[i].addr
      BY <2>3, <2>7 DEF CheckOverlap
    <3>2. ~ ((maps[i].addr + maps[i].size - 1) % SIZET >= maps[j].addr)
      BY <2>3, <2>7 DEF CheckOverlap
    <3>3. maps[i].addr + Low32(maps[i].size) =< maps[j].addr
      BY <2>2, <2>3, <2>7, <3>1, <3>2, RowsApart
    <3> QED BY <2>4, <3>3
  <2>8. RowsDisjoint(T)
    <3>1. \A i \in DOMAIN T : maps[i].addr \in Int
      BY <2>2, <2>3, WordType DEF ChosenIoMap, Addr
    <3>2. \A i, j \in DOMAIN T : maps[j].addr >= maps[i].addr \/ maps[i].addr >= maps[j].addr
      BY <3>1
    <3> QED BY <2>7, <3>2 DEF RowsDisjoint
  <2> QED BY <2>5, <2>6, <2>8 DEF TableInv
<1>3. c.is_using_mmap \in BOOLEAN
  BY DEF Accepted, Cmdline
<1> QED BY <1>1, <1>2, <1>3


-----------------------------------------------------------------------------
(***************************************************************************)
(* Lookups in a table that init has built, with a memo that points to a    *)
(* map with bytes.                                                         *)
(***************************************************************************)
Table(T) == T \in Seq(IoMap) /\ TableInv(T)

MemoOk(T, m) == m \in DOMAIN T /\ T[m].size # 0

Holds(map, a) == map.start_addr =< a /\ a < map.start_addr + map.size

(* The rows of a table: no start and no size is negative as a signed word.  *)
LEMMA RowType ==
    ASSUME NEW T, Table(T), NEW i \in DOMAIN T
    PROVE  /\ T[i].start_addr \in 0 .. HALF - 1 /\ T[i].size \in 0 .. HALF - 1
           /\ T[i].size = 0 \/ T[i].size >= PAGE
           /\ T[i].start_addr % BLOCK = 0
<1>1. T[i] \in IoMap
  BY DEF Table
<1>2. /\ T[i].start_addr < HALF /\ T[i].start_addr % BLOCK = 0
      /\ T[i].size < HALF
      /\ T[i].size = 0 \/ T[i].size >= PAGE
  BY DEF Table, TableInv, RowsBounded
<1>3. T[i].start_addr \in Nat /\ T[i].size \in Nat /\ HALF \in Nat
  BY <1>1, AddrType, WidthAssumption DEF IoMap
<1> QED
  BY <1>2, <1>3

(* An address is mapped exactly if some row holds it.                       *)
LEMMA MappedIn ==
    ASSUME NEW T, NEW a \in Addr
    PROVE  a \in Mapped(T) <=> \E i \in DOMAIN T : Holds(T[i], a)
BY DEF Mapped, Region, Holds

(* A lookup finds the one map that holds the address, if any, and leaves    *)
(* a memo that points to a map with bytes.                                  *)
LEMMA LookupIn ==
    ASSUME NEW T, Table(T), NEW m, MemoOk(T, m), NEW a \in Addr
    PROVE  LET k == GetIomapByAddr(T, m, a)
           IN  /\ k = GetIomapByAddrNonMemoised(T, a)
               /\ k \in 0 .. Len(T)
               /\ k = NULL => a \notin Mapped(T) /\ \A i \in DOMAIN T : ~Holds(T[i], a)
               /\ k # NULL => /\ k \in DOMAIN T /\ T[k].size # 0 /\ Holds(T[k], a)
                              /\ a \in Mapped(T)
                              /\ \A i \in DOMAIN T : Holds(T[i], a) => i = k
               /\ MemoAfter(T, m, a) = IF k = NULL THEN m ELSE k
               /\ MemoOk(T, MemoAfter(T, m, a))
               /\ OobAddr(T, m, a) <=> k = NULL
<1> DEFINE k == GetIomapByAddr(T, m, a)
<1>1. T \in Seq(IoMap) /\ TableInv(T) /\ m \in 1 .. Len(T) /\ T[m].size # 0
  BY DEF Table, MemoOk
<1>2. k = GetIomapByAddrNonMemoised(T, a)
  BY <1>1, MemoSound
<1>3. /\ k \in 0 .. Len(T)
      /\ k = NULL => \A i \in DOMAIN T : ~Covers(T[i], a)
      /\ k # NULL => /\ Covers(T[k], a)
                     /\ \A i \in DOMAIN T : Covers(T[i], a) => i = k
  BY <1>1, <1>2, FindUnique
<1>4. \A i \in DOMAIN T : Covers(T[i], a) <=> Holds(T[i], a)
  <2> TAKE i \in DOMAIN T
  <2>1. T[i] \in IoMap /\ T[i].start_addr < HALF /\ T[i].size < HALF
    BY <1>1 DEF TableInv, RowsBounded
  <2> QED
    BY <2>1, CoversRegion DEF Holds
<1>5. k # NULL => k \in DOMAIN T
  BY <1>1, <1>3 DEF NULL
<1>6. k # NULL => T[k].size # 0
  BY <1>3, <1>4, <1>5, RowType DEF Holds, Addr
<1>7. a \in Mapped(T) <=> \E i \in DOMAIN T : Holds(T[i], a)
  BY MappedIn
<1>8. MemoAfter(T, m, a) = IF k = NULL THEN m ELSE k
  BY DEF MemoAfter
<1> HIDE DEF k
<1>9. /\ k = NULL => a \notin Mapped(T) /\ \A i \in DOMAIN T : ~Holds(T[i], a)
      /\ k # NULL => /\ k \in DOMAIN T /\ T[k].size # 0 /\ Holds(T[k], a)
                     /\ a \in Mapped(T)
                     /\ \A i \in DOMAIN T : Holds(T[i], a) => i = k
  BY <1>3, <1>4, <1>5, <1>6, <1>7
<1>10. MemoOk(T, MemoAfter(T, m, a))
  BY <1>1, <1>8, <1>9 DEF MemoOk
<1> QED
  BY <1>2, <1>3, <1>8, <1>9, <1>10 DEF k, OobAddr

-----------------------------------------------------------------------------
(* The memo after a series of lookups.                                      *)
MemoFold == INSTANCE FoldInduction WITH Op <- MemoAfter

(* The memo after a series of lookups, lookup by lookup.                    *)
LEMMA MemoTrace ==
    ASSUME NEW T, NEW m, NEW addrs, NEW n \in Nat, DOMAIN addrs = 1 .. n
    PROVE  \E f : /\ f[0] = m
                  /\ \A k \in 1 .. n : f[k] = MemoAfter(T, f[k - 1], addrs[k])
                  /\ MemoAfterAll(T, m, addrs) = f[n]
<1>1. MemoAfterAll(T, m, addrs) = MemoFold!Fold(T, m, addrs)
  BY DEF MemoAfterAll, FoldLeft, MapThenFoldSet, Max, MemoFold!Fold,
         MemoFold!FoldLeft, MemoFold!MapThenFoldSet, MemoFold!Max
<1>2. PICK f : MemoFold!Traces(f, T, m, addrs, n)
  BY MemoFold!FoldTrace
<1> QED
  BY <1>1, <1>2 DEF MemoFold!Traces

(* No series of lookups spoils the memo.                                    *)
LEMMA MemoAfterAllOk ==
    ASSUME NEW T, Table(T), NEW m, MemoOk(T, m), NEW addrs, NEW n \in Nat,
           DOMAIN addrs = 1 .. n, \A i \in 1 .. n : addrs[i] \in Addr
    PROVE  MemoOk(T, MemoAfterAll(T, m, addrs))
<1>1. PICK f : /\ f[0] = m
               /\ \A k \in 1 .. n : f[k] = MemoAfter(T, f[k - 1], addrs[k])
               /\ MemoAfterAll(T, m, addrs) = f[n]
  BY MemoTrace
<1> DEFINE S == { k \in 0 .. n : MemoOk(T, f[k]) }
<1>2. 0 \in S
  BY <1>1
<1>3. ASSUME NEW k \in 1 .. n, k - 1 \in S PROVE k \in S
  BY <1>1, <1>3, LookupIn
<1> HIDE DEF S
<1>4. n \in S
  BY <1>2, <1>3, MemoFold!UpTo
<1> QED
  BY <1>1, <1>4 DEF S

-----------------------------------------------------------------------------
(***************************************************************************)
(* rv32i_mem_contiguous.  One call of it, the results of the calls it      *)
(* makes being those of g.                                                 *)
(***************************************************************************)
Call(g, T, m, s, end) ==
    LET map  == GetIomapByAddr(T, m, s)
        size == T[map].size
    IN  IF end < s \/ map = NULL
        THEN [bytes |-> 0, memo |-> m]
        ELSE IF size < end - s
        THEN LET rest == g[map][Low32(s + size)]
             IN  [bytes |-> Low32(size + rest.bytes), memo |-> rest.memo]
        ELSE [bytes |-> size, memo |-> map]

Recurses(g, T, end) == g = [ m \in DOMAIN T |-> [ s \in Addr |-> Call(g, T, m, s, end) ] ]

GoesOn(T, m, s, end) ==
    LET k == GetIomapByAddr(T, m, s)
    IN  k # NULL /\ T[k].size < end - s /\ ~(end < s)

(* A call that goes on does so further up, without wrapping; one that finds *)
(* a map of no bytes, which the memo of a running hart never points to,     *)
(* calls itself.                                                            *)
Onward(T, m, s) ==
    LET k == GetIomapByAddr(T, m, s)
    IN  /\ k \in DOMAIN T
        /\ s + T[k].size \in Addr /\ Low32(s + T[k].size) = s + T[k].size
        /\ T[k].size # 0 => s < s + T[k].size
        /\ T[k].size = 0 => k = m /\ s + T[k].size = s

(* rv32i_mem_contiguous calls itself as Onward says.                        *)
LEMMA CallMovesUp ==
    ASSUME NEW T, Table(T), NEW m \in DOMAIN T, NEW s \in Addr, NEW end \in Addr,
           GoesOn(T, m, s, end)
    PROVE  Onward(T, m, s)
<1> DEFINE k == GetIomapByAddr(T, m, s)
<1>1. T \in Seq(IoMap) /\ TableInv(T) /\ k # NULL
  BY DEF Table, GoesOn
<1>2. k \in DOMAIN T /\ (k # m => Covers(T[k], s))
  BY <1>1, FindUnique DEF GetIomapByAddr, NULL
<1> HIDE DEF k
<1>3. /\ T[k] \in IoMap /\ T[k].size \in 0 .. HALF - 1
      /\ T[k].size < HALF /\ T[k].start_addr < HALF
  <2>1. T[k].start_addr \in 0 .. HALF - 1 /\ T[k].size \in 0 .. HALF - 1
    BY <1>2, RowType
  <2> QED
    BY <1>1, <1>2, <2>1, WidthAssumption
<1>4. k # m => T[k].size # 0
  <2>1. Covers(T[k], s) => T[k].start_addr =< s /\ s < T[k].start_addr + T[k].size
    BY <1>3, CoversRegion
  <2> QED
    BY <2>1, <1>2, <1>3 DEF IoMap, Addr
<1>5. s + T[k].size \in 0 .. WORD - 1
  <2>1. T[k].size < end - s
    BY DEF GoesOn, k
  <2> QED
    BY <2>1, <1>3, AddrType, WordType
<1>6. Low32(s + T[k].size) = s + T[k].size
  BY <1>5, ModBelow, WordType DEF Low32
<1>7. /\ T[k].size # 0 => s < s + T[k].size
      /\ T[k].size = 0 => s + T[k].size = s
  BY <1>3, AddrType
<1> QED
  BY <1>2, <1>4, <1>5, <1>6, <1>7 DEF Onward, Addr, k

(* Two functions that agree further up answer the call alike.              *)
AgreeAbove(g, h, T, s) == \A i \in DOMAIN T, t \in Addr : s < t => g[i][t] = h[i][t]

(* One call depends on calls from greater addresses only ...                *)
LEMMA CallAgrees ==
    ASSUME NEW T, Table(T), NEW m \in DOMAIN T, NEW s \in Addr, NEW end \in Addr, NEW g, NEW h,
           GoesOn(T, m, s, end) /\ T[GetIomapByAddr(T, m, s)].size = 0 => g[m][s] = h[m][s],
           AgreeAbove(g, h, T, s)
    PROVE  Call(g, T, m, s, end) = Call(h, T, m, s, end)
<1> DEFINE k == GetIomapByAddr(T, m, s)
<1>1. CASE GoesOn(T, m, s, end)
  <2>1. Onward(T, m, s)
    BY <1>1, CallMovesUp
  <2>2. g[k][Low32(s + T[k].size)] = h[k][Low32(s + T[k].size)]
    BY <1>1, <2>1 DEF AgreeAbove, Onward
  <2> QED
    BY <2>2 DEF Call
<1>2. CASE ~GoesOn(T, m, s, end)
  BY <1>2 DEF Call, GoesOn
<1> QED
  BY <1>1, <1>2

(* The recursion is well defined: it has a solution, which Contiguous takes. *)
Above(g, T, end, c) ==
    \A m \in DOMAIN T, s \in Addr : c =< s => g[m][s] = Call(g, T, m, s, end)

(* ... so the recursion has a solution ...                                  *)
LEMMA WalkExists ==
    ASSUME NEW T, Table(T), NEW end \in Addr
    PROVE  \E g : Recurses(g, T, end)
<1> DEFINE S == { n \in 0 .. WORD : \E g : Above(g, T, end, WORD - n) }
<1>1. 0 \in S
  <2>1. \A s \in Addr : ~(WORD - 0 =< s)
    BY AddrType, WordType
  <2>2. Above(0, T, end, WORD - 0)
    BY <2>1 DEF Above
  <2>3. 0 \in 0 .. WORD
    BY WordType
  <2> QED
    BY <2>2, <2>3
<1>2. ASSUME NEW n \in 1 .. WORD, n - 1 \in S PROVE n \in S
  <2> DEFINE c == WORD - n
  <2>1. PICK g : Above(g, T, end, WORD - (n - 1))
    BY <1>2
  <2>2. c \in Addr /\ WORD - (n - 1) = c + 1
    BY WordType DEF Addr
  <2> DEFINE Stays(m) == GoesOn(T, m, c, end) /\ T[GetIomapByAddr(T, m, c)].size = 0
             h == [ m \in DOMAIN T |-> [ s \in Addr |->
                      IF s # c THEN g[m][s]
                      ELSE IF Stays(m) THEN [bytes |-> 0, memo |-> m]
                      ELSE Call(g, T, m, s, end) ] ]
  <2> HIDE DEF c
  <2>3. \A m \in DOMAIN T, s \in Addr : s # c => h[m][s] = g[m][s]
    OBVIOUS
  <2>4. \A m \in DOMAIN T : h[m][c] = IF Stays(m) THEN [bytes |-> 0, memo |-> m]
                                       ELSE Call(g, T, m, c, end)
    BY <2>2
  <2> HIDE DEF h
  <2>5. ASSUME NEW s \in Addr, c =< s PROVE AgreeAbove(g, h, T, s)
    <3>1. \A t \in Addr : s < t => t # c
      BY <2>2, <2>5, AddrType
    <3> QED
      BY <2>3, <3>1 DEF AgreeAbove
  <2>6. ASSUME NEW m \in DOMAIN T, NEW s \in Addr, c =< s PROVE h[m][s] = Call(h, T, m, s, end)
    <3> DEFINE k == GetIomapByAddr(T, m, s)
    <3>1. AgreeAbove(g, h, T, s)
      BY <2>5, <2>6
    <3>2. CASE s # c
      <4>1. c + 1 =< s
        BY <2>2, <2>6, <3>2, AddrType
      <4>2. h[m][s] = Call(g, T, m, s, end)
        BY <2>1, <2>2, <2>3, <3>2, <4>1 DEF Above
      <4>3. g[m][s] = h[m][s]
        BY <2>3, <3>2
      <4>4. Call(g, T, m, s, end) = Call(h, T, m, s, end)
        BY <3>1, <4>3, CallAgrees
      <4> QED
        BY <4>2, <4>4
    <3>3. CASE s = c /\ ~Stays(m)
      <4>1. Call(g, T, m, s, end) = Call(h, T, m, s, end)
        BY <3>1, <3>3, CallAgrees
      <4> QED
        BY <2>4, <3>3, <4>1
    <3>4. CASE s = c /\ Stays(m)
      <4>1. GoesOn(T, m, s, end) /\ T[k].size = 0
        BY <3>4
      <4>2. k = m /\ Low32(s + T[k].size) = s
        BY <4>1, CallMovesUp DEF Onward
      <4>3. h[m][s] = [bytes |-> 0, memo |-> m]
        BY <2>4, <3>4
      <4>4. Low32(0) = 0
        BY WordType DEF Low32
      <4> QED
        BY <4>1, <4>2, <4>3, <4>4 DEF Call, GoesOn
    <3> QED
      BY <3>2, <3>3, <3>4
  <2>7. Above(h, T, end, c)
    BY <2>6 DEF Above
  <2> QED
    BY <2>7 DEF c
<1>3. WORD \in S
  <2> HIDE DEF S
  <2> QED
    BY <1>1, <1>2, WordType, MemoFold!UpTo
<1>4. PICK g : Above(g, T, end, 0)
  BY <1>3, WordType
<1> DEFINE h == [ m \in DOMAIN T |-> [ s \in Addr |-> g[m][s] ] ]
<1>5. \A m \in DOMAIN T, s \in Addr : h[m][s] = g[m][s]
  OBVIOUS
<1>6. h = [ m \in DOMAIN T |-> [ s \in Addr |-> Call(g, T, m, s, end) ] ]
  BY <1>4, AddrType DEF Above
<1> HIDE DEF h
<1>7. \A m \in DOMAIN T, s \in Addr : Call(g, T, m, s, end) = Call(h, T, m, s, end)
  BY <1>5, CallAgrees DEF AgreeAbove
<1>8. [ m \in DOMAIN T |-> [ s \in Addr |-> Call(g, T, m, s, end) ] ]
      = [ m \in DOMAIN T |-> [ s \in Addr |-> Call(h, T, m, s, end) ] ]
  BY <1>7
<1> QED
  BY <1>6, <1>8 DEF Recurses

(* ... and Contiguous is one.                                               *)
LEMMA ContiguousWalk ==
    ASSUME NEW T, Table(T), NEW end \in Addr, NEW m, NEW s
    PROVE  \E g : Recurses(g, T, end) /\ Contiguous(T, m, s, end) = g[m][s]
<1> DEFINE g == CHOOSE g : Recurses(g, T, end)
<1>1. Recurses(g, T, end)
  BY WalkExists
<1>2. Contiguous(T, m, s, end) = g[m][s]
  BY DEF Contiguous, Recurses, Call
<1> QED
  BY <1>1, <1>2

(* Bytes in a row, by the first one that is missing.                       *)
LEMMA RunEnds ==
    ASSUME NEW T, NEW s \in Addr, NEW end \in Addr, s =< end
    PROVE  LET r == BackedRun(T, s, end)
           IN  /\ r \in 0 .. end - s
               /\ \A a \in s .. s + r - 1 : a \in Mapped(T)
               /\ r = end - s \/ s + r \notin Mapped(T)
<1> DEFINE holes == { a \in s .. end - 1 : a \notin Mapped(T) }
<1>1. s \in Int /\ end \in Int
  BY AddrType
<1>2. CASE holes = {}
  <2>1. BackedRun(T, s, end) = end - s
    BY <1>2 DEF BackedRun
  <2>2. \A a \in s .. end - 1 : a \in Mapped(T)
    BY <1>2
  <2> QED
    BY <1>1, <2>1, <2>2
<1>3. CASE holes # {}
  <2> DEFINE G == { a - s : a \in holes }
  <2>1. G \subseteq Nat /\ G # {}
    BY <1>1, <1>3
  <2> HIDE DEF G
  <2>2. PICK n \in G : \A x \in G : n =< x
    BY <2>1, MemoFold!LeastNumber
  <2> USE DEF G
  <2>3. s + n \in holes /\ \A a \in holes : s + n =< a
    BY <1>1, <2>2
  <2>4. Min(holes) = s + n
    <3> HIDE DEF holes
    <3>1. \A x \in holes : (\A y \in holes : x =< y) => x = s + n
      <4>1. \A x \in holes : x \in Int
        BY <1>1 DEF holes
      <4> QED
        BY <2>3, <4>1
    <3> QED
      BY <2>3, <3>1 DEF Min
  <2>5. BackedRun(T, s, end) = n
    <3>1. n \in Int
      BY <2>1, <2>2
    <3>2. BackedRun(T, s, end) = (s + n) - s
      BY <1>3, <2>4 DEF BackedRun
    <3> QED
      BY <1>1, <3>1, <3>2
  <2>6. n \in 0 .. end - s /\ s + n \notin Mapped(T)
    BY <1>1, <2>1, <2>2, <2>3
  <2>7. ASSUME NEW a \in s .. s + n - 1 PROVE a \in Mapped(T)
    BY <1>1, <2>3, <2>6, <2>7
  <2> QED
    BY <2>5, <2>6, <2>7
<1> QED
  BY <1>2, <1>3

(***************************************************************************)
(* What rv32i_mem_contiguous reports: nothing if there is no byte, never a *)
(* sum that wraps, never less than the bytes in a row, and, asked from the *)
(* first byte of a map, that all of them are there if it says so.          *)
(***************************************************************************)
AtStart(T, s) == \A i \in DOMAIN T : Holds(T[i], s) => T[i].start_addr = s

Reports(T, s, end, r) ==
    /\ MemoOk(T, r.memo)
    /\ r.bytes \in Addr
    /\ r.bytes = 0 <=> end < s \/ s \notin Mapped(T)
    /\ \A i \in DOMAIN T : Holds(T[i], s) => r.bytes =< WORD - 1 - T[i].start_addr
    /\ s =< end => r.bytes >= BackedRun(T, s, end)
    /\ s =< end /\ r.bytes >= end - s /\ AtStart(T, s) => Backed(T, s, end)

(* An answer of 0: nothing is backed at the start.                          *)
LEMMA ReportsNone ==
    ASSUME NEW T, Table(T), NEW m, MemoOk(T, m), NEW s \in Addr, NEW end \in Addr,
           end < s \/ GetIomapByAddr(T, m, s) = NULL
    PROVE  Reports(T, s, end, [bytes |-> 0, memo |-> m])
<1>1. end < s \/ s \notin Mapped(T)
  BY LookupIn
<1>2. 0 \in Addr /\ s \in Int /\ end \in Int /\ WORD \in Int
  BY AddrType, WordType DEF Addr
<1>3. ASSUME NEW i \in DOMAIN T PROVE 0 =< WORD - 1 - T[i].start_addr
  <2>1. T[i].start_addr \in 0 .. HALF - 1
    BY RowType
  <2> QED
    BY <2>1, WordType, WidthAssumption
<1>4. ASSUME s =< end
      PROVE  0 >= BackedRun(T, s, end) /\ (0 >= end - s => Backed(T, s, end))
  <2> DEFINE r == BackedRun(T, s, end)
  <2>1. /\ r \in 0 .. end - s
        /\ \A a \in s .. s + r - 1 : a \in Mapped(T)
    BY <1>4, RunEnds
  <2> HIDE DEF r
  <2>2. r = 0
    BY <1>1, <1>2, <1>4, <2>1
  <2>3. 0 >= end - s => Backed(T, s, end)
    BY <1>2, <1>4 DEF Backed
  <2> QED
    BY <2>2, <2>3 DEF r
<1> QED
  BY <1>1, <1>2, <1>3, <1>4 DEF Reports

(* An answer of one map: it reaches to the end asked for.                   *)
LEMMA ReportsLast ==
    ASSUME NEW T, Table(T), NEW m, MemoOk(T, m), NEW s \in Addr, NEW end \in Addr, s =< end,
           NEW k, k = GetIomapByAddr(T, m, s), k # NULL, ~(T[k].size < end - s)
    PROVE  Reports(T, s, end, [bytes |-> T[k].size, memo |-> k])
<1>1. /\ k \in DOMAIN T /\ T[k].size # 0 /\ Holds(T[k], s) /\ s \in Mapped(T)
      /\ \A i \in DOMAIN T : Holds(T[i], s) => i = k
  BY LookupIn
<1>2. T[k].start_addr \in 0 .. HALF - 1 /\ T[k].size \in 0 .. HALF - 1
  BY <1>1, RowType
<1>3. s \in Int /\ end \in Int /\ WORD \in Int /\ HALF \in Int /\ WORD = 2 * HALF
  BY AddrType, WordType, WidthAssumption
<1>4. T[k].size \in Addr /\ T[k].size =< WORD - 1 - T[k].start_addr
  BY <1>2, <1>3 DEF Addr
<1>5. T[k].size >= BackedRun(T, s, end)
  <2>1. BackedRun(T, s, end) \in 0 .. end - s
    BY RunEnds
  <2> QED
    BY <1>2, <1>3, <2>1
<1>6. ASSUME AtStart(T, s) PROVE Backed(T, s, end)
  <2>1. T[k].start_addr = s
    BY <1>1, <1>6 DEF AtStart
  <2>2. ASSUME NEW a \in s .. end - 1 PROVE a \in Mapped(T)
    <3>1. a \in Addr /\ Holds(T[k], a)
      BY <1>2, <1>3, <2>1, AddrType DEF Holds, Addr
    <3> QED
      BY <1>1, <3>1, MappedIn
  <2> QED
    BY <2>2 DEF Backed
<1>7. MemoOk(T, k) /\ ~(end < s)
  BY <1>1, <1>3 DEF MemoOk
<1> QED
  BY <1>1, <1>4, <1>5, <1>6, <1>7 DEF Reports

(* An answer of one map and of what the recursion found behind it.          *)
LEMMA ReportsMore ==
    ASSUME NEW T, Table(T), NEW m, MemoOk(T, m), NEW s \in Addr, NEW end \in Addr, s =< end,
           NEW k, k = GetIomapByAddr(T, m, s), k # NULL, T[k].size < end - s,
           NEW rest, Reports(T, s + T[k].size, end, rest)
    PROVE  Reports(T, s, end, [bytes |-> Low32(T[k].size + rest.bytes), memo |-> rest.memo])
<1> DEFINE n == T[k].size
           t == s + n
<1>1. /\ k \in DOMAIN T /\ n # 0 /\ Holds(T[k], s) /\ s \in Mapped(T)
      /\ \A i \in DOMAIN T : Holds(T[i], s) => i = k
  BY LookupIn
<1>2. T[k].start_addr \in 0 .. HALF - 1 /\ n \in 0 .. HALF - 1
  BY <1>1, RowType
<1>3. /\ s \in Int /\ end \in Int /\ WORD \in Int /\ HALF \in Int /\ WORD = 2 * HALF
      /\ 0 =< s /\ end < WORD
  BY AddrType, WordType, WidthAssumption
<1>4. t \in Addr /\ t < end /\ s < t /\ T[k].start_addr + n =< t
  BY <1>1, <1>2, <1>3 DEF Addr, Holds
<1>5. rest.bytes \in Int /\ 0 =< rest.bytes
  BY AddrType DEF Reports
<1>6. ASSUME NEW j \in DOMAIN T, Holds(T[j], t)
      PROVE  T[k].start_addr + n =< T[j].start_addr
  <2>1. T[j].start_addr \in 0 .. HALF - 1 /\ T[j].size \in 0 .. HALF - 1
    BY <1>6, RowType
  <2>2. T[j].start_addr =< t /\ t < T[j].start_addr + T[j].size
    BY <1>6 DEF Holds
  <2>3. j # k
    BY <1>2, <1>3, <1>4, <2>2
  <2>4. \/ T[k].start_addr + n =< T[j].start_addr
        \/ T[j].start_addr + T[j].size =< T[k].start_addr
    BY <1>1, <2>3 DEF Table, TableInv, RowsDisjoint
  <2> HIDE DEF n, t
  <2>5. t \in Int
    BY <1>4, AddrType
  <2> QED
    BY <1>2, <1>3, <1>4, <2>1, <2>2, <2>4, <2>5
<1>7. n + rest.bytes =< WORD - 1 - T[k].start_addr
  <2>1. CASE t \in Mapped(T)
    <3>1. PICK j \in DOMAIN T : Holds(T[j], t)
      BY <1>4, <2>1, MappedIn
    <3>2. rest.bytes =< WORD - 1 - T[j].start_addr
      BY <3>1 DEF Reports
    <3>3. T[k].start_addr + n =< T[j].start_addr /\ T[j].start_addr \in 0 .. HALF - 1
      BY <1>6, <3>1, RowType
    <3> QED
      BY <1>2, <1>3, <1>5, <3>2, <3>3
  <2>2. CASE t \notin Mapped(T)
    <3>1. rest.bytes = 0
      BY <2>2 DEF Reports
    <3> QED
      BY <1>2, <1>3, <3>1
  <2> QED
    BY <2>1, <2>2
<1>8. Low32(n + rest.bytes) = n + rest.bytes /\ n + rest.bytes \in Addr
  <2>1. n + rest.bytes \in 0 .. WORD - 1
    BY <1>2, <1>3, <1>5, <1>7
  <2> QED
    BY <2>1, ModBelow, WordType DEF Low32, Addr
<1>9. n + rest.bytes >= BackedRun(T, s, end)
  <2> DEFINE r == BackedRun(T, s, end)
             q == BackedRun(T, t, end)
  <2>1. r \in 0 .. end - s /\ \A a \in s .. s + r - 1 : a \in Mapped(T)
    BY RunEnds
  <2>2. q \in 0 .. end - t /\ (q = end - t \/ t + q \notin Mapped(T))
    <3>1. t =< end
      BY <1>4, <1>3, <1>2
    <3> QED
      BY <1>4, <3>1, RunEnds
  <2>3. rest.bytes >= q
    BY <1>2, <1>3, <1>4 DEF Reports
  <2> HIDE DEF r, q
  <2>4. n + q >= r
    <3>1. CASE q = end - t
      BY <1>2, <1>3, <2>1, <3>1
    <3>2. CASE t + q \notin Mapped(T)
      <4>1. t + q \notin s .. s + r - 1
        BY <2>1, <3>2
      <4> QED
        BY <1>2, <1>3, <2>1, <2>2, <4>1
    <3> QED
      BY <2>2, <3>1, <3>2
  <2> QED
    BY <1>2, <1>3, <1>5, <2>1, <2>2, <2>3, <2>4 DEF r
<1>10. ASSUME n + rest.bytes >= end - s, AtStart(T, s) PROVE Backed(T, s, end)
  <2>1. T[k].start_addr = s
    BY <1>1, <1>10 DEF AtStart
  <2>2. rest.bytes >= end - t
    BY <1>2, <1>3, <1>5, <1>10
  <2>3. AtStart(T, t)
    <3> SUFFICES ASSUME NEW i \in DOMAIN T, Holds(T[i], t) PROVE T[i].start_addr = t
      BY DEF AtStart
    <3>1. t =< T[i].start_addr
      BY <1>6, <2>1
    <3>2. T[i].start_addr =< t
      BY DEF Holds
    <3>3. T[i].start_addr \in Int
      BY RowType
    <3> QED
      BY <1>2, <1>3, <3>1, <3>2, <3>3
  <2>4. Backed(T, t, end)
    BY <1>2, <1>3, <1>4, <2>2, <2>3 DEF Reports
  <2>5. ASSUME NEW a \in s .. end - 1 PROVE a \in Mapped(T)
    <3>1. CASE a < t
      <4>1. a \in Addr /\ Holds(T[k], a)
        BY <1>2, <1>3, <2>1, <3>1, AddrType DEF Holds, Addr
      <4> QED
        BY <1>1, <4>1, MappedIn
    <3>2. CASE ~(a < t)
      <4>1. a \in t .. end - 1
        BY <1>2, <1>3, <3>2
      <4> QED
        BY <2>4, <4>1 DEF Backed
    <3> QED
      BY <3>1, <3>2
  <2> QED
    BY <2>5 DEF Backed
<1>11. n + rest.bytes # 0
  BY <1>1, <1>2, <1>5
<1>12. ~(end < s) /\ MemoOk(T, rest.memo)
  BY <1>3 DEF Reports
<1> HIDE DEF n, t
<1> QED
  BY <1>1, <1>7, <1>8, <1>9, <1>10, <1>11, <1>12 DEF Reports, n

(* Whatever the address, the end and the memo it starts from, the answer of *)
(* rv32i_mem_contiguous is 0 exactly if the start is not mapped, is never   *)
(* short of what is backed, and, if it is enough and the start is the first *)
(* byte of a map, every byte is there.                                      *)
THEOREM ContiguousReports ==
    ASSUME NEW T, Table(T), NEW m, MemoOk(T, m), NEW s \in Addr, NEW end \in Addr
    PROVE  Reports(T, s, end, Contiguous(T, m, s, end))
<1>1. PICK g : Recurses(g, T, end) /\ Contiguous(T, m, s, end) = g[m][s]
  BY ContiguousWalk
<1>2. \A i \in DOMAIN T, a \in Addr : g[i][a] = Call(g, T, i, a, end)
  BY <1>1 DEF Recurses
<1> DEFINE Right(a) == \A i : MemoOk(T, i) => Reports(T, a, end, g[i][a])
           S == { n \in 0 .. WORD : \A a \in Addr : WORD - n =< a => Right(a) }
<1>3. 0 \in S
  <2>1. \A a \in Addr : ~(WORD - 0 =< a)
    BY AddrType, WordType
  <2> QED
    BY <2>1, WordType
<1>4. ASSUME NEW n \in 1 .. WORD, n - 1 \in S PROVE n \in S
  <2>1. ASSUME NEW a \in Addr, WORD - n =< a PROVE Right(a)
    <3> HIDE DEF Right
    <3>1. ASSUME NEW b \in Addr, a < b PROVE Right(b)
      <4>1. WORD - (n - 1) =< b
        BY <2>1, <3>1, AddrType, WordType
      <4> QED
        BY <1>4, <4>1
    <3> SUFFICES ASSUME NEW i, MemoOk(T, i) PROVE Reports(T, a, end, g[i][a])
      BY DEF Right
    <3> DEFINE k == GetIomapByAddr(T, i, a)
    <3>2. g[i][a] = Call(g, T, i, a, end)
      BY <1>2 DEF MemoOk
    <3>3. CASE end < a \/ k = NULL
      <4>1. g[i][a] = [bytes |-> 0, memo |-> i]
        BY <3>2, <3>3 DEF Call
      <4> QED
        BY <3>3, <4>1, ReportsNone
    <3>4. CASE ~(end < a) /\ k # NULL /\ ~(T[k].size < end - a)
      <4>1. g[i][a] = [bytes |-> T[k].size, memo |-> k]
        BY <3>2, <3>4 DEF Call
      <4>2. a =< end
        BY <3>4, AddrType
      <4> QED
        BY <3>4, <4>1, <4>2, ReportsLast
    <3>5. CASE ~(end < a) /\ k # NULL /\ T[k].size < end - a
      <4>1. /\ k \in DOMAIN T /\ a + T[k].size \in Addr /\ Low32(a + T[k].size) = a + T[k].size
            /\ T[k].size # 0 => a < a + T[k].size
        BY <3>5, CallMovesUp DEF Onward, GoesOn, MemoOk
      <4>2. k \in DOMAIN T /\ T[k].size # 0 /\ MemoOk(T, k)
        BY <3>5, LookupIn DEF MemoOk
      <4> DEFINE rest == g[k][a + T[k].size]
      <4>3. Reports(T, a + T[k].size, end, rest)
        BY <3>1, <4>1, <4>2 DEF Right
      <4>4. g[i][a] = [bytes |-> Low32(T[k].size + rest.bytes), memo |-> rest.memo]
        BY <3>2, <3>5, <4>1 DEF Call
      <4>5. a =< end
        BY <3>5, AddrType
      <4> QED
        BY <3>5, <4>3, <4>4, <4>5, ReportsMore
    <3> QED
      BY <3>3, <3>4, <3>5
  <2> QED
    BY <2>1
<1>5. WORD \in S
  <2> HIDE DEF S
  <2> QED
    BY <1>3, <1>4, WordType, MemoFold!UpTo
<1> QED
  BY <1>1, <1>5, AddrType, WordType

-----------------------------------------------------------------------------
(***************************************************************************)
(* The walk over the pages of a range.                                     *)
(***************************************************************************)
LEMMA AlignUp ==
    ASSUME NEW a \in Nat
    PROVE  AlignToPage(a) \in Nat /\ a =< AlignToPage(a)
<1>1. (a - 1) % PAGE \in 0 .. PAGE - 1 /\ PAGE \in Nat /\ 0 < PAGE
  BY WidthAssumption
<1> QED
  BY <1>1 DEF AlignToPage

(* The pages behind the first are numbered without a gap.                   *)
LEMMA PagesCounted ==
    ASSUME NEW a \in Nat, NEW count \in Nat
    PROVE  LET later == { k \in 1 .. count : AlignToPage(a) + k * PAGE < a + count }
           IN  Cardinality(later) \in Nat /\ later = 1 .. Cardinality(later)
<1> DEFINE up == AlignToPage(a)
           later == { k \in 1 .. count : up + k * PAGE < a + count }
<1>1. up \in Nat /\ PAGE \in Nat
  BY AlignUp, WidthAssumption
<1> HIDE DEF up
<1>2. CASE later = {}
  <2>1. Cardinality(later) = 0
    BY <1>2, FS_EmptySet
  <2> QED
    BY <1>2, <2>1 DEF up
<1>3. CASE later # {}
  <2>1. PICK n \in later : \A k \in later : k =< n
    <3>1. later \subseteq 1 .. count
      OBVIOUS
    <3> HIDE DEF later
    <3> QED
      BY <1>3, <3>1, MemoFold!GreatestNumber
  <2>2. ASSUME NEW k \in 1 .. n PROVE k \in later
    <3>1. k * PAGE =< n * PAGE /\ k * PAGE \in Nat /\ n * PAGE \in Nat
      <4>1. \A x \in Nat, y \in Nat : x =< y => x * PAGE =< y * PAGE /\ x * PAGE \in Nat /\ y * PAGE \in Nat
        BY <1>1
      <4> QED
        BY <2>1, <2>2, <4>1
    <3>2. up + n * PAGE < a + count /\ k \in 1 .. count
      BY <2>1, <2>2
    <3>3. up + k * PAGE < a + count
      BY <1>1, <3>1, <3>2
    <3> QED
      BY <3>2, <3>3
  <2>3. later = 1 .. n
    BY <2>1, <2>2
  <2>4. Cardinality(1 .. n) = n /\ n \in Nat
    <3>1. n \in Nat /\ 1 =< n
      BY <2>1
    <3> QED
      BY <3>1, FS_Interval
  <2> QED
    BY <2>3, <2>4 DEF up
<1> QED
  BY <1>2, <1>3

(* The addresses a transfer looks up: the first is the start, all are in    *)
(* the range.                                                               *)
LEMMA PageWalkShape ==
    ASSUME NEW a \in Nat, NEW count \in Nat
    PROVE  \E n \in Nat :
             /\ DOMAIN PageWalk(a, count) = 1 .. n /\ Len(PageWalk(a, count)) = n
             /\ n = 0 <=> count = 0
             /\ n > 0 => PageWalk(a, count)[1] = a
             /\ \A i \in 1 .. n : PageWalk(a, count)[i] \in a .. a + count - 1
<1> DEFINE up == AlignToPage(a)
           later == { k \in 1 .. count : up + k * PAGE < a + count }
           n == IF count = 0 THEN 0 ELSE 1 + Cardinality(later)
           walk == [ i \in 1 .. n |-> IF i = 1 THEN a ELSE up + (i - 1) * PAGE ]
<1>1. up \in Nat /\ a =< up /\ PAGE \in Nat
  BY AlignUp, WidthAssumption
<1>2. Cardinality(later) \in Nat /\ later = 1 .. Cardinality(later)
  BY PagesCounted
<1>3. PageWalk(a, count) = walk
  BY DEF PageWalk
<1>4. n \in Nat /\ DOMAIN walk = 1 .. n /\ Len(walk) = n
  BY <1>2
<1>5. ASSUME NEW i \in 1 .. n PROVE walk[i] \in a .. a + count - 1
  <2>1. count # 0 /\ n = 1 + Cardinality(later)
    BY <1>5
  <2>2. CASE i = 1
    BY <2>1, <2>2, <1>5
  <2>3. CASE i # 1
    <3>1. i - 1 \in 1 .. Cardinality(later)
      BY <1>2, <1>5, <2>1, <2>3
    <3>2. up + (i - 1) * PAGE < a + count
      BY <1>2, <3>1
    <3>3. (i - 1) * PAGE \in Nat
      <4>1. \A x \in Nat : x * PAGE \in Nat
        BY <1>1
      <4>2. i - 1 \in Nat
        BY <1>2, <3>1
      <4> QED
        BY <4>1, <4>2
    <3>4. walk[i] = up + (i - 1) * PAGE
      BY <1>5, <2>3
    <3> HIDE DEF walk, up
    <3> QED
      BY <1>1, <3>2, <3>3, <3>4
  <2> QED
    BY <2>2, <2>3
<1>6. n > 0 => walk[1] = a
  BY <1>4
<1>7. n = 0 <=> count = 0
  BY <1>2
<1> HIDE DEF walk, n
<1> QED
  BY <1>3, <1>4, <1>5, <1>6, <1>7

(* One page of the walk.                                                    *)
CollectPage(T, c, a) ==
    LET map == GetIomapByAddr(T, c.memo, Low32(a))
    IN  [memo |-> MemoAfter(T, c.memo, Low32(a)),
         maps |-> IF c.maps = << >> \/ map # NULL THEN Append(c.maps, map) ELSE c.maps]

CollectFold == INSTANCE FoldInduction WITH Op <- CollectPage

Collects(f, T, m, a, count, n) ==
    /\ f[0] = [memo |-> m, maps |-> << >>]
    /\ \A k \in 1 .. n : f[k] = CollectPage(T, f[k - 1], PageWalk(a, count)[k])
    /\ Collect(T, m, a, count) = f[n]

(* The collection of maps, page by page.                                    *)
LEMMA CollectTrace ==
    ASSUME NEW T, NEW m, NEW a, NEW count, NEW n \in Nat, DOMAIN PageWalk(a, count) = 1 .. n
    PROVE  \E f : Collects(f, T, m, a, count, n)
<1> DEFINE base == [memo |-> m, maps |-> << >>]
           walk == PageWalk(a, count)
<1>1. Collect(T, m, a, count) = CollectFold!Fold(T, base, walk)
  BY DEF Collect, CollectPage, FoldLeft, MapThenFoldSet, Max, CollectFold!Fold,
         CollectFold!FoldLeft, CollectFold!MapThenFoldSet, CollectFold!Max
<1> HIDE DEF walk
<1>2. PICK f : CollectFold!Traces(f, T, base, walk, n)
  BY CollectFold!FoldTrace DEF walk
<1> QED
  BY <1>1, <1>2 DEF CollectFold!Traces, Collects, walk

(* The array of pointers: the map of the first byte, or NULL, and then maps *)
(* only; the memo still points to a map with bytes.                         *)
Collected(T, c) ==
    /\ MemoOk(T, c.memo)
    /\ c.maps \in Seq(0 .. Len(T))
    /\ \A i \in DOMAIN c.maps : i # 1 => c.maps[i] # NULL

(* What is cut to 32 bits is an address.                                    *)
LEMMA LowAddr == \A a \in Int : Low32(a) \in Addr
BY WordType DEF Low32, Addr

(* One more page adds at most one map, and keeps the first.                 *)
LEMMA CollectedMore ==
    ASSUME NEW T, Table(T), NEW c, Collected(T, c), NEW a \in Int
    PROVE  /\ Collected(T, CollectPage(T, c, a))
           /\ c.maps = << >> => CollectPage(T, c, a).maps = << GetIomapByAddr(T, c.memo, Low32(a)) >>
           /\ c.maps # << >> => /\ CollectPage(T, c, a).maps # << >>
                                /\ CollectPage(T, c, a).maps[1] = c.maps[1]
<1> DEFINE b == Low32(a)
           k == GetIomapByAddr(T, c.memo, b)
           d == CollectPage(T, c, a)
<1>1. b \in Addr
  BY LowAddr
<1>2. MemoOk(T, c.memo) /\ c.maps \in Seq(0 .. Len(T))
  BY DEF Collected
<1> HIDE DEF b
<1>3. k \in 0 .. Len(T) /\ MemoOk(T, MemoAfter(T, c.memo, b))
  BY <1>1, <1>2, LookupIn
<1>4. /\ d.memo = MemoAfter(T, c.memo, b)
      /\ d.maps = IF c.maps = << >> \/ k # NULL THEN Append(c.maps, k) ELSE c.maps
  BY DEF CollectPage, b
<1> HIDE DEF d, k
<1>5. d.maps \in Seq(0 .. Len(T))
  <2>1. Append(c.maps, k) \in Seq(0 .. Len(T))
    BY <1>2, <1>3
  <2> QED
    BY <1>2, <1>4, <2>1
<1>6. ASSUME c.maps = << >> PROVE d.maps = << k >>
  BY <1>4, <1>6
<1>7. ASSUME c.maps # << >> PROVE d.maps # << >> /\ d.maps[1] = c.maps[1]
  <2>1. Len(c.maps) \in Nat /\ Len(c.maps) >= 1
    BY <1>2, <1>7
  <2> QED
    BY <1>2, <1>3, <1>4, <1>7, <2>1, SMTT(30)
<1>8. ASSUME NEW i \in DOMAIN d.maps, i # 1 PROVE d.maps[i] # NULL
  <2>1. CASE c.maps = << >>
    BY <1>6, <1>8, <2>1
  <2>2. CASE c.maps # << >> /\ k # NULL
    <3>1. d.maps = Append(c.maps, k)
      BY <1>4, <2>2
    <3>2. i \in DOMAIN c.maps \/ d.maps[i] = k
      BY <1>2, <1>3, <1>8, <3>1
    <3>3. i \in DOMAIN c.maps => d.maps[i] = c.maps[i]
      BY <1>2, <1>3, <1>8, <3>1
    <3> QED
      BY <1>8, <2>2, <3>2, <3>3 DEF Collected
  <2>3. CASE c.maps # << >> /\ k = NULL
    BY <1>4, <1>8, <2>3 DEF Collected
  <2> QED
    BY <2>1, <2>2, <2>3
<1> QED
  BY <1>3, <1>4, <1>5, <1>6, <1>7, <1>8 DEF Collected, d, k, b

(* A transfer collects nothing exactly if it has no bytes, and begins with  *)
(* the map of its start.                                                    *)
LEMMA CollectOk ==
    ASSUME NEW T, Table(T), NEW m, MemoOk(T, m), NEW a \in Addr, NEW count \in Nat
    PROVE  LET c == Collect(T, m, a, count)
           IN  /\ Collected(T, c)
               /\ c.maps = << >> <=> count = 0
               /\ count # 0 => c.maps[1] = GetIomapByAddr(T, m, a)
<1> DEFINE walk == PageWalk(a, count)
<1>1. a \in Nat /\ Low32(a) = a
  BY AddrType, ModBelow, WordType DEF Low32, Addr
<1>2. PICK n \in Nat :
        /\ DOMAIN walk = 1 .. n
        /\ n = 0 <=> count = 0
        /\ n > 0 => walk[1] = a
        /\ \A i \in 1 .. n : walk[i] \in a .. a + count - 1
  BY <1>1, PageWalkShape
<1>3. PICK f : /\ f[0] = [memo |-> m, maps |-> << >>]
               /\ \A k \in 1 .. n : f[k] = CollectPage(T, f[k - 1], walk[k])
               /\ Collect(T, m, a, count) = f[n]
  <2>1. PICK f : Collects(f, T, m, a, count, n)
    BY <1>2, CollectTrace
  <2> QED
    BY <2>1 DEF Collects
<1> HIDE DEF walk
<1> DEFINE Fine(k) == /\ Collected(T, f[k])
                      /\ k = 0 => f[k] = [memo |-> m, maps |-> << >>]
                      /\ k # 0 => f[k].maps # << >> /\ f[k].maps[1] = GetIomapByAddr(T, m, a)
           S == { k \in 0 .. n : Fine(k) }
<1>4. Fine(0)
  BY <1>3 DEF Collected
<1>5. ASSUME NEW k \in 1 .. n, Fine(k - 1) PROVE Fine(k)
  <2>1. f[k] = CollectPage(T, f[k - 1], walk[k]) /\ walk[k] \in Int
    BY <1>1, <1>2, <1>3
  <2>2. Collected(T, f[k])
    BY <1>5, <2>1, CollectedMore
  <2>3. CASE k = 1
    <3>1. f[k - 1] = [memo |-> m, maps |-> << >>] /\ walk[k] = a
      BY <1>2, <1>5, <2>3
    <3>2. f[k].maps = << GetIomapByAddr(T, f[k - 1].memo, Low32(walk[k])) >>
      BY <1>5, <2>1, <3>1, CollectedMore
    <3> QED
      BY <1>1, <2>2, <2>3, <3>1, <3>2
  <2>4. CASE k # 1
    <3>1. k - 1 # 0
      BY <2>4
    <3>2. f[k].maps # << >> /\ f[k].maps[1] = f[k - 1].maps[1]
      BY <1>5, <2>1, <3>1, CollectedMore, SMTT(60)
    <3> QED
      BY <1>5, <2>2, <3>1, <3>2
  <2> QED
    BY <2>3, <2>4
<1>6. Fine(n)
  <2>1. 0 \in S /\ \A k \in 1 .. n : k - 1 \in S => k \in S
    BY <1>4, <1>5
  <2> HIDE DEF S
  <2>2. n \in S
    BY <2>1, MemoFold!UpTo
  <2> QED
    BY <2>2 DEF S
<1> QED
  BY <1>2, <1>3, <1>6

(* In a range that one map holds, every page adds that map.                 *)
HoldsRange(map, a, count) == Holds(map, a) /\ Holds(map, a + count - 1)

AllAre(maps, n, k) == maps = [ i \in 1 .. n |-> k ]

(* Inside one map every page collects that map.                             *)
LEMMA CollectInOneMap ==
    ASSUME NEW T, Table(T), NEW m, MemoOk(T, m), NEW a \in Addr, NEW count \in Nat,
           NEW k \in DOMAIN T, HoldsRange(T[k], a, count)
    PROVE  AllAre(Collect(T, m, a, count).maps, Len(PageWalk(a, count)), k)
<1> DEFINE walk == PageWalk(a, count)
<1>1. a \in Nat
  BY AddrType
<1>2. PICK n \in Nat :
        /\ DOMAIN walk = 1 .. n /\ Len(walk) = n
        /\ \A i \in 1 .. n : walk[i] \in a .. a + count - 1
  BY <1>1, PageWalkShape
<1>3. PICK f : /\ f[0] = [memo |-> m, maps |-> << >>]
               /\ \A j \in 1 .. n : f[j] = CollectPage(T, f[j - 1], walk[j])
               /\ Collect(T, m, a, count) = f[n]
  <2>1. PICK f : Collects(f, T, m, a, count, n)
    BY <1>2, CollectTrace
  <2> QED
    BY <2>1 DEF Collects
<1>4. ASSUME NEW j \in 1 .. n PROVE Low32(walk[j]) \in Addr /\ Holds(T[k], Low32(walk[j]))
  <2>1. walk[j] \in a .. a + count - 1
    BY <1>2
  <2>2. T[k].start_addr \in 0 .. HALF - 1 /\ T[k].size \in 0 .. HALF - 1
    BY RowType
  <2> HIDE DEF walk
  <2>3. Holds(T[k], walk[j]) /\ walk[j] \in 0 .. WORD - 1
    BY <1>1, <2>1, <2>2, WordType, WidthAssumption DEF Holds, HoldsRange
  <2>4. Low32(walk[j]) = walk[j]
    BY <2>3, ModBelow, WordType DEF Low32
  <2> QED
    BY <2>3, <2>4 DEF Addr
<1> HIDE DEF walk
<1> DEFINE Fine(j) == MemoOk(T, f[j].memo) /\ f[j].maps = [ i \in 1 .. j |-> k ]
           S == { j \in 0 .. n : Fine(j) }
<1>5. Fine(0)
  BY <1>3
<1>6. ASSUME NEW j \in 1 .. n, Fine(j - 1) PROVE Fine(j)
  <2> DEFINE b == Low32(walk[j])
             x == GetIomapByAddr(T, f[j - 1].memo, b)
  <2>1. b \in Addr /\ Holds(T[k], b)
    BY <1>4
  <2> HIDE DEF b
  <2>2. x = k /\ k # NULL /\ MemoOk(T, MemoAfter(T, f[j - 1].memo, b))
    BY <1>6, <2>1, LookupIn
  <2>3. /\ f[j].memo = MemoAfter(T, f[j - 1].memo, b)
        /\ f[j].maps = IF f[j - 1].maps = << >> \/ x # NULL THEN Append(f[j - 1].maps, x)
                                                          ELSE f[j - 1].maps
    <3>1. f[j] = CollectPage(T, f[j - 1], walk[j])
      BY <1>3
    <3> QED
      BY <3>1 DEF CollectPage, b
  <2>4. f[j].maps = Append([ i \in 1 .. j - 1 |-> k ], k)
    BY <1>6, <2>2, <2>3
  <2>5. Append([ i \in 1 .. j - 1 |-> k ], k) = [ i \in 1 .. j |-> k ]
    OBVIOUS
  <2> QED
    BY <2>2, <2>3, <2>4, <2>5
<1>7. Fine(n)
  <2>1. 0 \in S /\ \A j \in 1 .. n : j - 1 \in S => j \in S
    BY <1>5, <1>6
  <2> HIDE DEF S
  <2>2. n \in S
    BY <2>1, MemoFold!UpTo
  <2> QED
    BY <2>2 DEF S
<1> QED
  BY <1>2, <1>3, <1>7 DEF walk, AllAre

-----------------------------------------------------------------------------
(***************************************************************************)
(* The copies.                                                             *)
(***************************************************************************)
LEMMA MinOfTwo ==
    ASSUME NEW x \in Int, NEW y \in Int
    PROVE  Min({x, y}) = IF x =< y THEN x ELSE y
<1>1. CASE x =< y
  <2>1. \A z \in {x, y} : (\A w \in {x, y} : z =< w) => z = x
    BY <1>1
  <2> QED
    BY <1>1, <2>1 DEF Min
<1>2. CASE ~(x =< y)
  <2>1. \A z \in {x, y} : (\A w \in {x, y} : z =< w) => z = y
    BY <1>2
  <2>2. y =< x
    BY <1>2
  <2> QED
    BY <1>2, <2>1, <2>2 DEF Min
<1> QED
  BY <1>1, <1>2

CopyOne(e, p, i) ==
    LET map == e.table[e.maps[i]]
        len == Min({map.size, e.count - p.copied})
    IN  [copied |-> p.copied + len,
         list   |-> Append(p.list,
                      [map   |-> e.maps[i],
                       guest |-> StartIn(map, e.addr, i),
                       host  |-> Low32(map.start_addr - e.table[e.maps[1]].start_addr),
                       len   |-> len])]

CopiesFold == INSTANCE FoldInduction WITH Op <- CopyOne

CopiesBy(f, T, maps, a, count) ==
    /\ f[0] = [copied |-> 0, list |-> << >>]
    /\ \A i \in 1 .. Len(maps) :
          f[i] = CopyOne([table |-> T, maps |-> maps, addr |-> a, count |-> count], f[i - 1], i)
    /\ Copies(T, maps, a, count) = f[Len(maps)].list

(* The list of copies is a fold over the collected maps.                    *)
LEMMA CopiesFolded ==
    ASSUME NEW e, e.maps # << >>, e.maps[1] # NULL
    PROVE  Copies(e.table, e.maps, e.addr, e.count)
           = CopiesFold!Fold(e, [copied |-> 0, list |-> << >>],
                             [ i \in 1 .. Len(e.maps) |-> i ]).list
BY DEF Copies, CopyOne, FoldLeft, MapThenFoldSet, Max, CopiesFold!Fold,
       CopiesFold!FoldLeft, CopiesFold!MapThenFoldSet, CopiesFold!Max

(* The list of copies, map by map.                                          *)
LEMMA CopiesTrace ==
    ASSUME NEW T, NEW maps, Len(maps) \in Nat, maps # << >>, maps[1] # NULL, NEW a, NEW count
    PROVE  \E f : CopiesBy(f, T, maps, a, count)
<1> DEFINE base == [copied |-> 0, list |-> << >>]
           seq == [ i \in 1 .. Len(maps) |-> i ]
           e == [table |-> T, maps |-> maps, addr |-> a, count |-> count]
<1>1. Copies(T, maps, a, count) = CopiesFold!Fold(e, base, seq).list
  <2>1. e.table = T /\ e.maps = maps /\ e.addr = a /\ e.count = count
    OBVIOUS
  <2> HIDE DEF e
  <2> QED
    BY <2>1, CopiesFolded
<1>2. DOMAIN seq = 1 .. Len(maps) /\ \A i \in 1 .. Len(maps) : seq[i] = i
  OBVIOUS
<1> HIDE DEF e, seq, base
<1>3. PICK f : CopiesFold!Traces(f, e, base, seq, Len(maps))
  BY <1>2, CopiesFold!FoldTrace
<1>4. CopiesBy(f, T, maps, a, count)
  BY <1>1, <1>2, <1>3 DEF CopiesFold!Traces, CopiesBy, e, base
<1> QED
  BY <1>4

(* Copy i of a transfer that starts at a.                                   *)
Planned(T, maps, a, count, i, c) ==
    LET first == T[maps[1]]
        map   == T[maps[i]]
    IN  /\ c.map = maps[i]
        /\ c.guest = StartIn(map, a, i)
        /\ c.host = Low32(map.start_addr - first.start_addr)
        /\ c.len \in Nat /\ c.len =< map.size /\ c.len =< count
        /\ i = 1 => c.len = IF first.size =< count THEN first.size ELSE count
        /\ i # 1 /\ count =< first.size => c.len = 0

(* There is one copy per collected map, each as planned for its place.      *)
LEMMA CopiesPlanned ==
    ASSUME NEW T, Table(T), NEW maps \in Seq(DOMAIN T), maps # << >>,
           NEW a \in Addr, NEW count \in Nat
    PROVE  /\ DOMAIN Copies(T, maps, a, count) = 1 .. Len(maps)
           /\ \A i \in 1 .. Len(maps) : Planned(T, maps, a, count, i, Copies(T, maps, a, count)[i])
<1> DEFINE n == Len(maps)
           e == [table |-> T, maps |-> maps, addr |-> a, count |-> count]
<1>1. n \in Nat /\ n # 0 /\ \A i \in 1 .. n : maps[i] \in DOMAIN T
  OBVIOUS
<1>2. maps[1] # NULL
  <2>1. DOMAIN T = 1 .. Len(T)
    BY DEF Table
  <2> QED
    BY <1>1, <2>1 DEF NULL
<1>3. PICK f : /\ f[0] = [copied |-> 0, list |-> << >>]
               /\ \A i \in 1 .. n : f[i] = CopyOne(e, f[i - 1], i)
               /\ Copies(T, maps, a, count) = f[n].list
  <2>1. PICK f : CopiesBy(f, T, maps, a, count)
    BY <1>1, <1>2, CopiesTrace
  <2> QED
    BY <2>1 DEF CopiesBy
<1>4. \A i \in 1 .. n : T[maps[i]].size \in Nat
  <2> TAKE i \in 1 .. n
  <2>1. T[maps[i]].size \in 0 .. HALF - 1
    BY <1>1, RowType
  <2> QED
    BY <2>1
<1> HIDE DEF n
<1> DEFINE Fine(j) == /\ f[j].copied \in 0 .. count
                      /\ j # 0 /\ count =< T[maps[1]].size => f[j].copied = count
                      /\ Len(f[j].list) = j /\ DOMAIN f[j].list = 1 .. j
                      /\ \A i \in 1 .. j : Planned(T, maps, a, count, i, f[j].list[i])
           S == { j \in 0 .. n : Fine(j) }
<1>5. Fine(0)
  BY <1>3
<1>6. ASSUME NEW j \in 1 .. n, Fine(j - 1) PROVE Fine(j)
  <2> DEFINE p == f[j - 1]
             size == T[maps[j]].size
             len == Min({size, count - p.copied})
             new == [map   |-> maps[j],
                     guest |-> StartIn(T[maps[j]], a, j),
                     host  |-> Low32(T[maps[j]].start_addr - T[maps[1]].start_addr),
                     len   |-> len]
  <2>1. f[j] = CopyOne(e, p, j)
    BY <1>3
  <2>2. f[j].copied = p.copied + len /\ f[j].list = Append(p.list, new)
    BY <2>1 DEF CopyOne
  <2>3. p.copied \in 0 .. count /\ size \in Nat
    BY <1>4, <1>6
  <2>4. len = IF size =< count - p.copied THEN size ELSE count - p.copied
    <3> HIDE DEF size, p
    <3> QED
      BY <2>3, MinOfTwo
  <2>5. j = 1 => p.copied = 0
    BY <1>3
  <2> HIDE DEF p, size, len, new
  <2>6. len \in Nat /\ len =< size /\ len =< count - p.copied
    BY <2>3, <2>4
  <2>7. f[j].copied \in 0 .. count
    BY <2>2, <2>3, <2>6
  <2>8. ASSUME count =< T[maps[1]].size PROVE f[j].copied = count
    <3>1. CASE j = 1
      BY <2>2, <2>3, <2>4, <2>5, <2>8, <3>1 DEF size
    <3>2. CASE j # 1
      <4>1. p.copied = count
        BY <1>6, <2>8, <3>2 DEF p
      <4> QED
        BY <2>2, <2>3, <2>6, <4>1
    <3> QED
      BY <3>1, <3>2
  <2>9. Planned(T, maps, a, count, j, new)
    <3>1. j = 1 => len = IF T[maps[1]].size =< count THEN T[maps[1]].size ELSE count
      BY <2>3, <2>4, <2>5 DEF size
    <3>2. j # 1 /\ count =< T[maps[1]].size => len = 0
      <4> SUFFICES ASSUME j # 1, count =< T[maps[1]].size PROVE len = 0
        OBVIOUS
      <4>1. p.copied = count
        BY <1>6 DEF p
      <4> QED
        BY <2>3, <2>6, <4>1
    <3>3. len =< count
      BY <2>3, <2>6
    <3> QED
      BY <2>6, <3>1, <3>2, <3>3 DEF Planned, new, size
  <2>10. /\ Len(f[j].list) = j /\ DOMAIN f[j].list = 1 .. j
         /\ \A i \in 1 .. j - 1 : f[j].list[i] = p.list[i]
         /\ f[j].list[j] = new
    <3>1. Len(p.list) = j - 1 /\ DOMAIN p.list = 1 .. j - 1
      BY <1>6 DEF p
    <3> QED
      BY <2>2, <3>1
  <2>11. ASSUME NEW i \in 1 .. j PROVE Planned(T, maps, a, count, i, f[j].list[i])
    <3>1. CASE i = j
      BY <2>9, <2>10, <3>1
    <3>2. CASE i # j
      <4>1. i \in 1 .. j - 1
        BY <3>2
      <4>2. Planned(T, maps, a, count, i, p.list[i])
        BY <1>6, <4>1 DEF p
      <4> QED
        BY <2>10, <4>1, <4>2
    <3> QED
      BY <3>1, <3>2
  <2> QED
    BY <2>7, <2>8, <2>10, <2>11
<1>7. Fine(n)
  <2>1. 0 \in S /\ \A j \in 1 .. n : j - 1 \in S => j \in S
    BY <1>5, <1>6, <1>1, SMTT(30)
  <2> HIDE DEF S
  <2>2. n \in Nat
    BY <1>1
  <2>3. \A j \in 0 .. n : j \in S
    BY <2>1, <2>2, MemoFold!UpTo, Zenon
  <2> QED
    BY <2>2, <2>3 DEF S
<1> QED
  BY <1>3, <1>7 DEF n

(* Copy i of a transfer from or to address a, whatever the table holds.     *)
InPlan(T, maps, a, count, copies, i) ==
    /\ i \in DOMAIN maps /\ 1 \in DOMAIN maps
    /\ maps[1] \in DOMAIN T /\ maps[i] \in DOMAIN T
    /\ Holds(T[maps[1]], a)
    /\ Planned(T, maps, a, count, i, copies[i])

(* Every copy of every transfer is the plan's.                              *)
LEMMA TransferPlan ==
    ASSUME NEW T, Table(T), NEW m, MemoOk(T, m), NEW a \in Addr, NEW count \in Nat,
           NEW maps, maps = Collect(T, m, a, count).maps,
           NEW copies, copies = Copies(T, maps, a, count)
    PROVE  /\ \E n \in Nat : DOMAIN copies = 1 .. n
           /\ \A i \in DOMAIN copies : InPlan(T, maps, a, count, copies, i)
<1>1. /\ maps \in Seq(0 .. Len(T))
      /\ \A i \in DOMAIN maps : i # 1 => maps[i] # NULL
      /\ maps = << >> <=> count = 0
      /\ count # 0 => maps[1] = GetIomapByAddr(T, m, a)
  BY CollectOk DEF Collected
<1>2. CASE maps = << >> \/ maps[1] = NULL
  <2>1. copies = << >>
    BY <1>2 DEF Copies
  <2>2. DOMAIN copies = 1 .. 0 /\ DOMAIN copies = {}
    BY <2>1
  <2> QED
    BY <2>2
<1>3. CASE maps # << >> /\ maps[1] # NULL
  <2>1. DOMAIN T = 1 .. Len(T) /\ Len(T) \in Nat /\ DOMAIN maps = 1 .. Len(maps) /\ Len(maps) \in Nat
    BY <1>1 DEF Table
  <2>2. \A i \in DOMAIN maps : maps[i] \in DOMAIN T
    BY <1>1, <1>3, <2>1 DEF NULL
  <2>3. maps \in Seq(DOMAIN T)
    <3>1. maps \in [ 1 .. Len(maps) -> DOMAIN T ]
      BY <1>1, <2>1, <2>2
    <3> QED
      BY <2>1, <3>1
  <2>4. 1 \in DOMAIN maps
    BY <1>1, <1>3, <2>1
  <2>5. Holds(T[maps[1]], a)
    BY <1>1, <1>3, LookupIn
  <2>6. /\ DOMAIN copies = 1 .. Len(maps)
        /\ \A i \in 1 .. Len(maps) : Planned(T, maps, a, count, i, copies[i])
    BY <1>3, <2>3, CopiesPlanned
  <2> QED
    BY <2>1, <2>2, <2>4, <2>5, <2>6 DEF InPlan
<1> QED
  BY <1>2, <1>3

(* A defined copy of fewer than HALF bytes reaches no byte outside the      *)
(* count from a on, although a later copy starts at the start of its map.   *)
LEMMA CopyInRange ==
    ASSUME NEW T, Table(T), NEW m, MemoOk(T, m), NEW a \in Addr, NEW count \in Nat, count < HALF,
           NEW maps, maps = Collect(T, m, a, count).maps,
           NEW copies, copies = Copies(T, maps, a, count),
           \A i \in DOMAIN copies : InBuffers(T, copies[i], count),
           NEW i \in DOMAIN copies, copies[i].len # 0
    PROVE  a =< copies[i].guest /\ copies[i].guest + copies[i].len =< a + count
<1> DEFINE c == copies[i]
           first == T[maps[1]]
           map == T[maps[i]]
           d == copies[1]
<1>1. /\ i \in DOMAIN maps /\ 1 \in DOMAIN copies
      /\ maps[1] \in DOMAIN T /\ maps[i] \in DOMAIN T /\ Holds(first, a)
      /\ Planned(T, maps, a, count, i, c) /\ Planned(T, maps, a, count, 1, d)
  <2>1. PICK n \in Nat : DOMAIN copies = 1 .. n
    BY TransferPlan
  <2>2. 1 \in DOMAIN copies
    BY <2>1
  <2>3. InPlan(T, maps, a, count, copies, i) /\ InPlan(T, maps, a, count, copies, 1)
    BY <2>2, TransferPlan
  <2> QED
    BY <2>2, <2>3 DEF InPlan
<1>2. /\ first.start_addr \in 0 .. HALF - 1 /\ first.size \in 0 .. HALF - 1
      /\ map.start_addr \in 0 .. HALF - 1 /\ map.size \in 0 .. HALF - 1
      /\ a \in Int /\ HALF \in Int /\ WORD = 2 * HALF
  BY <1>1, RowType, AddrType, WordType, WidthAssumption
<1>3. InBuffers(T, c, count) /\ InBuffers(T, d, count)
  BY <1>1
<1>4. c.len \in Nat /\ c.len =< count /\ c.len # 0
  BY <1>1 DEF Planned
<1>5. CASE i = 1
  <2>1. c.guest = a
    BY <1>1, <1>5 DEF Planned, StartIn
  <2> QED
    BY <1>2, <1>4, <2>1
<1>6. CASE i # 1
  <2>1. c.guest = map.start_addr /\ c.host = Low32(map.start_addr - first.start_addr)
    BY <1>1, <1>6 DEF Planned, StartIn
  <2>2. first.size < count
    BY <1>1, <1>2, <1>4, <1>6 DEF Planned
  <2>3. d.guest = a /\ d.len = first.size /\ d.map = maps[1]
    BY <1>1, <1>2, <2>2 DEF Planned, StartIn
  <2>4. a =< first.start_addr /\ first.start_addr =< a
    <3>1. a + first.size =< first.start_addr + first.size
      BY <1>3, <2>3 DEF InBuffers
    <3>2. first.start_addr =< a
      BY <1>1 DEF Holds
    <3> QED
      BY <1>2, <3>1, <3>2
  <2>5. c.host + c.len =< count
    BY <1>3 DEF InBuffers
  <2>6. map.start_addr >= first.start_addr /\ c.host = map.start_addr - first.start_addr
    <3> DEFINE x == map.start_addr - first.start_addr
    <3> HIDE DEF c, map, first
    <3>1. x \in Int /\ -HALF < x /\ x < HALF
      BY <1>2
    <3>2. CASE x >= 0
      <4>1. x \in 0 .. WORD - 1
        BY <1>2, <3>1, <3>2
      <4>2. Low32(x) = x
        BY <4>1, ModBelow, WordType DEF Low32
      <4> QED
        BY <1>2, <2>1, <3>2, <4>2
    <3>3. CASE ~(x >= 0)
      <4>1. x + WORD \in 0 .. WORD - 1 /\ x + WORD > HALF
        BY <1>2, <3>1, <3>3
      <4>2. Low32(x) = x + WORD
        <5>1. x \in -WORD .. -1
          BY <1>2, <3>1, <3>3
        <5> QED
          BY <5>1, ModBorrow, WordType DEF Low32
      <4>3. c.host + c.len > HALF
        BY <1>2, <1>4, <2>1, <3>1, <4>1, <4>2
      <4> QED
        BY <1>2, <1>4, <2>1, <2>5, <3>1, <4>1, <4>2, <4>3
    <3> QED
      BY <3>2, <3>3
  <2> QED
    BY <1>2, <1>4, <2>1, <2>4, <2>5, <2>6
<1> QED
  BY <1>5, <1>6

-----------------------------------------------------------------------------
(***************************************************************************)
(* The bytes that a transfer moves.                                        *)
(***************************************************************************)
Paste(host, m, c) ==
    [ a \in DOMAIN m |-> IF c.guest =< a /\ a < c.guest + c.len
                         THEN host[c.host + a - c.guest] ELSE m[a] ]

PasteFold == INSTANCE FoldInduction WITH Op <- Paste

Pastes(f, host, mem, copies, n, result) ==
    /\ f[0] = mem
    /\ \A i \in 1 .. n : f[i] = Paste(host, f[i - 1], copies[i])
    /\ result = f[n]

(* Guest memory after each memcpy of a copy into it.                        *)
LEMMA PasteTrace ==
    ASSUME NEW T, NEW m, NEW mem, NEW a, NEW host, NEW count, NEW copies,
           copies = Copies(T, Collect(T, m, a, count).maps, a, count),
           NEW n \in Nat, DOMAIN copies = 1 .. n
    PROVE  \E f : Pastes(f, host, mem, copies, n, CopyFromHost(T, m, mem, a, host, count))
<1>1. CopyFromHost(T, m, mem, a, host, count) = PasteFold!Fold(host, mem, copies)
  BY DEF CopyFromHost, Paste, FoldLeft, MapThenFoldSet, Max, PasteFold!Fold,
         PasteFold!FoldLeft, PasteFold!MapThenFoldSet, PasteFold!Max
<1>2. PICK f : PasteFold!Traces(f, host, mem, copies, n)
  BY PasteFold!FoldTrace
<1> QED
  BY <1>1, <1>2 DEF PasteFold!Traces, Pastes

Inside(c, x) == c.guest =< x /\ x < c.guest + c.len

(* Guest memory keeps its shape, and a byte of it is either the old one or  *)
(* the one that some copy put there.                                        *)
LEMMA CopyFromHostBytes ==
    ASSUME NEW T, Table(T), NEW m, MemoOk(T, m), NEW a \in Addr, NEW count \in Nat,
           NEW mem, mem = [ x \in DOMAIN mem |-> mem[x] ], NEW host, NEW copies,
           copies = Copies(T, Collect(T, m, a, count).maps, a, count),
           NEW result, result = CopyFromHost(T, m, mem, a, host, count)
    PROVE  /\ result = [ x \in DOMAIN mem |-> result[x] ]
           /\ \A x \in DOMAIN mem :
                \/ result[x] = mem[x]
                \/ \E i \in DOMAIN copies : /\ Inside(copies[i], x)
                                            /\ result[x] = host[copies[i].host + x - copies[i].guest]
<1>1. PICK n \in Nat : DOMAIN copies = 1 .. n
  BY TransferPlan
<1>2. PICK f : Pastes(f, host, mem, copies, n, result)
  BY <1>1, PasteTrace
<1> DEFINE Shape(j) == f[j] = [ x \in DOMAIN mem |-> f[j][x] ]
           Bytes(j) == \A x \in DOMAIN mem :
                         \/ f[j][x] = mem[x]
                         \/ \E i \in DOMAIN copies :
                              /\ Inside(copies[i], x)
                              /\ f[j][x] = host[copies[i].host + x - copies[i].guest]
           S == { j \in 0 .. n : DOMAIN f[j] = DOMAIN mem /\ Shape(j) /\ Bytes(j) }
<1>3. 0 \in S
  BY <1>2 DEF Pastes
<1>4. ASSUME NEW j \in 1 .. n, j - 1 \in S PROVE j \in S
  <2>1. f[j] = Paste(host, f[j - 1], copies[j]) /\ DOMAIN f[j - 1] = DOMAIN mem /\ Bytes(j - 1)
    BY <1>2, <1>4 DEF Pastes
  <2>2. f[j] = [ x \in DOMAIN mem |-> IF Inside(copies[j], x)
                                      THEN host[copies[j].host + x - copies[j].guest]
                                      ELSE f[j - 1][x] ]
    BY <2>1 DEF Paste, Inside
  <2>3. DOMAIN f[j] = DOMAIN mem /\ Shape(j)
    BY <2>2
  <2>4. ASSUME NEW x \in DOMAIN mem
        PROVE  \/ f[j][x] = mem[x]
               \/ \E i \in DOMAIN copies :
                    /\ Inside(copies[i], x)
                    /\ f[j][x] = host[copies[i].host + x - copies[i].guest]
    <3>1. CASE Inside(copies[j], x)
      <4>1. j \in DOMAIN copies /\ f[j][x] = host[copies[j].host + x - copies[j].guest]
        BY <1>1, <2>2, <3>1
      <4> QED
        BY <3>1, <4>1
    <3>2. CASE ~Inside(copies[j], x)
      <4>1. f[j][x] = f[j - 1][x]
        BY <2>2, <3>2
      <4> QED
        BY <2>1, <4>1
    <3> QED
      BY <3>1, <3>2
  <2> QED
    BY <2>3, <2>4
<1>5. n \in S
  <2> HIDE DEF S
  <2> QED
    BY <1>3, <1>4, PasteFold!UpTo
<1> QED
  BY <1>2, <1>5 DEF Pastes

Fetched(mem, h, c) ==
    [ k \in DOMAIN h |-> IF c.host =< k /\ k < c.host + c.len
                         THEN mem[c.guest + k - c.host] ELSE h[k] ]

FetchFold == INSTANCE FoldInduction WITH Op <- Fetched

Fetches(f, mem, blank, copies, n, result) ==
    /\ f[0] = blank
    /\ \A i \in 1 .. n : f[i] = Fetched(mem, f[i - 1], copies[i])
    /\ result = f[n]

(* The host's buffer after each memcpy of a copy out of guest memory.       *)
LEMMA FetchTrace ==
    ASSUME NEW T, NEW m, NEW mem, NEW a, NEW uninit, NEW count, NEW copies,
           copies = Copies(T, Collect(T, m, a, count).maps, a, count),
           NEW n \in Nat, DOMAIN copies = 1 .. n
    PROVE  \E f : Fetches(f, mem, [ k \in 0 .. count - 1 |-> uninit ], copies, n,
                          CopyFromGuest(T, m, mem, a, count, uninit))
<1> DEFINE blank == [ k \in 0 .. count - 1 |-> uninit ]
<1>1. CopyFromGuest(T, m, mem, a, count, uninit) = FetchFold!Fold(mem, blank, copies)
  BY DEF CopyFromGuest, Fetched, FoldLeft, MapThenFoldSet, Max, FetchFold!Fold,
         FetchFold!FoldLeft, FetchFold!MapThenFoldSet, FetchFold!Max
<1> HIDE DEF blank
<1>2. PICK f : FetchFold!Traces(f, mem, blank, copies, n)
  BY FetchFold!FoldTrace
<1>3. Fetches(f, mem, blank, copies, n, CopyFromGuest(T, m, mem, a, count, uninit))
  BY <1>1, <1>2 DEF FetchFold!Traces, Fetches
<1> QED
  BY <1>3 DEF blank

Filled(c, k) == c.host =< k /\ k < c.host + c.len

(* A byte of the host buffer is what malloc left or what some copy put      *)
(* there.                                                                   *)
LEMMA CopyFromGuestBytes ==
    ASSUME NEW T, Table(T), NEW m, MemoOk(T, m), NEW a \in Addr, NEW count \in Nat,
           NEW mem, NEW uninit, NEW copies,
           copies = Copies(T, Collect(T, m, a, count).maps, a, count),
           NEW result, result = CopyFromGuest(T, m, mem, a, count, uninit)
    PROVE  /\ DOMAIN result = 0 .. count - 1
           /\ \A k \in 0 .. count - 1 :
                \/ result[k] = uninit
                \/ \E i \in DOMAIN copies : /\ Filled(copies[i], k)
                                            /\ result[k] = mem[copies[i].guest + k - copies[i].host]
<1>1. PICK n \in Nat : DOMAIN copies = 1 .. n
  BY TransferPlan
<1>2. PICK f : Fetches(f, mem, [ k \in 0 .. count - 1 |-> uninit ], copies, n, result)
  BY <1>1, FetchTrace
<1> DEFINE Bytes(j) == \A k \in 0 .. count - 1 :
                         \/ f[j][k] = uninit
                         \/ \E i \in DOMAIN copies :
                              /\ Filled(copies[i], k)
                              /\ f[j][k] = mem[copies[i].guest + k - copies[i].host]
           S == { j \in 0 .. n : DOMAIN f[j] = 0 .. count - 1 /\ Bytes(j) }
<1>3. 0 \in S
  BY <1>2 DEF Fetches
<1>4. ASSUME NEW j \in 1 .. n, j - 1 \in S PROVE j \in S
  <2>1. f[j] = Fetched(mem, f[j - 1], copies[j]) /\ DOMAIN f[j - 1] = 0 .. count - 1 /\ Bytes(j - 1)
    BY <1>2, <1>4 DEF Fetches
  <2>2. f[j] = [ k \in 0 .. count - 1 |-> IF Filled(copies[j], k)
                                      THEN mem[copies[j].guest + k - copies[j].host]
                                      ELSE f[j - 1][k] ]
    BY <2>1 DEF Fetched, Filled
  <2>3. DOMAIN f[j] = 0 .. count - 1
    BY <2>2
  <2>4. ASSUME NEW k \in 0 .. count - 1
        PROVE  \/ f[j][k] = uninit
               \/ \E i \in DOMAIN copies :
                    /\ Filled(copies[i], k)
                    /\ f[j][k] = mem[copies[i].guest + k - copies[i].host]
    <3>1. CASE Filled(copies[j], k)
      <4>1. j \in DOMAIN copies /\ f[j][k] = mem[copies[j].guest + k - copies[j].host]
        BY <1>1, <2>2, <3>1
      <4> QED
        BY <3>1, <4>1
    <3>2. CASE ~Filled(copies[j], k)
      <4>1. f[j][k] = f[j - 1][k]
        BY <2>2, <3>2
      <4> QED
        BY <2>1, <4>1
    <3> QED
      BY <3>1, <3>2
  <2> QED
    BY <2>3, <2>4
<1>5. n \in S
  <2> HIDE DEF S
  <2> QED
    BY <1>3, <1>4, FetchFold!UpTo
<1> QED
  BY <1>2, <1>5 DEF Fetches

(* Where a transfer is defined, each memcpy stays inside the host's buffer  *)
(* and inside one map.                                                      *)
LEMMA CopyInside ==
    ASSUME NEW T, Table(T), NEW m, MemoOk(T, m), NEW a \in Addr, NEW count \in Nat,
           CopyDefined(T, m, a, count), NEW copies,
           copies = Copies(T, Collect(T, m, a, count).maps, a, count), NEW i \in DOMAIN copies
    PROVE  /\ copies[i].host \in Nat /\ copies[i].guest \in Nat /\ copies[i].len \in Nat
           /\ copies[i].host + copies[i].len =< count
           /\ \A x \in Nat : Inside(copies[i], x) => x \in Mapped(T)
<1> DEFINE c == copies[i]
           maps == Collect(T, m, a, count).maps
           map == T[maps[i]]
<1>1. InBuffers(T, c, count)
  BY DEF CopyDefined
<1>2. InPlan(T, maps, a, count, copies, i)
  BY TransferPlan
<1> HIDE DEF maps
<1>3. /\ maps[i] \in DOMAIN T /\ Planned(T, maps, a, count, i, c)
      /\ i = 1 => Holds(map, a)
  BY <1>2 DEF InPlan
<1>4. /\ map.start_addr \in 0 .. HALF - 1 /\ map.size \in 0 .. HALF - 1
      /\ a \in Nat /\ HALF \in Int /\ WORD = 2 * HALF
  BY <1>3, RowType, AddrType, WordType, WidthAssumption
<1>5. /\ c.map = maps[i] /\ c.guest = IF i = 1 THEN a ELSE map.start_addr
      /\ c.len \in Nat /\ c.host \in Nat
  <2>1. c.host \in Nat
    <3>1. T[maps[1]].start_addr \in Int
      BY <1>2, RowType DEF InPlan
    <3>2. map.start_addr - T[maps[1]].start_addr \in Int
      BY <1>4, <3>1
    <3>3. c.host \in Addr
      BY <1>3, <3>2, LowAddr DEF Planned
    <3> QED
      BY <3>3, AddrType
  <2> QED
    BY <1>3, <2>1 DEF Planned, StartIn
<1>6. c.guest + c.len =< map.start_addr + map.size /\ c.host + c.len =< count
  BY <1>1, <1>5 DEF InBuffers
<1>7. ASSUME NEW x \in Nat, Inside(c, x) PROVE x \in Mapped(T)
  <2>1. map.start_addr =< c.guest
    BY <1>3, <1>4, <1>5 DEF Holds
  <2>2. c.guest =< x /\ x < c.guest + c.len /\ c.guest \in Nat
    BY <1>4, <1>5, <1>7 DEF Inside
  <2> HIDE DEF c, map
  <2>3. Holds(map, x) /\ x \in Addr
    BY <1>4, <1>5, <1>6, <2>1, <2>2 DEF Holds, Addr
  <2> QED
    BY <1>3, <2>3, MappedIn DEF map
<1> QED
  BY <1>4, <1>5, <1>6, <1>7

(* A defined copy into guest memory moves bytes of the host buffer only ... *)
THEOREM CopyFromHostTyped ==
    ASSUME NEW T, Table(T), NEW m, MemoOk(T, m), NEW a \in Addr, NEW count \in Nat,
           CopyDefined(T, m, a, count), NEW D, D \subseteq Nat, NEW V, NEW mem \in [ D -> V ],
           NEW host, \A k \in 0 .. count - 1 : host[k] \in V
    PROVE  CopyFromHost(T, m, mem, a, host, count) \in [ D -> V ]
<1> DEFINE copies == Copies(T, Collect(T, m, a, count).maps, a, count)
           result == CopyFromHost(T, m, mem, a, host, count)
<1>1. mem = [ x \in DOMAIN mem |-> mem[x] ] /\ DOMAIN mem = D
  OBVIOUS
<1>2. /\ result = [ x \in D |-> result[x] ]
      /\ \A x \in D :
           \/ result[x] = mem[x]
           \/ \E i \in DOMAIN copies : /\ Inside(copies[i], x)
                                       /\ result[x] = host[copies[i].host + x - copies[i].guest]
  BY <1>1, CopyFromHostBytes
<1>3. ASSUME NEW x \in D, NEW i \in DOMAIN copies, Inside(copies[i], x)
      PROVE  copies[i].host + x - copies[i].guest \in 0 .. count - 1
  <2>1. /\ copies[i].host \in Nat /\ copies[i].guest \in Nat /\ copies[i].len \in Nat
        /\ copies[i].host + copies[i].len =< count
    BY CopyInside
  <2>2. copies[i].guest =< x /\ x < copies[i].guest + copies[i].len /\ x \in Nat
    BY <1>3 DEF Inside
  <2> HIDE DEF copies
  <2> QED
    BY <2>1, <2>2
<1>4. \A x \in D : result[x] \in V
  <2> TAKE x \in D
  <2>1. CASE result[x] = mem[x]
    BY <2>1
  <2>2. CASE result[x] # mem[x]
    <3>1. PICK i \in DOMAIN copies : /\ Inside(copies[i], x)
                                     /\ result[x] = host[copies[i].host + x - copies[i].guest]
      BY <1>2, <2>2
    <3>2. copies[i].host + x - copies[i].guest \in 0 .. count - 1
      BY <1>3, <3>1
    <3> QED
      BY <3>1, <3>2
  <2> QED
    BY <2>1, <2>2
<1> HIDE DEF result
<1> QED
  BY <1>2, <1>4 DEF result

(* ... and, of fewer than HALF bytes, changes none outside its count.       *)
THEOREM CopyFromHostInRange ==
    ASSUME NEW T, Table(T), NEW m, MemoOk(T, m), NEW a \in Addr, NEW count \in Nat, count < HALF,
           CopyDefined(T, m, a, count), NEW D, D \subseteq Nat, NEW V, NEW mem \in [ D -> V ],
           NEW host, NEW x \in D, CopyFromHost(T, m, mem, a, host, count)[x] # mem[x]
    PROVE  a =< x /\ x < a + count
<1> DEFINE maps == Collect(T, m, a, count).maps
           copies == Copies(T, maps, a, count)
           result == CopyFromHost(T, m, mem, a, host, count)
<1>1. mem = [ y \in DOMAIN mem |-> mem[y] ] /\ DOMAIN mem = D
  OBVIOUS
<1>2. PICK i \in DOMAIN copies : Inside(copies[i], x)
  BY <1>1, CopyFromHostBytes
<1>3. /\ copies[i].guest \in Nat /\ copies[i].len \in Nat
      /\ \A j \in DOMAIN copies : InBuffers(T, copies[j], count)
  <2>1. copies[i].guest \in Nat /\ copies[i].len \in Nat
    BY CopyInside
  <2> QED
    BY <2>1 DEF CopyDefined
<1>4. copies[i].guest =< x /\ x < copies[i].guest + copies[i].len /\ x \in Nat /\ a \in Nat
  BY <1>2, AddrType DEF Inside
<1>5. copies[i].len # 0
  BY <1>3, <1>4
<1>6. a =< copies[i].guest /\ copies[i].guest + copies[i].len =< a + count
  BY <1>3, <1>5, CopyInRange
<1> HIDE DEF copies
<1> QED
  BY <1>3, <1>4, <1>6

(* A defined copy from guest memory yields bytes of guest memory, or ones   *)
(* that no copy reached.                                                    *)
THEOREM CopyFromGuestTyped ==
    ASSUME NEW T, Table(T), NEW m, MemoOk(T, m), NEW a \in Addr, NEW count \in Nat,
           CopyDefined(T, m, a, count), NEW V, NEW mem \in [ Mapped(T) -> V ], NEW uninit
    PROVE  LET result == CopyFromGuest(T, m, mem, a, count, uninit)
           IN  /\ DOMAIN result = 0 .. count - 1
               /\ \A k \in 0 .. count - 1 : result[k] \in V \cup {uninit}
<1> DEFINE copies == Copies(T, Collect(T, m, a, count).maps, a, count)
           result == CopyFromGuest(T, m, mem, a, count, uninit)
<1>1. /\ DOMAIN result = 0 .. count - 1
      /\ \A k \in 0 .. count - 1 :
           \/ result[k] = uninit
           \/ \E i \in DOMAIN copies : /\ Filled(copies[i], k)
                                       /\ result[k] = mem[copies[i].guest + k - copies[i].host]
  BY CopyFromGuestBytes
<1>2. ASSUME NEW k \in 0 .. count - 1, NEW i \in DOMAIN copies, Filled(copies[i], k)
      PROVE  mem[copies[i].guest + k - copies[i].host] \in V
  <2> DEFINE x == copies[i].guest + k - copies[i].host
  <2>1. /\ copies[i].host \in Nat /\ copies[i].guest \in Nat /\ copies[i].len \in Nat
        /\ \A y \in Nat : Inside(copies[i], y) => y \in Mapped(T)
    BY CopyInside
  <2>2. copies[i].host =< k /\ k < copies[i].host + copies[i].len
    BY <1>2 DEF Filled
  <2> HIDE DEF copies
  <2>3. x \in Nat /\ Inside(copies[i], x)
    BY <2>1, <2>2 DEF Inside
  <2> QED
    BY <2>1, <2>3
<1> HIDE DEF result, copies
<1>3. ASSUME NEW k \in 0 .. count - 1 PROVE result[k] \in V \cup {uninit}
  BY <1>1, <1>2
<1> QED
  BY <1>1, <1>3 DEF result

(***************************************************************************)
(* A range that one map holds and that spans fewer pages than the array    *)
(* has slots is moved whole by the first copy, wherever in the map it is;  *)
(* the later copies move nothing.                                          *)
(***************************************************************************)
LEMMA OneMapPlan ==
    ASSUME NEW T, Table(T), NEW m, MemoOk(T, m), NEW a \in Addr, NEW count \in Nat,
           InOneMap(T, a, count), ShortWalk(a, count), NEW copies,
           copies = Copies(T, Collect(T, m, a, count).maps, a, count)
    PROVE  /\ CopyDefined(T, m, a, count)
           /\ count # 0 => 1 \in DOMAIN copies
           /\ \A i \in DOMAIN copies : count # 0
           /\ \A i \in DOMAIN copies :
                i = 1 => copies[i].guest = a /\ copies[i].host = 0 /\ copies[i].len = count
           /\ \A i \in DOMAIN copies : i # 1 => copies[i].len = 0 /\ copies[i].host \in Nat
                                                /\ copies[i].guest \in Nat
<1> DEFINE maps == Collect(T, m, a, count).maps
           n == Len(PageWalk(a, count))
<1>1. PICK k \in DOMAIN T : HoldsRange(T[k], a, count)
  <2>1. PICK k \in DOMAIN T : { a, a + count - 1 } \subseteq Region(T[k])
    BY DEF InOneMap
  <2> QED
    BY <2>1 DEF Region, Holds, HoldsRange
<1>2. maps = [ i \in 1 .. n |-> k ]
  <2>1. AllAre(maps, n, k)
    BY <1>1, CollectInOneMap
  <2> QED
    BY <2>1 DEF AllAre
<1>3. n \in Nat /\ (n = 0 <=> count = 0) /\ n < HARDCAP
  <2>1. a \in Nat
    BY AddrType
  <2>2. PICK x \in Nat : n = x /\ (x = 0 <=> count = 0)
    BY <2>1, PageWalkShape
  <2> QED
    BY <2>2 DEF ShortWalk
<1> HIDE DEF n
<1>4. DOMAIN maps = 1 .. n /\ Len(maps) = n /\ \A i \in 1 .. n : maps[i] = k
  BY <1>2, <1>3
<1>5. /\ T[k].start_addr \in 0 .. HALF - 1 /\ T[k].size \in 0 .. HALF - 1
      /\ a \in Nat /\ T[k].start_addr =< a /\ a + count =< T[k].start_addr + T[k].size
      /\ count =< T[k].size
  <2>1. T[k].start_addr \in 0 .. HALF - 1 /\ T[k].size \in 0 .. HALF - 1 /\ a \in Nat
    BY RowType, AddrType
  <2> QED
    BY <1>1, <2>1 DEF Holds, HoldsRange
<1>6. ASSUME NEW i \in DOMAIN copies
      PROVE  /\ i \in 1 .. n /\ copies[i].map = k
             /\ copies[i].host = 0
             /\ copies[i].guest = IF i = 1 THEN a ELSE T[k].start_addr
             /\ copies[i].len = IF i = 1 THEN count ELSE 0
  <2>1. InPlan(T, maps, a, count, copies, i)
    BY TransferPlan
  <2> HIDE DEF maps
  <2>2. i \in 1 .. n /\ 1 \in 1 .. n /\ maps[i] = k /\ maps[1] = k /\ Planned(T, maps, a, count, i, copies[i])
    BY <1>4, <2>1 DEF InPlan
  <2>3. Low32(T[k].start_addr - T[k].start_addr) = 0
    <3>1. T[k].start_addr - T[k].start_addr = 0
      BY <1>5
    <3>2. 0 % WORD = 0
      BY WordType, ModBelow
    <3> QED
      BY <3>1, <3>2 DEF Low32
  <2>4. copies[i].map = k /\ copies[i].host = 0 /\ copies[i].guest = IF i = 1 THEN a ELSE T[k].start_addr
    BY <2>2, <2>3 DEF Planned, StartIn
  <2>5. copies[i].len = IF i = 1 THEN count ELSE 0
    <3>1. i = 1 => copies[i].len = IF T[k].size =< count THEN T[k].size ELSE count
      BY <2>2 DEF Planned
    <3>2. i # 1 => copies[i].len = 0
      BY <1>5, <2>2 DEF Planned
    <3> QED
      BY <1>5, <3>1, <3>2
  <2> QED
    BY <2>2, <2>4, <2>5
<1>7. \A i \in DOMAIN copies : InBuffers(T, copies[i], count)
  <2> TAKE i \in DOMAIN copies
  <2> QED
    BY <1>5, <1>6 DEF InBuffers
<1>8. ~ArrayOverrun(maps)
  BY <1>3, <1>4, CapAssumption DEF ArrayOverrun
<1>9. CopyDefined(T, m, a, count)
  BY <1>7, <1>8 DEF CopyDefined
<1>10. count # 0 => 1 \in DOMAIN copies
  <2> SUFFICES ASSUME count # 0 PROVE 1 \in DOMAIN copies
    OBVIOUS
  <2>1. n # 0 /\ 1 \in 1 .. n
    BY <1>3
  <2>2. maps \in Seq(DOMAIN T) /\ maps # << >>
    <3>1. maps \in [ 1 .. n -> DOMAIN T ]
      BY <1>2
    <3> HIDE DEF maps
    <3> QED
      BY <1>3, <1>4, <2>1, <3>1
  <2> HIDE DEF maps
  <2>3. DOMAIN copies = 1 .. Len(maps)
    BY <2>2, CopiesPlanned DEF maps
  <2> QED
    BY <1>4, <2>1, <2>3
<1>11. \A i \in DOMAIN copies : count # 0
  <2> TAKE i \in DOMAIN copies
  <2>1. i \in 1 .. n
    BY <1>6
  <2> QED
    BY <1>3, <2>1
<1> HIDE DEF maps
<1>12. \A i \in DOMAIN copies :
         i = 1 => copies[i].guest = a /\ copies[i].host = 0 /\ copies[i].len = count
  BY <1>6
<1>13. \A i \in DOMAIN copies : i # 1 => copies[i].len = 0 /\ copies[i].host \in Nat
                                                /\ copies[i].guest \in Nat
  BY <1>5, <1>6
<1> QED
  BY <1>9, <1>10, <1>11, <1>12, <1>13

Replaced(mem, a, host, count) ==
    [ x \in DOMAIN mem |-> IF a =< x /\ x < a + count THEN host[x - a] ELSE mem[x] ]

(* rv32i_mem_copyfromhost of a range in one map, with fewer pages than its  *)
(* array of maps, leaves no buffer and puts each byte at its address; all   *)
(* others keep their value.                                                 *)
THEOREM OneMapCopyIn ==
    ASSUME NEW T, Table(T), NEW m, MemoOk(T, m), NEW a \in Addr, NEW count \in Nat,
           InOneMap(T, a, count), ShortWalk(a, count),
           NEW mem, mem = [ x \in DOMAIN mem |-> mem[x] ], DOMAIN mem \subseteq Nat, NEW host
    PROVE  /\ CopyDefined(T, m, a, count)
           /\ CopyFromHost(T, m, mem, a, host, count) = Replaced(mem, a, host, count)
<1> DEFINE copies == Copies(T, Collect(T, m, a, count).maps, a, count)
           result == CopyFromHost(T, m, mem, a, host, count)
           whole == Replaced(mem, a, host, count)
<1>1. /\ CopyDefined(T, m, a, count)
      /\ count # 0 => 1 \in DOMAIN copies
      /\ \A i \in DOMAIN copies : count # 0
      /\ \A i \in DOMAIN copies :
           i = 1 => copies[i].guest = a /\ copies[i].host = 0 /\ copies[i].len = count
      /\ \A i \in DOMAIN copies : i # 1 => copies[i].len = 0 /\ copies[i].host \in Nat
                                           /\ copies[i].guest \in Nat
  BY OneMapPlan
<1>2. PICK n \in Nat : DOMAIN copies = 1 .. n
  BY TransferPlan
<1>3. PICK f : Pastes(f, host, mem, copies, n, result)
  BY <1>2, PasteTrace
<1> HIDE DEF copies, result
<1>4. a \in Nat /\ DOMAIN whole = DOMAIN mem
  BY AddrType DEF Replaced
<1> DEFINE S == { j \in 0 .. n : f[j] = IF j = 0 THEN mem ELSE whole }
<1>5. 0 \in S
  BY <1>3 DEF Pastes
<1>6. ASSUME NEW j \in 1 .. n, j - 1 \in S PROVE j \in S
  <2>1. f[j] = Paste(host, f[j - 1], copies[j]) /\ f[j - 1] = IF j - 1 = 0 THEN mem ELSE whole
    BY <1>3, <1>6 DEF Pastes
  <2>2. CASE j = 1
    <3>1. copies[j].guest = a /\ copies[j].host = 0 /\ copies[j].len = count
      BY <1>1, <1>2, <2>2
    <3>2. \A x \in DOMAIN mem : 0 + x - a = x - a
      BY <1>4
    <3>3. f[j] = [ x \in DOMAIN mem |-> IF a =< x /\ x < a + count
                                        THEN host[0 + x - a] ELSE mem[x] ]
      BY <2>1, <2>2, <3>1 DEF Paste
    <3>4. f[j] = whole
      BY <3>2, <3>3 DEF Replaced
    <3> QED
      BY <2>2, <3>4
  <2>3. CASE j # 1
    <3>1. copies[j].len = 0 /\ copies[j].guest \in Nat
      BY <1>1, <1>2, <2>3
    <3>2. f[j - 1] = whole
      BY <2>1, <2>3
    <3>3. \A x \in DOMAIN mem : ~(copies[j].guest =< x /\ x < copies[j].guest + copies[j].len)
      BY <3>1
    <3>4. f[j] = [ x \in DOMAIN mem |-> whole[x] ]
      BY <1>4, <2>1, <3>2, <3>3 DEF Paste
    <3>5. f[j] = whole
      BY <3>4 DEF Replaced
    <3> QED
      BY <2>3, <3>5
  <2> QED
    BY <2>2, <2>3
<1>7. n \in S
  <2> HIDE DEF S
  <2> QED
    BY <1>5, <1>6, PasteFold!UpTo
<1>8. result = IF n = 0 THEN mem ELSE whole
  BY <1>3, <1>7 DEF Pastes
<1>9. n = 0 => whole = mem
  <2> SUFFICES ASSUME n = 0 PROVE whole = mem
    OBVIOUS
  <2>1. count = 0
    BY <1>1, <1>2
  <2>2. \A x \in DOMAIN mem : ~(a =< x /\ x < a + count)
    BY <1>4, <2>1
  <2> QED
    BY <2>2 DEF Replaced
<1> QED
  BY <1>1, <1>8, <1>9 DEF result

(* rv32i_mem_copyfromguest of such a range yields the bytes of guest        *)
(* memory, in their order.                                                  *)
THEOREM OneMapCopyOut ==
    ASSUME NEW T, Table(T), NEW m, MemoOk(T, m), NEW a \in Addr, NEW count \in Nat,
           InOneMap(T, a, count), ShortWalk(a, count), NEW mem, NEW uninit
    PROVE  /\ CopyDefined(T, m, a, count)
           /\ CopyFromGuest(T, m, mem, a, count, uninit) = [ k \in 0 .. count - 1 |-> mem[a + k] ]
<1> DEFINE copies == Copies(T, Collect(T, m, a, count).maps, a, count)
           blank == [ k \in 0 .. count - 1 |-> uninit ]
           result == CopyFromGuest(T, m, mem, a, count, uninit)
           whole == [ k \in 0 .. count - 1 |-> mem[a + k] ]
<1>1. /\ CopyDefined(T, m, a, count)
      /\ count # 0 => 1 \in DOMAIN copies
      /\ \A i \in DOMAIN copies : count # 0
      /\ \A i \in DOMAIN copies :
           i = 1 => copies[i].guest = a /\ copies[i].host = 0 /\ copies[i].len = count
      /\ \A i \in DOMAIN copies : i # 1 => copies[i].len = 0 /\ copies[i].host \in Nat
                                           /\ copies[i].guest \in Nat
  BY OneMapPlan
<1>2. PICK n \in Nat : DOMAIN copies = 1 .. n
  BY TransferPlan
<1>3. PICK f : Fetches(f, mem, blank, copies, n, result)
  BY <1>2, FetchTrace
<1> HIDE DEF copies, result
<1>4. a \in Nat /\ DOMAIN whole = 0 .. count - 1 /\ DOMAIN blank = 0 .. count - 1
  BY AddrType
<1> DEFINE S == { j \in 0 .. n : f[j] = IF j = 0 THEN blank ELSE whole }
<1>5. 0 \in S
  BY <1>3 DEF Fetches
<1>6. ASSUME NEW j \in 1 .. n, j - 1 \in S PROVE j \in S
  <2>1. f[j] = Fetched(mem, f[j - 1], copies[j]) /\ f[j - 1] = IF j - 1 = 0 THEN blank ELSE whole
    BY <1>3, <1>6 DEF Fetches
  <2>2. CASE j = 1
    <3>1. copies[j].guest = a /\ copies[j].host = 0 /\ copies[j].len = count
      BY <1>1, <1>2, <2>2
    <3>2. \A k \in 0 .. count - 1 : 0 =< k /\ k < 0 + count /\ a + k - 0 = a + k
      BY <1>4
    <3>3. f[j - 1] = blank
      BY <2>1, <2>2
    <3>4. f[j] = [ k \in 0 .. count - 1 |-> IF 0 =< k /\ k < 0 + count
                                            THEN mem[a + k - 0] ELSE blank[k] ]
      BY <1>4, <2>1, <3>1, <3>3 DEF Fetched
    <3>5. f[j] = whole
      BY <3>2, <3>4
    <3> QED
      BY <2>2, <3>5
  <2>3. CASE j # 1
    <3>1. copies[j].len = 0 /\ copies[j].host \in Nat
      BY <1>1, <1>2, <2>3
    <3>2. f[j - 1] = whole
      BY <2>1, <2>3
    <3>3. \A k \in 0 .. count - 1 : ~(copies[j].host =< k /\ k < copies[j].host + copies[j].len)
      BY <3>1
    <3>4. f[j] = [ k \in 0 .. count - 1 |-> whole[k] ]
      <4> HIDE DEF whole
      <4> QED
        BY <1>4, <2>1, <3>2, <3>3 DEF Fetched
    <3>5. f[j] = whole
      BY <3>4
    <3> QED
      BY <2>3, <3>5
  <2> QED
    BY <2>2, <2>3
<1>7. n \in S
  <2> HIDE DEF S
  <2> QED
    BY <1>5, <1>6, FetchFold!UpTo
<1>8. result = IF n = 0 THEN blank ELSE whole
  BY <1>3, <1>7 DEF Fetches
<1>9. n = 0 => whole = blank
  <2> SUFFICES ASSUME n = 0 PROVE whole = blank
    OBVIOUS
  <2>1. count = 0
    BY <1>1, <1>2
  <2> QED
    BY <2>1
<1> QED
  BY <1>1, <1>8, <1>9 DEF result
=============================================================================
