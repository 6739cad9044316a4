------------------------------- MODULE IoMaps -------------------------------
(***************************************************************************)
(* The address map of the hart (rv32i-mem.c): the table of I/O maps, the   *)
(* two lookups that resolve a guest address to a map, the memoised one and *)
(* the plain one, and the questions asked through them.                    *)
(*                                                                         *)
(* A map is identified by its index in the table; 0 is the NULL pointer.   *)
(* Machine words wrap: uint32_t modulo WORD, size_t modulo SIZET.  The C   *)
(* code has WORD = 2^32, SIZET = 2^64, PAGE = 1024 (KiB), BLOCK = 512      *)
(* (the block MEMOIZATION_MASK keeps) and HARDCAP = 32; everything below   *)
(* holds of scaled-down values as well, as long as they divide each other  *)
(* in the same way.                                                        *)
(*                                                                         *)
(* An operator called a fault, here and in the other modules, is a bug the *)
(* code does not have; it stands in for the definition below it to show    *)
(* that a property would notice.                                           *)
(***************************************************************************)
EXTENDS Integers, Sequences, SequencesExt

CONSTANTS
    HALF,     \* 2^31: the first uint32_t that is negative as a signed int
    SIZET,    \* 2^64: where a size_t wraps
    PAGE,     \* KiB and PAGE_SIZE, one unit of map size
    BLOCK,    \* the block of addresses MEMOIZATION_MASK identifies
    HARDCAP   \* IOMAP_HARDCAP

ASSUME WidthAssumption ==
    /\ HALF \in Nat /\ SIZET \in Nat /\ PAGE \in Nat /\ BLOCK \in Nat
    /\ 0 < BLOCK /\ BLOCK =< PAGE /\ PAGE =< HALF
    /\ PAGE % BLOCK = 0 /\ HALF % PAGE = 0
    /\ 2 * HALF =< SIZET /\ SIZET % (2 * HALF) = 0

ASSUME CapAssumption == HARDCAP \in Nat /\ 0 < HARDCAP

WORD == 2 * HALF
Addr == 0 .. WORD - 1
NULL == 0

Low32(n)    == n % WORD             \* conversion to uint32_t

(* Fault: the sign of the long that strtol returns.                        *)
NegativeAsLong(n) == n < 0

Negative(n) == Low32(n) >= HALF     \* (signed) n < 0

Multiple(n, m) == \E k \in 0 .. n : n = k * m

(***************************************************************************)
(* A command line (rv32i_cmdline_s): each chosen map has a 32-bit address  *)
(* and a size_t size.  Accepted is what rv32i_parse_cmdline lets through:  *)
(* the tests on an address and a size look at their low 32 bits only, and  *)
(* the alignment test is ALIGNMENT_MASK, BLOCK - 1.                        *)
(***************************************************************************)
ChosenIoMap == [addr : Addr, size : 0 .. SIZET - 1]

Cmdline == [is_using_mmap : BOOLEAN, choosen_iomaps : Seq(ChosenIoMap),
            ramamnt : Addr, load_at : Addr]

AcceptedIoMap(map) ==
    /\ map.addr < HALF /\ map.addr % BLOCK = 0
    /\ map.size # 0 /\ Multiple(map.size, PAGE) /\ ~Negative(map.size)

Accepted(cmd) ==
    /\ cmd \in Cmdline
    /\ cmd.load_at < HALF
    /\ 0 < cmd.ramamnt /\ cmd.ramamnt < HALF /\ Multiple(cmd.ramamnt, PAGE)
    /\ Len(cmd.choosen_iomaps) =< HARDCAP
    /\ cmd.is_using_mmap <=> cmd.choosen_iomaps # << >>
    /\ \A i \in DOMAIN cmd.choosen_iomaps : AcceptedIoMap(cmd.choosen_iomaps[i])

(* Fault: the maps are taken to be in order of address.                    *)
CheckOverlapInOrder(chosen) ==
    \E i, j \in DOMAIN chosen :
        /\ i < j
        /\ chosen[j].addr >= chosen[i].addr
        /\ (chosen[i].addr + chosen[i].size - 1) % SIZET >= chosen[j].addr

(***************************************************************************)
(* rv32i_chooseniomap_checkoverlap: the sum is a size_t, it does not wrap  *)
(* at 2^32.                                                                *)
(***************************************************************************)
CheckOverlap(chosen) ==
    \E i, j \in DOMAIN chosen :
        /\ i # j
        /\ chosen[j].addr >= chosen[i].addr
        /\ \/ chosen[j].addr = chosen[i].addr
           \/ (chosen[i].addr + chosen[i].size - 1) % SIZET >= chosen[j].addr

(***************************************************************************)
(* rv32i_iomap_add: the size parameter is a uint32_t.                      *)
(***************************************************************************)
IoMap == [start_addr : Addr, size : Addr]

(* Fault: a size that is not cut to 32 bits.                               *)
IomapAddLong(addr, size) == [start_addr |-> addr, size |-> size]

IomapAdd(addr, size) == [start_addr |-> addr, size |-> Low32(size)]

(* The table rv32i_hart_init builds, and the address it must resolve. *)
TableOf(cmd) ==
    IF cmd.is_using_mmap
    THEN [i \in DOMAIN cmd.choosen_iomaps |->
            IomapAdd(cmd.choosen_iomaps[i].addr, cmd.choosen_iomaps[i].size)]
    ELSE << IomapAdd(0, cmd.ramamnt) >>

InitialAddr(cmd) == IF cmd.is_using_mmap THEN cmd.load_at ELSE 0

(* Faults: one byte too many, one too few.                                 *)
CoversEnd(map, a) ==
    a >= map.start_addr /\ a =< Low32(map.size + map.start_addr)
CoversAfterStart(map, a) ==
    a > map.start_addr /\ a < Low32(map.size + map.start_addr)

(***************************************************************************)
(* The two lookups.                                                        *)
(***************************************************************************)
Covers(map, a) ==
    a >= map.start_addr /\ a < Low32(map.size + map.start_addr)

GetIomapByAddrNonMemoised(iomaps, a) ==
    SelectInSeq(iomaps, LAMBDA map : Covers(map, a))

(* Fault: a mask that is too wide.                                         *)
BlockOfPages(a) == a - (a % (2 * PAGE))

BlockOf(a) == a - (a % BLOCK)       \* a & MEMOIZATION_MASK

GetIomapByAddr(iomaps, memo, a) ==
    IF BlockOf(a) = iomaps[memo].start_addr
    THEN memo
    ELSE GetIomapByAddrNonMemoised(iomaps, a)

(* Fault: a lookup that finds no map is remembered, too.                   *)
MemoAfterMiss(iomaps, memo, a) == GetIomapByAddr(iomaps, memo, a)

(* memoized_iomap after that lookup: a miss that finds no map leaves it. *)
MemoAfter(iomaps, memo, a) ==
    LET map == GetIomapByAddr(iomaps, memo, a)
    IN  IF map = NULL THEN memo ELSE map

(* memoized_iomap after the lookups of a sequence of addresses, in order *)
MemoAfterAll(iomaps, memo, addrs) ==
    FoldLeft(LAMBDA m, a : MemoAfter(iomaps, m, a), memo, addrs)

OobAddr(iomaps, memo, a) == GetIomapByAddr(iomaps, memo, a) = NULL

(* rv32i_mem_trueaddr: the host byte, as a map and an index into its buffer *)
TrueAddr(iomaps, memo, a) ==
    LET map == GetIomapByAddr(iomaps, memo, a)
    IN  [map |-> map, index |-> a - iomaps[map].start_addr]

(* Fault: the maps behind the first one are not counted.                   *)
ContiguousOneMap(iomaps, memo, start, end) ==
    LET map == GetIomapByAddr(iomaps, memo, start)
    IN  IF end < start \/ map = NULL
        THEN [bytes |-> 0, memo |-> memo]
        ELSE [bytes |-> iomaps[map].size, memo |-> map]

(***************************************************************************)
(* rv32i_mem_contiguous: the sizes of the maps from start on, each counted *)
(* whole, until they reach end.  The lookups move the memo.                *)
(***************************************************************************)
Contiguous(iomaps, memo, start, end) ==
    LET walk[m \in DOMAIN iomaps] ==
          [ s \in Addr |->
              LET map  == GetIomapByAddr(iomaps, m, s)
                  size == iomaps[map].size
              IN  IF end < s \/ map = NULL
                  THEN [bytes |-> 0, memo |-> m]
                  ELSE IF size < end - s
                  THEN LET rest == walk[map][Low32(s + size)]
                       IN  [bytes |-> Low32(size + rest.bytes), memo |-> rest.memo]
                  ELSE [bytes |-> size, memo |-> map] ]
    IN  walk[memo][start]

-----------------------------------------------------------------------------
(* Reference definitions, over the set of addresses a map stands for. *)
Region(map) == { a \in Addr : map.start_addr =< a /\ a < map.start_addr + map.size }

Mapped(iomaps) == UNION { Region(iomaps[i]) : i \in DOMAIN iomaps }

(* Every byte from start up to and excluding end is backed. *)
Backed(iomaps, start, end) == start .. end - 1 \subseteq Mapped(iomaps)

(* Backed bytes in a row from start up to and excluding end *)
BackedRun(iomaps, start, end) ==
    LET holes == { a \in start .. end - 1 : a \notin Mapped(iomaps) }
    IN  IF holes = {} THEN end - start ELSE Min(holes) - start
=============================================================================
