-------------------------- MODULE IoMapTableProofs --------------------------
(***************************************************************************)
(* For every command line the parser accepts, every table size and every   *)
(* order of lookups: the memo never changes an answer, no two maps share   *)
(* an address, and the lookups implement AddressSpace.                     *)
(***************************************************************************)
EXTENDS IoMapTable, MapLemmas, TLAPS

(***************************************************************************)
(* The inductive invariant.  A walk that goes on has counted exactly the   *)
(* bytes it passed, and they are no more than the end of a map it left     *)
(* behind; if it began at the start of a map, all of them are backed and   *)
(* it now stands where some map ends.                                      *)
(***************************************************************************)
Passed(w) ==
    \E i \in DOMAIN iomaps : /\ iomaps[i].start_addr + iomaps[i].size =< w.at
                             /\ w.bytes =< iomaps[i].start_addr + iomaps[i].size

WalkPre(w) ==
    /\ w.start =< w.at /\ w.bytes = w.at - w.start
    /\ w.at = w.start \/ w.at < w.end
    /\ w.at = w.start \/ Passed(w)
    /\ StartsAMap(w.start) =>
          /\ Backed(iomaps, w.start, w.at)
          /\ w.at = w.start \/ \E i \in DOMAIN iomaps :
                                  /\ iomaps[i].size > 0
                                  /\ iomaps[i].start_addr + iomaps[i].size = w.at

MemoInv == memo \in 1 .. Len(iomaps) /\ iomaps[memo].size # 0

IInv ==
    /\ TypeOK
    /\ phase # "run" => walk = NoWalk
    /\ phase = "run" => TableInv(iomaps) /\ MemoInv
    /\ phase = "run" /\ Walking => WalkPre(walk)
    /\ ContiguousExact
    /\ ContiguousNeverShort

(* The walk before any call has its type.                                   *)
LEMMA NoWalkType == NoWalk \in Walk
  BY WordType, WidthAssumption DEF NoWalk, FreshWalk, Walk, Addr

(* Before rv32i_hart_init the invariant says nothing of the table.          *)
LEMMA InitIInv == Init => IInv
<1> SUFFICES ASSUME Init PROVE IInv
  OBVIOUS
<1>1. /\ phase = "init" /\ iomaps = << >> /\ memo = 0 /\ walk = NoWalk /\ cmd \in Cmdlines
      /\ answer = [addr |-> 0, found |-> {}]
  BY DEF Init, NULL
<1>2. 0 \in Addr /\ Len(iomaps) = 0 /\ iomaps \in Seq(IoMap)
  BY <1>1, WordType DEF Addr
<1>3. TypeOK
  BY <1>1, <1>2, NoWalkType DEF TypeOK
<1>4. ~Walking /\ ContiguousExact /\ ContiguousNeverShort
  BY <1>1 DEF Walking, NoWalk, FreshWalk, ContiguousExact, ContiguousNeverShort
<1> QED BY <1>1, <1>3, <1>4 DEF IInv

(* What a lookup returns and leaves in the memo, in a state of the          *)
(* invariant.                                                               *)
LEMMA LookupFacts ==
    ASSUME IInv, phase = "run", NEW a \in Addr
    PROVE  LET k == GetIomapByAddr(iomaps, memo, a)
           IN  /\ k = GetIomapByAddrNonMemoised(iomaps, a)
               /\ k \in 0 .. Len(iomaps)
               /\ k = NULL => \A i \in DOMAIN iomaps : ~Covers(iomaps[i], a)
               /\ k # NULL => /\ k \in DOMAIN iomaps /\ iomaps[k] \in IoMap
                              /\ iomaps[k].size >= PAGE
                              /\ iomaps[k].start_addr =< a
                              /\ a < iomaps[k].start_addr + iomaps[k].size
                              /\ Covers(iomaps[k], a)
                              /\ \A i \in DOMAIN iomaps : Covers(iomaps[i], a) => i = k
<1> DEFINE k == GetIomapByAddr(iomaps, memo, a)
<1>1. TableInv(iomaps) /\ iomaps \in Seq(IoMap) /\ memo \in 1 .. Len(iomaps) /\ iomaps[memo].size # 0
  BY DEF IInv, TypeOK, MemoInv
<1>2. k = GetIomapByAddrNonMemoised(iomaps, a)
  BY <1>1, MemoSound
<1>3. /\ k \in 0 .. Len(iomaps)
      /\ k = NULL => \A i \in DOMAIN iomaps : ~Covers(iomaps[i], a)
      /\ k # NULL => /\ Covers(iomaps[k], a)
                     /\ \A i \in DOMAIN iomaps : Covers(iomaps[i], a) => i = k
  BY <1>1, <1>2, FindUnique
<1>4. ASSUME k # NULL
      PROVE  /\ k \in DOMAIN iomaps /\ iomaps[k] \in IoMap
             /\ iomaps[k].size >= PAGE
             /\ iomaps[k].start_addr =< a
             /\ a < iomaps[k].start_addr + iomaps[k].size
  <2> HIDE DEF k
  <2>1. k \in DOMAIN iomaps /\ iomaps[k] \in IoMap
    BY <1>1, <1>3, <1>4 DEF NULL
  <2>2. /\ iomaps[k].start_addr < HALF /\ iomaps[k].size < HALF
        /\ iomaps[k].size = 0 \/ iomaps[k].size >= PAGE
    BY <1>1, <2>1 DEF TableInv, RowsBounded
  <2>3. /\ iomaps[k].start_addr =< a
        /\ a < iomaps[k].start_addr + iomaps[k].size
    BY <1>3, <1>4, <2>1, <2>2, CoversRegion
  <2>4. iomaps[k].size # 0
    BY <2>1, <2>3 DEF IoMap, Addr
  <2> QED BY <2>1, <2>2, <2>3, <2>4
<1> QED BY <1>2, <1>3, <1>4

(* In every state the invariant allows, a lookup through the memo answers   *)
(* as the plain one.                                                        *)
THEOREM IInvImpliesMemoTransparent == IInv => MemoTransparent
  BY LookupFacts DEF MemoTransparent
(* What every call of rv32i_mem_getiomap_byaddr does to the invariant. *)
LEMMA ResolveStep ==
    ASSUME IInv, phase = "run", NEW a \in Addr, Resolve(a), iomaps' = iomaps
    PROVE  /\ MemoInv' /\ memo' \in 0 .. Len(iomaps) /\ memo' # NULL
           /\ answer' \in [addr : Addr, found : SUBSET IoMap]
<1> DEFINE k == GetIomapByAddr(iomaps, memo, a)
<1>1. /\ k \in 0 .. Len(iomaps)
      /\ k # NULL => k \in DOMAIN iomaps /\ iomaps[k] \in IoMap /\ iomaps[k].size >= PAGE
  BY LookupFacts
<1>2. memo \in 1 .. Len(iomaps) /\ iomaps[memo].size # 0 /\ iomaps \in Seq(IoMap)
  BY DEF IInv, TypeOK, MemoInv
<1>3. memo' = IF k = NULL THEN memo ELSE k
  BY DEF Resolve, MemoAfter
<1>4. answer' = [addr |-> a, found |-> IF k = NULL THEN {} ELSE {iomaps[k]}]
  BY DEF Resolve
<1>5. k # NULL => iomaps[k].size # 0
  BY <1>1, WidthAssumption DEF IoMap, Addr
<1> HIDE DEF k
<1>6. memo' \in 1 .. Len(iomaps) /\ iomaps[memo'].size # 0
  BY <1>1, <1>2, <1>3, <1>5 DEF NULL
<1>7. answer' \in [addr : Addr, found : SUBSET IoMap]
  BY <1>1, <1>4
<1> QED BY <1>2, <1>6, <1>7 DEF MemoInv, NULL

(* The mapped addresses are those of the rows.                              *)
LEMMA MappedBy ==
    ASSUME NEW a \in Addr
    PROVE  a \in Mapped(iomaps) <=>
             \E i \in DOMAIN iomaps : /\ iomaps[i].start_addr =< a
                                      /\ a < iomaps[i].start_addr + iomaps[i].size
  BY DEF Mapped, Region

(* A walk from the start of a map only ever stands at the start of a map:  *)
(* the map that covers the byte behind another map begins there.           *)
LEMMA StandsAtStart ==
    ASSUME IInv, phase = "run", NEW w \in Walk, WalkPre(w), StartsAMap(w.start),
           NEW k, k = GetIomapByAddr(iomaps, memo, w.at), k # NULL
    PROVE  iomaps[k].start_addr = w.at
<1>1. /\ k \in DOMAIN iomaps /\ iomaps[k] \in IoMap /\ w.at \in Addr /\ iomaps[k].size >= PAGE
      /\ iomaps[k].start_addr =< w.at /\ w.at < iomaps[k].start_addr + iomaps[k].size
      /\ \A i \in DOMAIN iomaps : Covers(iomaps[i], w.at) => i = k
  BY LookupFacts DEF Walk
<1>2. RowsDisjoint(iomaps) /\ RowsBounded(iomaps) /\ \A i \in DOMAIN iomaps : iomaps[i] \in IoMap
  BY DEF IInv, TypeOK, TableInv
<1>3. CASE w.at = w.start
  <2>1. PICK i \in DOMAIN iomaps : iomaps[i].start_addr = w.at /\ iomaps[i].size > 0
    BY <1>3 DEF StartsAMap
  <2>2. w.at < iomaps[i].start_addr + iomaps[i].size /\ iomaps[i].start_addr =< w.at
    BY <1>1, <1>2, <2>1 DEF IoMap, Addr
  <2>3. Covers(iomaps[i], w.at)
    BY <1>1, <1>2, <2>1, <2>2, CoversRegion DEF RowsBounded
  <2> QED BY <1>1, <2>1, <2>3
<1>4. CASE w.at # w.start
  <2>1. PICK i \in DOMAIN iomaps : /\ iomaps[i].size > 0
                                  /\ iomaps[i].start_addr + iomaps[i].size = w.at
    BY <1>4 DEF WalkPre
  <2>2. i # k
    <3>1. w.at \in Int
      BY <1>1 DEF Addr
    <3> QED BY <1>1, <2>1, <3>1
  <2>3. \/ iomaps[i].start_addr + iomaps[i].size =< iomaps[k].start_addr
        \/ iomaps[k].start_addr + iomaps[k].size =< iomaps[i].start_addr
    BY <1>1, <1>2, <2>2 DEF RowsDisjoint
  <2>4. /\ iomaps[i].start_addr \in Int /\ iomaps[i].size \in Int /\ w.at \in Int
        /\ iomaps[k].start_addr \in Int /\ iomaps[k].size \in Int
    BY <1>1, <1>2 DEF IoMap, Addr
  <2> QED BY <1>1, <2>1, <2>3, <2>4
<1> QED BY <1>3, <1>4

(* However far into a map a walk stands, what it has counted fits below    *)
(* that map: its bytes and those of the map stay below their end.          *)
LEMMA CountFits ==
    ASSUME IInv, phase = "run", NEW w \in Walk, WalkPre(w),
           NEW k, k = GetIomapByAddr(iomaps, memo, w.at), k # NULL
    PROVE  /\ w.bytes + iomaps[k].size =< iomaps[k].start_addr + iomaps[k].size
           /\ Low32(w.bytes + iomaps[k].size) = w.bytes + iomaps[k].size
<1> DEFINE n == iomaps[k].size
           first == iomaps[k].start_addr
<1>1. w.at \in Addr /\ w.bytes \in Addr /\ w.start \in Addr
  BY DEF Walk
<1>2. k \in DOMAIN iomaps /\ first =< w.at /\ w.at < first + n
  BY <1>1, LookupFacts
<1>3. Table(iomaps) /\ RowsDisjoint(iomaps)
  BY DEF IInv, TypeOK, Table, TableInv
<1>4. first \in 0 .. HALF - 1 /\ n \in 0 .. HALF - 1
  BY <1>2, <1>3, RowType
<1>5. w.at \in Int /\ w.bytes \in Nat /\ w.start \in Nat /\ HALF \in Nat /\ WORD = 2 * HALF
  BY <1>1, AddrType, WordType, WidthAssumption
<1>6. w.bytes =< first
  <2>1. w.bytes = w.at - w.start /\ (w.at = w.start \/ Passed(w))
    BY DEF WalkPre
  <2>2. CASE w.at = w.start
    BY <1>4, <1>5, <2>1, <2>2
  <2>3. CASE Passed(w)
    <3>1. PICK i \in DOMAIN iomaps : /\ iomaps[i].start_addr + iomaps[i].size =< w.at
                                     /\ w.bytes =< iomaps[i].start_addr + iomaps[i].size
      BY <2>3 DEF Passed
    <3>2. iomaps[i].start_addr \in 0 .. HALF - 1 /\ iomaps[i].size \in 0 .. HALF - 1
      BY <1>3, <3>1, RowType
    <3>3. i # k
      BY <1>2, <1>4, <1>5, <3>1, <3>2
    <3>4. \/ iomaps[i].start_addr + iomaps[i].size =< first
          \/ first + n =< iomaps[i].start_addr
      BY <1>2, <1>3, <3>3 DEF RowsDisjoint
    <3> HIDE DEF first, n
    <3> QED BY <1>2, <1>4, <1>5, <3>1, <3>2, <3>4
  <2> QED BY <2>1, <2>2, <2>3
<1> HIDE DEF first, n
<1>7. w.bytes + n =< first + n /\ w.bytes + n \in 0 .. WORD - 1
  BY <1>4, <1>5, <1>6
<1>8. Low32(w.bytes + n) = w.bytes + n
  BY <1>5, <1>7, ModBelow DEF Low32
<1> QED BY <1>7, <1>8 DEF first, n

(* A call that ends the walk has counted the backed bytes at least.        *)
LEMMA WalkEndsNotShort ==
    ASSUME IInv, phase = "run", NEW w \in Walk, WalkPre(w), w.start =< w.end, w.end >= w.at,
           NEW k, k = GetIomapByAddr(iomaps, memo, w.at),
           k = NULL \/ iomaps[k].size >= w.end - w.at,
           NEW bytes, bytes = IF k = NULL THEN w.bytes ELSE Low32(w.bytes + iomaps[k].size)
    PROVE  bytes >= BackedRun(iomaps, w.start, w.end)
<1> DEFINE r == BackedRun(iomaps, w.start, w.end)
<1>1. w.at \in Addr /\ w.start \in Addr /\ w.end \in Addr /\ w.bytes \in Addr
  BY DEF Walk
<1>2. w.at \in Int /\ w.start \in Int /\ w.end \in Int /\ w.bytes \in Int
  BY <1>1, AddrType
<1>3. /\ r \in 0 .. w.end - w.start
      /\ \A a \in w.start .. w.start + r - 1 : a \in Mapped(iomaps)
  BY <1>1, RunEnds
<1>4. w.start =< w.at /\ w.bytes = w.at - w.start
  BY DEF WalkPre
<1> HIDE DEF r
<1>5. CASE k = NULL
  <2>1. \A i \in DOMAIN iomaps : ~Covers(iomaps[i], w.at)
    BY <1>1, <1>5, LookupFacts
  <2>2. \A i \in DOMAIN iomaps : /\ iomaps[i] \in IoMap /\ iomaps[i].start_addr < HALF
                                 /\ iomaps[i].size < HALF
    BY DEF IInv, TypeOK, TableInv, RowsBounded
  <2>3. w.at \notin Mapped(iomaps)
    BY <1>1, <2>1, <2>2, CoversRegion, MappedBy
  <2>4. w.at \notin w.start .. w.start + r - 1
    BY <1>3, <2>3
  <2>5. bytes >= r
    BY <1>2, <1>3, <1>4, <1>5, <2>4
  <2> QED BY <2>5 DEF r
<1>6. CASE k # NULL
  <2>1. bytes = w.bytes + iomaps[k].size /\ iomaps[k].size >= w.end - w.at
    BY <1>6, CountFits
  <2>2. iomaps[k] \in IoMap
    BY <1>1, <1>6, LookupFacts
  <2>3. iomaps[k].size \in Int
    BY <2>2, AddrType DEF IoMap
  <2>4. bytes >= r
    BY <1>2, <1>3, <1>4, <2>1, <2>3
  <2> QED BY <2>4 DEF r
<1> QED BY <1>5, <1>6

(* A call of rv32i_mem_contiguous that ends the walk ends it with the exact *)
(* answer.                                                                  *)
LEMMA WalkEnds ==
    ASSUME IInv, phase = "run", NEW w \in Walk, WalkPre(w), w.start =< w.end,
           StartsAMap(w.start), w.end >= w.at,
           NEW k, k = GetIomapByAddr(iomaps, memo, w.at),
           k = NULL \/ iomaps[k].size >= w.end - w.at,
           NEW bytes, bytes = IF k = NULL THEN w.bytes ELSE Low32(w.bytes + iomaps[k].size)
    PROVE  bytes >= w.end - w.start <=> Backed(iomaps, w.start, w.end)
<1>1. /\ w.start \in Int /\ w.end \in Int /\ w.at \in Int /\ w.at \in Addr
      /\ 0 =< w.start /\ w.end < WORD /\ WORD \in Int
  BY WordType DEF Walk, Addr
<1>2. w.start =< w.at /\ w.bytes = w.at - w.start /\ Backed(iomaps, w.start, w.at)
  BY DEF WalkPre
<1>3. CASE k = NULL
  <2>1. \A i \in DOMAIN iomaps : ~Covers(iomaps[i], w.at)
    BY <1>1, <1>3, LookupFacts
  <2>2. w.at \notin Mapped(iomaps)
    <3>1. \A i \in DOMAIN iomaps : iomaps[i] \in IoMap /\ iomaps[i].start_addr < HALF /\ iomaps[i].size < HALF
      BY DEF IInv, TypeOK, TableInv, RowsBounded
    <3> QED BY <1>1, <2>1, <3>1, CoversRegion, MappedBy
  <2>3. CASE w.at = w.end
    BY <1>1, <1>2, <1>3, <2>3
  <2>4. CASE w.at # w.end
    <3>1. w.at \in w.start .. w.end - 1
      BY <1>1, <1>2, <2>4
    <3>2. ~Backed(iomaps, w.start, w.end)
      BY <2>2, <3>1 DEF Backed
    <3> QED BY <1>1, <1>2, <1>3, <2>4, <3>2
  <2> QED BY <2>3, <2>4
<1>4. CASE k # NULL
  <2>1. iomaps[k].start_addr = w.at
    BY <1>4, StandsAtStart
  <2>2. /\ k \in DOMAIN iomaps /\ iomaps[k] \in IoMap /\ iomaps[k].size \in Int
        /\ iomaps[k].size >= 0
    BY <1>1, <1>4, LookupFacts, WordType DEF IoMap, Addr
  <2>3. iomaps[k].start_addr < HALF /\ iomaps[k].size < HALF
    BY <2>2 DEF IInv, TableInv, RowsBounded
  <2>4. w.bytes + iomaps[k].size \in 0 .. WORD - 1
    BY <1>1, <1>2, <2>1, <2>2, <2>3, WordType, WidthAssumption
  <2>5. bytes = w.at - w.start + iomaps[k].size
    BY <1>2, <1>4, <2>4, ModBelow, WordType DEF Low32
  <2>6. bytes >= w.end - w.start
    BY <1>1, <1>4, <2>2, <2>5
  <2>7. ASSUME NEW a \in w.start .. w.end - 1 PROVE a \in Mapped(iomaps)
    <3>1. CASE a < w.at
      <4>1. a \in w.start .. w.at - 1
        BY <1>1, <3>1
      <4> QED BY <1>2, <4>1 DEF Backed
    <3>2. CASE ~ (a < w.at)
      <4>1. a \in Addr /\ w.at =< a /\ a < w.at + iomaps[k].size
        BY <1>1, <1>4, <2>2, <3>2 DEF Addr
      <4> QED BY <2>1, <2>2, <4>1, MappedBy
    <3> QED BY <3>1, <3>2
  <2> QED BY <2>6, <2>7 DEF Backed
<1> QED BY <1>3, <1>4

(* A call that recurses goes on behind its map, and no sum wraps. *)
LEMMA WalkGoesOn ==
    ASSUME IInv, phase = "run", NEW w \in Walk, WalkPre(w),
           NEW k, k = GetIomapByAddr(iomaps, memo, w.at), k # NULL,
           iomaps[k].size < w.end - w.at, w.end >= w.at,
           NEW v, v = [w EXCEPT !.state = "walking",
                                !.bytes = Low32(@ + iomaps[k].size),
                                !.at    = Low32(@ + iomaps[k].size)]
    PROVE  v \in Walk /\ WalkPre(v)
<1> DEFINE n == iomaps[k].size
<1>1. /\ k \in DOMAIN iomaps /\ iomaps[k] \in IoMap /\ n \in Int /\ n >= PAGE /\ n >= 0 /\ n # 0
  BY LookupFacts, WidthAssumption, SMTT(30) DEF IoMap, Addr, Walk
<1>2. /\ w.start \in 0 .. WORD - 1 /\ w.end \in 0 .. WORD - 1 /\ w.at \in 0 .. WORD - 1
      /\ w.bytes \in 0 .. WORD - 1
      /\ w.start =< w.at /\ w.bytes = w.at - w.start
  BY DEF Walk, Addr, WalkPre
<1> HIDE DEF n
<1>3. /\ n < w.end - w.at
      /\ w.at + n \in 0 .. WORD - 1 /\ w.bytes + n \in 0 .. WORD - 1 /\ w.at + n < w.end
  BY <1>1, <1>2, WordType DEF n
<1>4. Low32(w.at + n) = w.at + n /\ Low32(w.bytes + n) = w.bytes + n
  BY <1>3, ModBelow, WordType DEF Low32
<1>5. v = [w EXCEPT !.state = "walking", !.bytes = w.bytes + n, !.at = w.at + n]
  BY <1>4 DEF n, Walk
<1>6. /\ v.start = w.start /\ v.end = w.end /\ v.at = w.at + n /\ v.bytes = w.bytes + n
      /\ v \in Walk
  BY <1>3, <1>5 DEF Walk, Addr
<1>7. ASSUME StartsAMap(v.start)
      PROVE  /\ Backed(iomaps, v.start, v.at)
             /\ \E i \in DOMAIN iomaps : /\ iomaps[i].size > 0
                                         /\ iomaps[i].start_addr + iomaps[i].size = v.at
  <2>1. iomaps[k].start_addr = w.at
    BY <1>6, <1>7, StandsAtStart
  <2>2. Backed(iomaps, w.start, w.at)
    BY <1>6, <1>7 DEF WalkPre
  <2>3. ASSUME NEW a \in v.start .. v.at - 1 PROVE a \in Mapped(iomaps)
    <3>1. CASE a < w.at
      <4>1. a \in w.start .. w.at - 1
        BY <1>2, <1>6, <3>1
      <4> QED BY <2>2, <4>1 DEF Backed
    <3>2. CASE ~ (a < w.at)
      <4>1. a \in v.start .. v.at - 1 /\ v.start = w.start /\ v.at = w.at + n
        BY <1>6
      <4>2. a \in Int /\ w.start =< a /\ a =< w.at + n - 1
        BY <1>1, <1>2, <4>1
      <4>3. a \in Addr /\ w.at =< a /\ a < w.at + n
        BY <1>1, <1>2, <1>3, <3>2, <4>2, WordType DEF Addr
      <4> QED BY <1>1, <2>1, <4>3, MappedBy DEF n
    <3> QED BY <3>1, <3>2
  <2>4. iomaps[k].size > 0 /\ iomaps[k].start_addr + iomaps[k].size = v.at
    BY <1>1, <1>6, <2>1 DEF n
  <2> QED BY <1>1, <2>3, <2>4 DEF Backed
<1>8. Passed(v)
  <2>1. iomaps[k].start_addr =< w.at /\ w.bytes + n =< iomaps[k].start_addr + n
    BY CountFits, LookupFacts DEF Walk, n
  <2>2. iomaps[k].start_addr \in Int
    BY <1>1, AddrType DEF IoMap
  <2>3. iomaps[k].start_addr + n =< v.at /\ v.bytes =< iomaps[k].start_addr + n
    BY <1>1, <1>2, <1>6, <2>1, <2>2
  <2> QED BY <1>1, <2>3 DEF Passed, n
<1> QED BY <1>1, <1>2, <1>3, <1>6, <1>7, <1>8 DEF WalkPre

(* One call of rv32i_mem_contiguous, the outermost or a nested one *)
LEMMA ContiguousStep ==
    ASSUME IInv, phase = "run", NEW w \in Walk,
           w.end < w.start \/ WalkPre(w), w.at = w.start \/ w.end >= w.at,
           w.end < w.start => w.at = w.start,
           ContiguousCall(w), UNCHANGED << cmd, phase, iomaps >>
    PROVE  IInv'
<1> DEFINE k == GetIomapByAddr(iomaps, memo, w.at)
<1>1. w.at \in Addr /\ w.start \in Int /\ w.end \in Int /\ w.at \in Int
  BY WordType DEF Walk, Addr
<1>2. TypeOK /\ TableInv(iomaps) /\ MemoInv
  BY DEF IInv
<1>3. SUFFICES /\ memo' \in 0 .. Len(iomaps) /\ memo' # NULL /\ MemoInv'
               /\ answer' \in [addr : Addr, found : SUBSET IoMap]
               /\ walk' \in Walk
               /\ Walking' => WalkPre(walk)'
               /\ ContiguousExact' /\ ContiguousNeverShort'
  BY <1>2 DEF IInv, TypeOK
<1>4. CASE /\ w.end < w.at
           /\ walk' = [w EXCEPT !.state = "done"]
           /\ UNCHANGED << memo, answer >>
  <2>1. walk' \in Walk /\ walk'.state = "done" /\ walk'.start = w.start /\ walk'.end = w.end
    BY <1>4 DEF Walk
  <2>2. w.end < w.start
    BY <1>1, <1>4
  <2>3. ContiguousExact' /\ ContiguousNeverShort'
    BY <1>1, <2>1, <2>2 DEF ContiguousExact, ContiguousNeverShort
  <2>4. ~Walking'
    BY <2>1 DEF Walking
  <2>5. MemoInv'
    BY <1>2, <1>4 DEF MemoInv
  <2>6. memo' \in 0 .. Len(iomaps) /\ memo' # NULL /\ answer' \in [addr : Addr, found : SUBSET IoMap]
    BY <1>2, <1>4 DEF TypeOK
  <2> QED BY <2>1, <2>3, <2>4, <2>5, <2>6
<1>5. CASE /\ w.end >= w.at
           /\ k = NULL \/ iomaps[k].size >= w.end - w.at
           /\ walk' = [w EXCEPT !.state = "done",
                               !.bytes = IF k = NULL THEN @ ELSE Low32(@ + iomaps[k].size)]
           /\ Resolve(w.at)
  <2> DEFINE bytes == IF k = NULL THEN w.bytes ELSE Low32(w.bytes + iomaps[k].size)
  <2>1. bytes \in Addr
    <3>1. CASE k = NULL
      BY <3>1 DEF Walk
    <3>2. CASE k # NULL
      <4>1. iomaps[k].size \in Nat /\ w.bytes \in Nat
        BY <1>1, <3>2, LookupFacts, WordType DEF IoMap, Addr, Walk
      <4>2. w.bytes + iomaps[k].size \in Nat
        BY <4>1
      <4>3. Low32(w.bytes + iomaps[k].size) \in 0 .. WORD - 1
        BY <4>2, DivMod, WordType DEF Low32
      <4> QED BY <3>2, <4>3 DEF Addr
    <3> QED BY <3>1, <3>2
  <2>2. /\ walk' \in Walk /\ walk'.state = "done" /\ walk'.start = w.start
        /\ walk'.end = w.end /\ walk'.bytes = bytes
    BY <1>5, <2>1 DEF Walk
  <2>3. ContiguousExact'
    <3>1. SUFFICES ASSUME w.start =< w.end, StartsAMap(w.start)
                   PROVE  bytes >= w.end - w.start <=> Backed(iomaps, w.start, w.end)
      BY <2>2 DEF ContiguousExact, StartsAMap
    <3>2. WalkPre(w)
      BY <1>1, <3>1
    <3> QED BY <1>5, <3>1, <3>2, WalkEnds
  <2>4. ~Walking'
    BY <2>2 DEF Walking
  <2>5. ContiguousNeverShort'
    <3>1. SUFFICES ASSUME w.start =< w.end
                   PROVE  bytes >= BackedRun(iomaps, w.start, w.end)
      BY <2>2 DEF ContiguousNeverShort
    <3>2. WalkPre(w)
      BY <1>1, <3>1
    <3> QED BY <1>5, <3>1, <3>2, WalkEndsNotShort
  <2> QED BY <1>1, <1>5, <2>2, <2>3, <2>4, <2>5, ResolveStep
<1>6. CASE /\ w.end >= w.at /\ k # NULL /\ iomaps[k].size < w.end - w.at
           /\ walk' = [w EXCEPT !.state = "walking", !.bytes = Low32(@ + iomaps[k].size),
                               !.at = Low32(@ + iomaps[k].size)]
           /\ Resolve(w.at)
  <2>1. WalkPre(w)
    BY <1>1, <1>6
  <2>2. walk' \in Walk /\ WalkPre(walk')
    BY <1>6, <2>1, WalkGoesOn
  <2>3. WalkPre(walk)'
    BY <2>2 DEF WalkPre, StartsAMap, Passed
  <2>4. walk'.state = "walking"
    BY <1>6 DEF Walk
  <2>5. ContiguousExact' /\ ContiguousNeverShort'
    BY <2>4 DEF ContiguousExact, ContiguousNeverShort
  <2> QED BY <1>1, <1>6, <2>2, <2>3, <2>5, ResolveStep
<1>7. \/ /\ w.end < w.at
         /\ walk' = [w EXCEPT !.state = "done"]
         /\ UNCHANGED << memo, answer >>
      \/ /\ w.end >= w.at /\ k = NULL
         /\ walk' = [w EXCEPT !.state = "done"]
         /\ Resolve(w.at)
      \/ /\ w.end >= w.at /\ k # NULL /\ iomaps[k].size >= w.end - w.at
         /\ walk' = [w EXCEPT !.state = "done", !.bytes = Low32(@ + iomaps[k].size)]
         /\ Resolve(w.at)
      \/ /\ w.end >= w.at /\ k # NULL /\ iomaps[k].size < w.end - w.at
         /\ walk' = [w EXCEPT !.state = "walking", !.bytes = Low32(@ + iomaps[k].size),
                              !.at = Low32(@ + iomaps[k].size)]
         /\ Resolve(w.at)
  BY DEF ContiguousCall
<1>8. ASSUME w.end >= w.at, k = NULL, walk' = [w EXCEPT !.state = "done"]
      PROVE  walk' = [w EXCEPT !.state = "done",
                               !.bytes = IF k = NULL THEN @ ELSE Low32(@ + iomaps[k].size)]
  BY <1>8 DEF Walk
<1> HIDE DEF k
<1> QED BY <1>4, <1>5, <1>6, <1>7, <1>8

(* Building the table, a lookup, a call and each turn of its recursion keep *)
(* the invariant.                                                           *)
LEMMA StepIInv == IInv /\ [Next]_vars => IInv'
<1> SUFFICES ASSUME IInv, [Next]_vars PROVE IInv'
  OBVIOUS
<1>1. CASE InitOverlap
  <2>1. phase' = "overlap" /\ UNCHANGED << cmd, iomaps, memo, answer, walk >>
    BY <1>1 DEF InitOverlap
  <2>2. TypeOK'
    BY <2>1 DEF IInv, TypeOK
  <2>3. phase = "init" /\ walk = NoWalk
    BY <1>1 DEF InitOverlap, IInv
  <2>4. ~Walking' /\ ContiguousExact' /\ ContiguousNeverShort'
    BY <2>1, <2>3 DEF Walking, NoWalk, FreshWalk, ContiguousExact, ContiguousNeverShort
  <2> QED BY <2>1, <2>2, <2>3, <2>4 DEF IInv
<1>2. CASE InitTable
  <2> DEFINE a == InitialAddr(cmd)
             k == GetIomapByAddrNonMemoised(iomaps', a)
  <2>1. /\ phase = "init" /\ ~CheckOverlap(cmd.choosen_iomaps) /\ iomaps' = TableOf(cmd)
        /\ phase' = (IF k = NULL THEN "nomap" ELSE "run") /\ memo' = k
        /\ UNCHANGED << cmd, answer, walk >>
    BY <1>2 DEF InitTable
  <2>2. cmd \in Cmdlines /\ Accepted(cmd) /\ walk = NoWalk
    BY <2>1, CmdlinesAssumption DEF IInv, TypeOK
  <2>3. iomaps' \in Seq(IoMap) /\ TableInv(iomaps')
    BY <2>1, <2>2, TableOfAccepted
  <2>4. a \in Addr
    BY <2>2, WordType DEF Accepted, Cmdline, InitialAddr, Addr
  <2>5. /\ k \in 0 .. Len(iomaps')
        /\ k # NULL => Covers(iomaps'[k], a)
    BY <2>3, <2>4, FindUnique
  <2>6. ASSUME k # NULL PROVE k \in 1 .. Len(iomaps') /\ iomaps'[k].size # 0
    <3>1. k \in 1 .. Len(iomaps') /\ k \in DOMAIN iomaps'
      BY <2>3, <2>5, <2>6 DEF NULL
    <3>2. iomaps'[k] \in IoMap /\ iomaps'[k].start_addr < HALF /\ iomaps'[k].size < HALF
      BY <2>3, <3>1 DEF TableInv, RowsBounded
    <3>3. iomaps'[k].start_addr =< a /\ a < iomaps'[k].start_addr + iomaps'[k].size
      BY <2>4, <2>5, <2>6, <3>2, CoversRegion
    <3> QED BY <2>4, <3>1, <3>2, <3>3, WordType DEF IoMap, Addr
  <2> HIDE DEF k, a
  <2>7. TypeOK'
    BY <2>1, <2>2, <2>3, <2>5 DEF IInv, TypeOK
  <2>8. phase' = "run" => MemoInv'
    BY <2>1, <2>6 DEF MemoInv
  <2>9. ~Walking' /\ ContiguousExact' /\ ContiguousNeverShort' /\ phase' # "init"
    BY <2>1, <2>2 DEF Walking, NoWalk, FreshWalk, ContiguousExact, ContiguousNeverShort
  <2> QED BY <2>1, <2>2, <2>3, <2>7, <2>8, <2>9 DEF IInv
<1>3. ASSUME NEW a \in Asked, Lookup(a) PROVE IInv'
  <2>1. /\ phase = "run" /\ Resolve(a) /\ walk' = NoWalk
        /\ UNCHANGED << cmd, phase, iomaps >> /\ a \in Addr
    BY <1>3, AskedAssumption DEF Lookup
  <2>2. /\ MemoInv' /\ memo' \in 0 .. Len(iomaps) /\ memo' # NULL
        /\ answer' \in [addr : Addr, found : SUBSET IoMap]
    BY <2>1, ResolveStep
  <2>3. TypeOK'
    BY <2>1, <2>2, NoWalkType DEF IInv, TypeOK
  <2>4. ~Walking' /\ ContiguousExact' /\ ContiguousNeverShort'
    BY <2>1 DEF Walking, NoWalk, FreshWalk, ContiguousExact, ContiguousNeverShort
  <2> QED BY <2>1, <2>2, <2>3, <2>4 DEF IInv
<1>4. ASSUME NEW start \in Asked, NEW end \in Asked, CallContiguous(start, end) PROVE IInv'
  <2> DEFINE w == FreshWalk(start, end)
  <2>1. /\ phase = "run" /\ ContiguousCall(w) /\ UNCHANGED << cmd, phase, iomaps >>
        /\ start \in Addr /\ end \in Addr
    BY <1>4, AskedAssumption DEF CallContiguous
  <2>2. /\ w \in Walk /\ w.start = start /\ w.end = end /\ w.at = start /\ w.bytes = 0
    <3>1. 0 \in Addr
      BY WordType DEF Addr
    <3> QED BY <2>1, <3>1 DEF Walk, FreshWalk
  <2>3. WalkPre(w)
    <3>1. start \in Int /\ start .. start - 1 = {}
      BY <2>1 DEF Addr
    <3> QED BY <2>2, <3>1 DEF WalkPre, Backed
  <2> HIDE DEF w
  <2> QED BY <2>1, <2>2, <2>3, ContiguousStep
<1>5. CASE Recurse
  <2>1. /\ phase = "run" /\ Walking /\ ContiguousCall(walk)
        /\ UNCHANGED << cmd, phase, iomaps >>
    BY <1>5 DEF Recurse
  <2>2. walk \in Walk /\ WalkPre(walk)
    BY <2>1 DEF IInv, TypeOK
  <2>3. /\ walk.at \in Int /\ walk.end \in Int /\ walk.start \in Int
    BY <2>2, WordType DEF Walk, Addr
  <2>4. /\ walk.at = walk.start \/ walk.end >= walk.at
        /\ walk.end < walk.start => walk.at = walk.start
    BY <2>2, <2>3 DEF WalkPre
  <2> QED BY <2>1, <2>2, <2>4, ContiguousStep
<1>6. CASE UNCHANGED vars
  <2>1. UNCHANGED << cmd, phase, iomaps, memo, answer, walk >>
    BY <1>6 DEF vars
  <2>2. TypeOK' /\ ContiguousExact' /\ ContiguousNeverShort'
    BY <2>1 DEF IInv, TypeOK, ContiguousExact, ContiguousNeverShort, StartsAMap
  <2>3. (phase = "run" => MemoInv') /\ (Walking' <=> Walking) /\ (WalkPre(walk) => WalkPre(walk)')
    BY <2>1 DEF IInv, MemoInv, Walking, WalkPre, StartsAMap, Passed
  <2> QED BY <2>1, <2>2, <2>3 DEF IInv
<1> QED BY <1>1, <1>2, <1>3, <1>4, <1>5, <1>6 DEF Next, HartInit

(* The table stays aligned and separate, the memo one of its rows, and a    *)
(* walk where it has been.                                                  *)
THEOREM SpecIInv == Spec => []IInv
<1>1. Init => IInv
  BY InitIInv
<1>2. IInv /\ [Next]_vars => IInv'
  BY StepIInv
<1> QED BY <1>1, <1>2, PTL DEF Spec

(* Every variable keeps its type, and memoized_iomap never is NULL while a *)
(* program runs.                                                           *)
THEOREM TypeCorrect == Spec => []TypeOK
<1>1. IInv => TypeOK
  BY DEF IInv
<1> QED BY <1>1, SpecIInv, PTL

(* rv32i_mem_getiomap_byaddr returns what its nonmemoised twin returns,    *)
(* whatever was asked before.                                              *)
THEOREM MemoIsTransparent == Spec => []MemoTransparent
<1>1. IInv => MemoTransparent
  BY IInvImpliesMemoTransparent
<1> QED BY <1>1, SpecIInv, PTL

(* The overlap test of the options separates the maps of the table, and    *)
(* the 32-bit bound of a lookup is the end of the buffer.                  *)
THEOREM MapsAreSeparate == Spec => []Separate
<1>1. IInv => Separate
  <2> SUFFICES ASSUME IInv, phase = "run" PROVE
        /\ \A i, j \in DOMAIN iomaps : \A a \in Addr :
              Covers(iomaps[i], a) /\ Covers(iomaps[j], a) => i = j
        /\ \A i \in DOMAIN iomaps : \A a \in Addr :
              Covers(iomaps[i], a) <=> a \in Region(iomaps[i])
    BY DEF Separate
  <2>1. TableInv(iomaps) /\ iomaps \in Seq(IoMap)
    BY DEF IInv, TypeOK
  <2>2. ASSUME NEW i \in DOMAIN iomaps, NEW j \in DOMAIN iomaps, NEW a \in Addr,
               Covers(iomaps[i], a), Covers(iomaps[j], a)
        PROVE  i = j
    <3>1. LET k == GetIomapByAddrNonMemoised(iomaps, a)
          IN  /\ k = NULL => ~Covers(iomaps[i], a)
              /\ k # NULL => i = k /\ j = k
      BY <2>1, <2>2, FindUnique
    <3> QED BY <2>2, <3>1
  <2>3. ASSUME NEW i \in DOMAIN iomaps, NEW a \in Addr
        PROVE  Covers(iomaps[i], a) <=> a \in Region(iomaps[i])
    <3>1. iomaps[i] \in IoMap /\ iomaps[i].start_addr < HALF /\ iomaps[i].size < HALF
      BY <2>1 DEF TableInv, RowsBounded
    <3> QED BY <3>1, CoversRegion DEF Region
  <2> QED BY <2>2, <2>3
<1> QED BY <1>1, SpecIInv, PTL

(* rv32i_mem_contiguous, asked from the start of a map, is exact. *)
THEOREM ContiguousIsExact == Spec => []ContiguousExact
<1>1. IInv => ContiguousExact
  BY DEF IInv
<1> QED BY <1>1, SpecIInv, PTL

(* Asked from anywhere, even far into a map, it never reports less than    *)
(* the backed bytes in a row: no sum of the sizes it adds wraps.           *)
THEOREM ContiguousIsNeverShort == Spec => []ContiguousNeverShort
<1>1. IInv => ContiguousNeverShort
  BY DEF IInv
<1> QED BY <1>1, SpecIInv, PTL

(***************************************************************************)
(* Refinement.                                                             *)
(***************************************************************************)
LEMMA InRegions ==
    ASSUME IInv, phase = "run", NEW r
    PROVE  r \in Regions <=> \E i \in DOMAIN iomaps : r = iomaps[i] /\ iomaps[i].size > 0
  BY DEF Regions

(* An address lies in the map a lookup finds, and in no other region. *)
LEMMA ResolveRefines ==
    ASSUME IInv, phase = "run", NEW a \in Addr, Resolve(a), Regions' = Regions
    PROVE  AddressSpaceSpec!Resolve(a)
<1> DEFINE k == GetIomapByAddr(iomaps, memo, a)
<1>1. /\ k = NULL => \A i \in DOMAIN iomaps : ~Covers(iomaps[i], a)
      /\ k # NULL => /\ k \in DOMAIN iomaps /\ iomaps[k] \in IoMap
                     /\ iomaps[k].size >= PAGE
                     /\ iomaps[k].start_addr =< a
                     /\ a < iomaps[k].start_addr + iomaps[k].size
  BY LookupFacts
<1>2. answer' = [addr |-> a, found |-> IF k = NULL THEN {} ELSE {iomaps[k]}]
  BY DEF Resolve
<1>3. memo \in DOMAIN iomaps /\ iomaps[memo] \in IoMap /\ iomaps[memo].size # 0
  BY DEF IInv, TypeOK, MemoInv
<1>4. iomaps[memo].size > 0
  BY <1>3, WordType DEF IoMap, Addr
<1>5. Regions # {}
  BY <1>3, <1>4, InRegions
<1> HIDE DEF k
<1>6. CASE k = NULL
  <2>1. ASSUME NEW r \in Regions PROVE ~AddressSpaceSpec!Holds(r, a)
    <3>1. PICK i \in DOMAIN iomaps : r = iomaps[i]
      BY InRegions
    <3>2. iomaps[i] \in IoMap /\ iomaps[i].start_addr < HALF /\ iomaps[i].size < HALF
      BY DEF IInv, TypeOK, TableInv, RowsBounded
    <3>3. ~Covers(iomaps[i], a)
      BY <1>1, <1>6
    <3> QED BY <3>1, <3>2, <3>3, CoversRegion DEF AddressSpaceSpec!Holds
  <2>2. answer' = [addr |-> a, found |-> {}]
    BY <1>2, <1>6
  <2> QED BY <1>5, <2>1, <2>2 DEF AddressSpaceSpec!Resolve, AddressSpaceSpec!Missing
<1>7. CASE k # NULL
  <2>1. iomaps[k].size > 0
    BY <1>1, <1>7, WidthAssumption DEF IoMap, Addr
  <2>2. iomaps[k] \in Regions
    BY <1>1, <1>7, <2>1, InRegions
  <2>3. AddressSpaceSpec!Holds(iomaps[k], a)
    BY <1>1, <1>7 DEF AddressSpaceSpec!Holds
  <2>4. answer' = [addr |-> a, found |-> {iomaps[k]}]
    BY <1>2, <1>7
  <2> QED BY <1>5, <2>2, <2>3, <2>4 DEF AddressSpaceSpec!Resolve, AddressSpaceSpec!Found
<1> QED BY <1>6, <1>7

(* The table rv32i_hart_init leaves is a legal layout. *)
LaidOut ==
    /\ Regions # {}
    /\ \A r \in Regions : {r.start_addr, r.start_addr + r.size - 1} \subseteq Addr
    /\ \A r, s \in Regions : r # s => AddressSpaceSpec!Apart(r, s)

Running == phase = "run"

(* A table of the code is a layout AddressSpace allows.                     *)
LEMMA RegionsLaidOut == IInv /\ Running => LaidOut
<1> SUFFICES ASSUME IInv, phase = "run" PROVE LaidOut
  BY DEF Running
<1>1. RowsBounded(iomaps) /\ RowsDisjoint(iomaps) /\ \A i \in DOMAIN iomaps : iomaps[i] \in IoMap
  BY DEF IInv, TypeOK, TableInv
<1>2. Regions # {}
  <2>1. memo \in DOMAIN iomaps /\ iomaps[memo] \in IoMap /\ iomaps[memo].size # 0
    BY DEF IInv, TypeOK, MemoInv
  <2>2. iomaps[memo].size > 0
    BY <2>1, WordType DEF IoMap, Addr
  <2> QED BY <2>1, <2>2, InRegions
<1>3. ASSUME NEW r \in Regions
      PROVE  r.start_addr \in Addr /\ r.start_addr + r.size - 1 \in Addr
  <2>1. PICK i \in DOMAIN iomaps : r = iomaps[i] /\ iomaps[i].size > 0
    BY InRegions
  <2>2. r \in IoMap /\ r.start_addr < HALF /\ r.size < HALF /\ r.size > 0
    BY <1>1, <2>1 DEF RowsBounded
  <2> QED BY <2>2, WordType, WidthAssumption DEF IoMap, Addr
<1>4. ASSUME NEW r \in Regions, NEW s \in Regions, r # s PROVE AddressSpaceSpec!Apart(r, s)
  <2>1. PICK i \in DOMAIN iomaps : r = iomaps[i]
    BY InRegions
  <2>2. PICK j \in DOMAIN iomaps : s = iomaps[j]
    BY InRegions
  <2>3. i # j
    BY <1>4, <2>1, <2>2
  <2> QED BY <1>1, <2>1, <2>2, <2>3 DEF RowsDisjoint, AddressSpaceSpec!Apart
<1> QED BY <1>2, <1>3, <1>4 DEF LaidOut

(* Every step of the table is an answer of AddressSpace or none of its      *)
(* steps.                                                                   *)
LEMMA StepRefines ==
    ASSUME IInv, IInv', [Next]_vars
    PROVE  AddressSpaceSpec!Next \/ UNCHANGED << Regions, answer >>
<1>1. CASE InitOverlap
  BY <1>1 DEF InitOverlap, Regions
<1>2. CASE InitTable
  <2>1. phase = "init" /\ phase' \in {"run", "nomap"} /\ UNCHANGED answer
    BY <1>2 DEF InitTable
  <2>2. Regions = {}
    BY <2>1 DEF Regions
  <2>3. CASE phase' = "nomap"
    BY <2>1, <2>2, <2>3 DEF Regions
  <2>4. CASE phase' = "run"
    <3>1. LaidOut'
      <4>1. Running'
        BY <2>4 DEF Running
      <4> QED BY <4>1, RegionsLaidOut, PTL
    <3>2. AddressSpaceSpec!Populate
      BY <2>1, <2>2, <3>1 DEF LaidOut, AddressSpaceSpec!Populate, AddressSpaceSpec!Apart
    <3> QED BY <3>2 DEF AddressSpaceSpec!Next
  <2> QED BY <2>1, <2>3, <2>4
<1>3. ASSUME NEW a \in Asked, Lookup(a) PROVE AddressSpaceSpec!Next
  <2>1. phase = "run" /\ Resolve(a) /\ UNCHANGED << phase, iomaps >> /\ a \in Addr
    BY <1>3, AskedAssumption DEF Lookup
  <2>2. Regions' = Regions
    BY <2>1 DEF Regions
  <2> QED BY <2>1, <2>2, ResolveRefines DEF AddressSpaceSpec!Next
<1>4. ASSUME NEW w \in Walk, phase = "run", ContiguousCall(w), UNCHANGED << phase, iomaps >>
      PROVE  AddressSpaceSpec!Next \/ UNCHANGED << Regions, answer >>
  <2>1. Regions' = Regions
    BY <1>4 DEF Regions
  <2>2. Resolve(w.at) \/ UNCHANGED answer
    BY <1>4 DEF ContiguousCall
  <2>3. w.at \in Addr
    BY DEF Walk
  <2> QED BY <1>4, <2>1, <2>2, <2>3, ResolveRefines DEF AddressSpaceSpec!Next
<1>5. ASSUME NEW start \in Asked, NEW end \in Asked, CallContiguous(start, end)
      PROVE  AddressSpaceSpec!Next \/ UNCHANGED << Regions, answer >>
  <2>1. FreshWalk(start, end) \in Walk
    BY AskedAssumption, WordType DEF FreshWalk, Walk, Addr
  <2> QED BY <1>4, <1>5, <2>1 DEF CallContiguous
<1>6. CASE Recurse
  <2>1. walk \in Walk
    BY DEF IInv, TypeOK
  <2> QED BY <1>4, <1>6, <2>1 DEF Recurse
<1>7. CASE UNCHANGED vars
  BY <1>7 DEF vars, Regions
<1> QED BY <1>1, <1>2, <1>3, <1>5, <1>6, <1>7 DEF Next, HartInit

(* rv32i-mem.c, with its table, its wrapping sums and its memo, implements  *)
(* the abstract address space.                                             *)
THEOREM LookupsImplementAddressSpace == Spec => ImplementsAddressSpace
<1>1. Init => AddressSpaceSpec!Init
  BY DEF Init, AddressSpaceSpec!Init, AddressSpaceSpec!NoAnswer, Regions
<1>2. IInv /\ IInv' /\ [Next]_vars => [AddressSpaceSpec!Next]_(AddressSpaceSpec!asvars)
  BY StepRefines DEF AddressSpaceSpec!asvars
<1> QED BY <1>1, <1>2, SpecIInv, PTL DEF Spec, ImplementsAddressSpace, AddressSpaceSpec!Spec
=============================================================================
