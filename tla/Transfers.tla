----------------------------- MODULE Transfers -----------------------------
(***************************************************************************)
(* rv32i_mem_copyfromhost and rv32i_mem_copyfromguest: two functions with  *)
(* one plan.  They walk the pages of the guest range, collect the map of   *)
(* each page in an array of HARDCAP pointers, and then copy one stretch    *)
(* per collected pointer.  A byte of a buffer is named by its guest        *)
(* address: the start of its map plus the offset in the buffer.            *)
(***************************************************************************)
EXTENDS IoMaps

(* ALIGN_TO_PAGE on a size_t: up to the next page, 0 stays 0. *)
AlignToPage(a) == (a - 1) + PAGE - ((a - 1) % PAGE)

(* The addresses the walk looks up: from a start inside a page it goes to   *)
(* the end of the next one.                                                 *)
PageWalk(addr, count) ==
    LET later == { k \in 1 .. count : AlignToPage(addr) + k * PAGE < addr + count }
        pages == IF count = 0 THEN 0 ELSE 1 + Cardinality(later)
    IN  [ i \in 1 .. pages |-> IF i = 1 THEN addr ELSE AlignToPage(addr) + (i - 1) * PAGE ]

(* The collected pointers.  A map is compared with the slot it would go     *)
(* into, never with the one before: every page adds its map again, and a    *)
(* page without a map adds nothing unless it is the first.                  *)
Collect(iomaps, memo, addr, count) ==
    FoldLeft(LAMBDA c, a :
                LET map == GetIomapByAddr(iomaps, c.memo, Low32(a))
                IN  [memo |-> MemoAfter(iomaps, c.memo, Low32(a)),
                     maps |-> IF c.maps = << >> \/ map # NULL
                              THEN Append(c.maps, map) ELSE c.maps],
             [memo |-> memo, maps |-> << >>],
             PageWalk(addr, count))

(* The array has no room for a terminating NULL: both loops run past it.    *)
ArrayOverrun(maps) == Len(maps) >= HARDCAP

(* Fault: the offset of addr in its map is forgotten.                      *)
StartOfMap(map, addr, i) == map.start_addr

(* Only the first copy starts inside its map.                               *)
StartIn(map, addr, i) == IF i = 1 THEN addr ELSE map.start_addr

(* The copies, in order: from offset host of the host buffer to (or from)   *)
(* address guest, len bytes.  The room left of addr in the first map is not *)
(* subtracted from its length.                                              *)
Copies(iomaps, maps, addr, count) ==
    LET first == iomaps[maps[1]].start_addr
        copy(p, i) ==
            LET map == iomaps[maps[i]]
                len == Min({map.size, count - p.copied})
            IN  [copied |-> p.copied + len,
                 list   |-> Append(p.list,
                              [map   |-> maps[i],
                               guest |-> StartIn(map, addr, i),
                               host  |-> Low32(map.start_addr - first),
                               len   |-> len])]
    IN  IF maps = << >> \/ maps[1] = NULL THEN << >>
        ELSE FoldLeft(copy, [copied |-> 0, list |-> << >>],
                      [ i \in 1 .. Len(maps) |-> i ]).list

(* A memcpy that stays inside the map and inside the count host bytes.      *)
InBuffers(iomaps, copy, count) ==
    /\ copy.guest + copy.len =< iomaps[copy.map].start_addr + iomaps[copy.map].size
    /\ copy.host + copy.len =< count

CopyDefined(iomaps, memo, addr, count) ==
    LET maps   == Collect(iomaps, memo, addr, count).maps
        copies == Copies(iomaps, maps, addr, count)
    IN  /\ ~ArrayOverrun(maps)
        /\ \A i \in DOMAIN copies : InBuffers(iomaps, copies[i], count)

(* Guest memory after the copies; host[k] is byte k of the host buffer.     *)
CopyFromHost(iomaps, memo, mem, addr, host, count) ==
    LET copies == Copies(iomaps, Collect(iomaps, memo, addr, count).maps, addr, count)
    IN  FoldLeft(LAMBDA m, c :
                    [ a \in DOMAIN m |-> IF c.guest =< a /\ a < c.guest + c.len
                                         THEN host[c.host + a - c.guest] ELSE m[a] ],
                 mem, copies)

(* The host buffer after the copies; uninit is what malloc left there.      *)
CopyFromGuest(iomaps, memo, mem, addr, count, uninit) ==
    LET copies == Copies(iomaps, Collect(iomaps, memo, addr, count).maps, addr, count)
    IN  FoldLeft(LAMBDA h, c :
                    [ k \in DOMAIN h |-> IF c.host =< k /\ k < c.host + c.len
                                         THEN mem[c.guest + k - c.host] ELSE h[k] ],
                 [ k \in 0 .. count - 1 |-> uninit ], copies)

-----------------------------------------------------------------------------
(* One map holds the whole range, and fewer pages than the array has slots. *)
InOneMap(iomaps, addr, count) ==
    \E i \in DOMAIN iomaps : { addr, addr + count - 1 } \subseteq Region(iomaps[i])

ShortWalk(addr, count) == Len(PageWalk(addr, count)) < HARDCAP
=============================================================================
