---------------------------- MODULE CommandLine ----------------------------
(***************************************************************************)
(* rv32i_parse_cmdline: one action per option, taken in any order and any  *)
(* number of times, each leading to the next argument or out of the        *)
(* program.  A number is what strtol returns: any integer, text that is    *)
(* not a number included (it reads as 0, and the test on endptr compares   *)
(* it with the wrong argument, so it never fires).                         *)
(***************************************************************************)
EXTENDS IoMaps

CONSTANTS
    Numbers,      \* the values strtol returns for the arguments
    DefaultRam    \* the ram of a command line without -m, in KiB

ASSUME NumbersAssumption == Numbers \subseteq Int

ASSUME DefaultRamAssumption ==
    /\ DefaultRam \in Nat /\ 0 < DefaultRam /\ DefaultRam * PAGE < HALF

VARIABLES
    r,         \* the rv32i_cmdline_s being filled in
    given,     \* the options that may be given once and have been
    outcome,   \* "parsing", "parsed", or the way the program exited
    listing    \* what --show-map has printed, a row per map or hole

vars == << r, given, outcome, listing >>

OnceOptions == {"file", "-m", "--load-at", "--show-map", "--debug", "--noop-stub"}

Failures  == {"usage", "too many maps", "not aligned", "overlap"}     \* EXIT_FAILURE
Successes == {"version", "memory map shown"}               \* EXIT_SUCCESS

Init ==
    /\ r = [is_using_mmap |-> FALSE, choosen_iomaps |-> << >>,
            ramamnt |-> DefaultRam * PAGE, load_at |-> 0]
    /\ given = {}
    /\ outcome = "parsing"
    /\ listing = << >>

Exit(how) == outcome' = how /\ UNCHANGED << r, given, listing >>

(* An option that may be given once. *)
Once(option) == given' = given \cup {option} /\ UNCHANGED << outcome, listing >>

(* Fault: a size that does not wrap.                                       *)
KibUnbounded(n) == n * PAGE

Kib(n) == (n * PAGE) % SIZET        \* strtol(...) * KiB, a size_t

(* --debug, --noop-stub, --show-map *)
Flag(option) ==
    \/ option \in given /\ Exit("usage")
    \/ option \notin given /\ Once(option) /\ UNCHANGED r

(* A file name; a second one is refused. *)
Filename ==
    \/ "file" \in given /\ Exit("usage")
    \/ "file" \notin given /\ Once("file") /\ UNCHANGED r

Version == Exit("version")

(* -h and --help fall through to the options nobody knows, because the     *)
(* test asks for both at once; an option without its arguments ends here   *)
(* too.                                                                    *)
Unknown == Exit("usage")

LoadAt(n) ==
    \/ ("--load-at" \in given \/ Negative(n)) /\ Exit("usage")
    \/ /\ "--load-at" \notin given /\ ~Negative(n)
       /\ r' = [r EXCEPT !.load_at = Low32(n)]
       /\ Once("--load-at")

(* Fault: -m forgets to ask for maps chosen before it.                     *)
RamAnyway(n) ==
    LET ramamnt == Low32(Kib(n))
        refused == "-m" \in given \/ ramamnt = 0 \/ Negative(ramamnt)
    IN  \/ refused /\ Exit("usage")
        \/ /\ ~refused
           /\ r' = [r EXCEPT !.ramamnt = ramamnt]
           /\ Once("-m")

Ram(n) ==
    LET ramamnt == Low32(Kib(n))
        refused == "-m" \in given \/ ramamnt = 0 \/ r.is_using_mmap \/ Negative(ramamnt)
    IN  \/ refused /\ Exit("usage")
        \/ /\ ~refused
           /\ r' = [r EXCEPT !.ramamnt = ramamnt]
           /\ Once("-m")

(* The tests of --memory-map, in their order *)
MemoryMap(n, kib) ==
    LET addr == Low32(n)
        size == Kib(kib)
        full == Len(r.choosen_iomaps) = HARDCAP
    IN  \/ "-m" \in given /\ Exit("usage")
        \/ "-m" \notin given /\ full /\ Exit("too many maps")
        \/ "-m" \notin given /\ ~full /\ Negative(addr) /\ Exit("usage")
        \/ /\ "-m" \notin given /\ ~full /\ ~Negative(addr)
           /\ addr % BLOCK # 0 /\ Exit("not aligned")
        \/ /\ "-m" \notin given /\ ~full /\ ~Negative(addr) /\ addr % BLOCK = 0
           /\ size = 0 \/ Negative(size)
           /\ Exit("usage")
        \/ /\ "-m" \notin given /\ ~full /\ ~Negative(addr) /\ addr % BLOCK = 0
           /\ size # 0 /\ ~Negative(size)
           /\ r' = [r EXCEPT !.is_using_mmap  = TRUE,
                             !.choosen_iomaps = Append(@, [addr |-> addr, size |-> size])]
           /\ UNCHANGED << given, outcome, listing >>

(* --show-map.  A row has the first and the last address printed and the    *)
(* size; "none" is a hole.                                                  *)
Row(first, last, size) == [first |-> first, last |-> last, size |-> size]
Hole == [first |-> 0, last |-> 0, size |-> 0]

(* What qsort may leave of the maps.  The comparison,                      *)
(* rv32i_info_showmmap_sort, answers 1 for greater and 0 for anything else, *)
(* equal or less: that is no order, so qsort promises none.                 *)
Arrangements(maps) ==
    { [ i \in DOMAIN maps |-> maps[p[i]] ] : p \in Bijection(DOMAIN maps, DOMAIN maps) }

(* Sums are in size_t: an address as typed, a size not yet cut to 32 bits.  *)
ListedMap(map) == Row(map.addr, (map.addr + map.size - 1) % SIZET, map.size)

(* Fault: the last byte is compared, not the one behind it.                *)
ApartFromLast(map, next) == (map.addr + map.size - 1) % SIZET # next.addr

Apart(map, next) == (map.addr + map.size) % SIZET # next.addr

MapRows(order, i) ==
    << ListedMap(order[i]) >>
    \o (IF i < Len(order) /\ Apart(order[i], order[i + 1]) THEN << Hole >> ELSE << >>)

(* rv32i_info_showmmap after its overlap test.  The row of -m ends at the   *)
(* amount of ram, one byte behind the last.                                 *)
ShowMap(inorder_iomaps) ==
    IF ~r.is_using_mmap THEN << Row(0, r.ramamnt, r.ramamnt), Hole >>
    ELSE (IF \E i \in DOMAIN inorder_iomaps : inorder_iomaps[i].addr = 0
          THEN << >> ELSE << Hole >>)
         \o FlattenSeq([ i \in DOMAIN inorder_iomaps |-> MapRows(inorder_iomaps, i) ])
         \o << Hole >>

(* No argument left: --show-map ends the program, a missing file as well. *)
NoMoreArguments ==
    \/ "--show-map" \in given /\ CheckOverlap(r.choosen_iomaps) /\ Exit("overlap")
    \/ /\ "--show-map" \in given /\ ~CheckOverlap(r.choosen_iomaps)
       /\ \E order \in Arrangements(r.choosen_iomaps) : listing' = ShowMap(order)
       /\ outcome' = "memory map shown" /\ UNCHANGED << r, given >>
    \/ "--show-map" \notin given /\ "file" \notin given /\ Exit("usage")
    \/ "--show-map" \notin given /\ "file" \in given /\ Exit("parsed")

Next ==
    /\ outcome = "parsing"
    /\ \/ \E option \in {"--debug", "--noop-stub", "--show-map"} : Flag(option)
       \/ Filename \/ Version \/ Unknown
       \/ \E n \in Numbers : LoadAt(n) \/ Ram(n)
       \/ \E n, kib \in Numbers : MemoryMap(n, kib)
       \/ NoMoreArguments

Spec == Init /\ [][Next]_vars

-----------------------------------------------------------------------------
TypeOK ==
    /\ r \in Cmdline
    /\ given \subseteq OnceOptions
    /\ outcome \in {"parsing", "parsed"} \cup Failures \cup Successes

(* Whatever is typed, in whatever order, a command line that gets through  *)
(* is one the address map can be built from: although every test looks at  *)
(* the low 32 bits of a number only, no start address and no 32-bit size   *)
(* is negative, sizes are whole pages, and the cap on maps is kept.        *)
OnlyAccepted == outcome = "parsed" => Accepted(r)

(* -m and --memory-map exclude each other, whichever comes first: memory   *)
(* asked for with one is never dropped for the other.                      *)
RamOrMaps == ~ ("-m" \in given /\ r.choosen_iomaps # << >>)

(* The listing of --show-map is the table the emulator would build, in      *)
(* whatever order qsort leaves the maps: its rows are exactly the addresses *)
(* that table answers, none twice; two rows stand together only where one   *)
(* map begins at the end of the other, and have "none" between them only    *)
(* where it does not; the listing begins with "none" unless there is memory *)
(* at 0.  In ascending order "none" is thus wherever memory is missing; the *)
(* code does not ensure that order.  The last address printed is that of    *)
(* the last byte, but for -m, where it is the one behind.  Sizes of 2^32    *)
(* and more are listed as typed; the table cuts them.                       *)
ListingIsTable ==
    LET table == TableOf(r)
        uncut == \A i \in DOMAIN r.choosen_iomaps : r.choosen_iomaps[i].size < 2 * HALF
        rows  == DOMAIN listing
        end(i) == listing[i].first + listing[i].size
    IN  (outcome = "memory map shown" /\ uncut) =>
        /\ \A a \in Addr : (GetIomapByAddrNonMemoised(table, a) # NULL)
                           <=> \E i \in rows : listing[i].first =< a /\ a < end(i)
        /\ \A i \in rows : listing[i] # Hole =>
              listing[i].last = end(i) - (IF r.is_using_mmap THEN 1 ELSE 0)
        /\ \A i, j \in rows : (i < j /\ listing[i] # Hole /\ listing[j] # Hole) =>
              /\ end(i) =< listing[j].first \/ end(j) =< listing[i].first
              /\ j = i + 1 => end(i) = listing[j].first
              /\ j = i + 2 => end(i) # listing[j].first
        /\ listing[1] # Hole <=> \E i \in rows : listing[i] # Hole /\ listing[i].first = 0
=============================================================================
