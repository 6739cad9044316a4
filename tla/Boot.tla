-------------------------------- MODULE Boot --------------------------------
(***************************************************************************)
(* main up to the first instruction: the command line, rv32i_open_file,    *)
(* rv32i_hart_init and rv32i_load_program in that order, each with its     *)
(* ways out of the process.  Guest memory holds the numbers of the image   *)
(* bytes, 1 for the first; 0 is a byte no one has written.  The allocation *)
(* of a map may fail, which no one tests.                                  *)
(***************************************************************************)
EXTENDS Transfers

CONSTANTS
    Numbers, DefaultRam,     \* of CommandLine
    MaxMaps,                 \* bound: maps on a command line
    FileSizes                \* sizes of the program file, in bytes

ASSUME FileSizesAssumption == FileSizes \subseteq Nat /\ MaxMaps \in Nat

ASSUME ParserAssumption ==
    /\ Numbers \subseteq Int
    /\ DefaultRam \in Nat /\ 0 < DefaultRam /\ DefaultRam * PAGE < HALF

VARIABLES
    cmd,       \* the command line
    given, outcome, listing,     \* of CommandLine
    phase,     \* "open", "init", "load", "run", an exit, or "undefined"
    size,      \* file.st.st_size
    iomaps, memo,
    null,      \* the maps whose buffer malloc did not give
    mem,       \* the bytes behind the table, by guest address
    pc

parser == << cmd, given, outcome, listing >>
vars == << parser, phase, size, iomaps, memo, null, mem, pc >>

Parser == INSTANCE CommandLine WITH r <- cmd

Init ==
    /\ Parser!Init /\ phase = "open" /\ size = 0
    /\ iomaps = << >> /\ memo = NULL /\ null = {} /\ mem = << >> /\ pc = 0

ParseCmdline ==
    /\ phase = "open"
    /\ Parser!Next /\ Len(cmd'.choosen_iomaps) =< MaxMaps
    /\ UNCHANGED << phase, size, iomaps, memo, null, mem, pc >>

(* rv32i_open_file: no such file, or nothing mmap can map (an empty file).  *)
(* The locals of the parser are gone.                                       *)
OpenFile ==
    /\ phase = "open" /\ outcome = "parsed"
    /\ given' = {}
    /\ \/ phase' = "nofile" /\ UNCHANGED size
       \/ /\ size' \in FileSizes
          /\ phase' = IF size' = 0 THEN "aintfile" ELSE "init"
    /\ UNCHANGED << cmd, outcome, listing, iomaps, memo, null, mem, pc >>

HartInit ==
    /\ phase = "init"
    /\ \/ /\ CheckOverlap(cmd.choosen_iomaps)
          /\ phase' = "overlap"
          /\ UNCHANGED << iomaps, memo, null, mem, pc >>
       \/ /\ ~CheckOverlap(cmd.choosen_iomaps)
          /\ iomaps' = TableOf(cmd)
          /\ null' \in SUBSET DOMAIN iomaps'
          /\ mem' = [ a \in Mapped(iomaps') |-> 0 ]
          /\ memo' = GetIomapByAddrNonMemoised(iomaps', InitialAddr(cmd))
          /\ phase' = IF memo' = NULL THEN "nomap" ELSE "load"
          /\ pc' = IF memo' = NULL THEN pc ELSE cmd.load_at
    /\ UNCHANGED << parser, size >>

Image == [ k \in 0 .. size - 1 |-> k + 1 ]

(* A memcpy to or from the NULL buffer of one of these maps                *)
IntoNull(maps) == \E i \in DOMAIN maps : maps[i] \in null

LoadProgram ==
    /\ phase = "load"
    /\ LET room == Contiguous(iomaps, memo, cmd.load_at, Low32(cmd.load_at + size))
       IN  \/ /\ room.bytes < size
              /\ phase' = "oom" /\ memo' = room.memo
              /\ UNCHANGED mem
           \/ /\ room.bytes >= size
              /\ LET load    == Collect(iomaps, room.memo, cmd.load_at, size)
                     defined == /\ CopyDefined(iomaps, room.memo, cmd.load_at, size)
                                /\ ~IntoNull(load.maps)
                 IN  /\ memo' = load.memo
                     /\ \/ /\ defined /\ phase' = "run"
                           /\ mem' = CopyFromHost(iomaps, room.memo, mem, cmd.load_at, Image, size)
                        \/ ~defined /\ phase' = "undefined" /\ UNCHANGED mem
    /\ UNCHANGED << parser, size, iomaps, null, pc >>

Next == ParseCmdline \/ OpenFile \/ HartInit \/ LoadProgram

Spec == Init /\ [][Next]_vars

-----------------------------------------------------------------------------
Exits == {"nofile", "aintfile", "overlap", "nomap", "oom"}

TypeOK ==
    /\ Parser!TypeOK
    /\ phase \in {"open", "init", "load", "run", "undefined"} \cup Exits
    /\ size \in Nat
    /\ iomaps \in Seq(IoMap) /\ memo \in 0 .. Len(iomaps) /\ null \subseteq DOMAIN iomaps
    /\ mem \in [ Mapped(iomaps) -> 0 .. size ]
    /\ pc \in Addr

End == cmd.load_at + size

Placed(a) == IF cmd.load_at =< a /\ a < End THEN a - cmd.load_at + 1 ELSE 0

(* A program that lies in one map and spans fewer pages than the array of   *)
(* rv32i_mem_copyfromhost has slots is loaded byte for byte at --load-at,   *)
(* wherever in the map that is, nothing else is touched, and the load never *)
(* runs outside a buffer that could be allocated.                           *)
LoadedExactly ==
    (phase \in {"run", "undefined"} /\ null = {} /\ InOneMap(iomaps, cmd.load_at, size)
     /\ ShortWalk(cmd.load_at, size))
    => phase = "run" /\ \A a \in DOMAIN mem : mem[a] = Placed(a)

(* A program is refused for want of memory only if that memory is missing.  *)
RefusedOnlyIfShort ==
    phase = "oom" => BackedRun(iomaps, cmd.load_at, End) < size

(* Started from the first byte of a map, a program that is not refused has  *)
(* all its memory, over however many adjacent maps.                         *)
EnoughFromMapStart ==
    (phase \in {"run", "undefined"}
     /\ \E i \in DOMAIN iomaps : iomaps[i].start_addr = cmd.load_at)
    => BackedRun(iomaps, cmd.load_at, End) = size

(* Whatever was typed, the executor starts at --load-at, on a backed byte   *)
(* of a map that has its buffer, although no one looks at what malloc gave, *)
(* and with a memo that answers as the table does.                          *)
ReadyToRun ==
    phase = "run" =>
        /\ pc = cmd.load_at /\ pc \in Mapped(iomaps)
        /\ GetIomapByAddrNonMemoised(iomaps, pc) \notin null
        /\ \A a \in Addr : GetIomapByAddr(iomaps, memo, a)
                           = GetIomapByAddrNonMemoised(iomaps, a)

(* "Load and run program at specified address": all of it is loaded.        *)
WholeProgramLoaded ==
    phase = "run" => \A a \in cmd.load_at .. End - 1 : a \in DOMAIN mem /\ mem[a] = Placed(a)
=============================================================================
