----------------------------- MODULE BootProofs -----------------------------
(***************************************************************************)
(* From any command line and any program file to the first instruction:   *)
(* what rv32i_hart_init and rv32i_load_program leave, for every width of a *)
(* machine word, every table of maps the parser lets through and every     *)
(* size of file.                                                           *)
(***************************************************************************)
EXTENDS Boot, MapLemmas

(***************************************************************************)
(* The parser, with what is proved of it.                                  *)
(***************************************************************************)
Proved == INSTANCE CommandLineProofs WITH r <- cmd


(* The parser of Boot is the one proved about.                              *)
LEMMA ParserFacts ==
    /\ Proved!Accepted(cmd) <=> Accepted(cmd)
    /\ Proved!TypeOK <=> Parser!TypeOK
BY DEF Proved!Accepted, Accepted, Proved!TypeOK, Parser!TypeOK, Proved!Cmdline, Parser!Cmdline,
       Cmdline, Proved!ChosenIoMap, Parser!ChosenIoMap, ChosenIoMap, Proved!Addr, Parser!Addr,
       Addr, Proved!WORD, Parser!WORD, WORD, Proved!AcceptedIoMap, AcceptedIoMap,
       Proved!Multiple, Multiple, Proved!Negative, Negative, Proved!Low32, Low32,
       Proved!OnceOptions, Parser!OnceOptions, Proved!Failures, Parser!Failures,
       Proved!Successes, Parser!Successes

(* The parse starts from an acceptable command line ...                     *)
LEMMA ParserInit ==
    ASSUME Parser!Init
    PROVE  Proved!AcceptedSoFar
<1>1. Proved!Init
  BY DEF Parser!Init, Proved!Init
<1> QED
  BY <1>1, Proved!InitAccepted, ParserAssumption, CapAssumption, WidthAssumption

(* An argument that leaves the fields of the command line alone.            *)
LEMMA ParserRest ==
    ASSUME Proved!AcceptedSoFar, UNCHANGED cmd,
           \/ \E how \in Parser!Failures \cup Parser!Successes \cup {"parsed"} :
                outcome' = how /\ UNCHANGED given
           \/ \E option \in Parser!OnceOptions \ {"-m"} :
                given' = given \cup {option} /\ UNCHANGED outcome
           \/ UNCHANGED << given, outcome >>
    PROVE  Proved!AcceptedSoFar'
BY Proved!RestAccepted, ParserAssumption, CapAssumption, WidthAssumption
   DEF Parser!Failures, Proved!Failures, Parser!Successes, Proved!Successes,
       Parser!OnceOptions, Proved!OnceOptions

(* ... and no option spoils it.                                             *)
LEMMA ParserStep ==
    ASSUME Proved!AcceptedSoFar, Parser!Next
    PROVE  Proved!AcceptedSoFar'
<1> USE DEF Proved!Exit, Parser!Exit, Proved!Once, Parser!Once, Proved!Negative, Parser!Negative,
            Proved!Low32, Parser!Low32, Proved!WORD, Parser!WORD, Proved!Kib, Parser!Kib
<1>1. outcome = "parsing"
  BY DEF Parser!Next
<1>2. ASSUME NEW n \in Numbers, Parser!LoadAt(n) PROVE Proved!AcceptedSoFar'
  <2>1. Proved!LoadAt(n) /\ n \in Int
    BY <1>2, ParserAssumption DEF Proved!LoadAt, Parser!LoadAt
  <2> QED
    BY <1>1, <2>1, Proved!LoadAtAccepted, ParserAssumption, CapAssumption, WidthAssumption
<1>3. ASSUME NEW n \in Numbers, Parser!Ram(n) PROVE Proved!AcceptedSoFar'
  <2>1. Proved!Ram(n) /\ n \in Int
    BY <1>3, ParserAssumption DEF Proved!Ram, Parser!Ram
  <2> QED
    BY <1>1, <2>1, Proved!RamAccepted, ParserAssumption, CapAssumption, WidthAssumption
<1>4. ASSUME NEW n \in Numbers, NEW kib \in Numbers, Parser!MemoryMap(n, kib)
      PROVE  Proved!AcceptedSoFar'
  <2>1. Proved!MemoryMap(n, kib) /\ n \in Int /\ kib \in Int
    BY <1>4, ParserAssumption DEF Proved!MemoryMap, Parser!MemoryMap
  <2> QED
    BY <1>1, <2>1, Proved!MemoryMapAccepted, ParserAssumption, CapAssumption, WidthAssumption
<1>5. ASSUME NEW option \in {"--debug", "--noop-stub", "--show-map"}, Parser!Flag(option)
      PROVE  Proved!AcceptedSoFar'
  BY <1>5, ParserRest DEF Parser!Flag, Parser!Failures, Parser!OnceOptions
<1>6. CASE Parser!Filename \/ Parser!Version \/ Parser!Unknown
  BY <1>6, ParserRest
  DEF Parser!Filename, Parser!Version, Parser!Unknown, Parser!Failures, Parser!Successes,
      Parser!OnceOptions
<1>7. CASE Parser!NoMoreArguments
  BY <1>7, ParserRest DEF Parser!NoMoreArguments, Parser!Failures, Parser!Successes
<1> QED BY <1>2, <1>3, <1>4, <1>5, <1>6, <1>7 DEF Parser!Next

-----------------------------------------------------------------------------
(***************************************************************************)
(* What each phase can rely on.  None of the properties is inductive: they *)
(* speak of the end of a boot, the clauses on "open", "init" and "load" of *)
(* what the steps before it have to leave.                                 *)
(***************************************************************************)
Parsed == Proved!AcceptedSoFar /\ Accepted(cmd)

Opened == size \in Nat /\ (phase \in {"init", "overlap", "nomap", "load", "oom", "run", "undefined"}
                           => size # 0)

Blank == iomaps = << >> /\ memo = NULL /\ null = {} /\ mem = << >> /\ pc = 0

Built ==
    /\ Table(iomaps) /\ null \subseteq DOMAIN iomaps
    /\ mem \in [ Mapped(iomaps) -> 0 .. size ]

Loading ==
    /\ MemoOk(iomaps, memo) /\ pc = cmd.load_at

Untouched == \A a \in Mapped(iomaps) : mem[a] = 0

BInv ==
    /\ Parsed /\ Opened
    /\ phase \in {"open", "init", "load", "run", "undefined"} \cup Exits
    /\ phase \in {"open", "nofile", "aintfile", "init", "overlap"} => Blank
    /\ phase \in {"nomap", "load", "oom", "run", "undefined"} => Built
    /\ phase = "nomap" => memo = NULL /\ pc = 0
    /\ phase \in {"load", "oom", "run", "undefined"} => Loading
    /\ phase = "load" => Untouched
    /\ LoadedExactly /\ RefusedOnlyIfShort /\ EnoughFromMapStart /\ ReadyToRun

-----------------------------------------------------------------------------
(* What the invariant says of the command line and of the file's end.       *)
LEMMA BootFacts ==
    ASSUME BInv
    PROVE  /\ Accepted(cmd) /\ cmd.load_at \in Addr /\ cmd.load_at \in Nat /\ cmd.load_at < HALF
           /\ size \in Nat /\ End \in Nat /\ cmd.load_at =< End
<1>1. Accepted(cmd) /\ size \in Nat
  BY DEF BInv, Parsed, Opened
<1>2. cmd.load_at \in Addr /\ cmd.load_at < HALF
  BY <1>1 DEF Accepted, Cmdline
<1>3. cmd.load_at \in Nat
  BY <1>2, AddrType
<1> QED BY <1>1, <1>2, <1>3 DEF End

(* Before the first option nothing has been opened, built or loaded.        *)
LEMMA BootInit == Init => BInv
<1> SUFFICES ASSUME Init PROVE BInv
  OBVIOUS
<1>1. Parsed
  <2>1. Proved!AcceptedSoFar
    BY ParserInit DEF Init
  <2> QED BY <2>1, ParserFacts DEF Parsed, Proved!AcceptedSoFar
<1>2. phase = "open" /\ size = 0 /\ Blank
  BY DEF Init, Blank
<1> QED BY <1>1, <1>2 DEF BInv, Opened, LoadedExactly, RefusedOnlyIfShort, EnoughFromMapStart,
                          ReadyToRun

(* Before the loop runs nothing is said of the end of the boot.             *)
NotYet ==
    phase \notin {"oom", "run", "undefined"}
    => LoadedExactly /\ RefusedOnlyIfShort /\ EnoughFromMapStart /\ ReadyToRun

(* The later parts of the invariant have nothing to say before the          *)
(* executor.                                                                *)
LEMMA NothingYet == NotYet'
BY DEF NotYet, LoadedExactly, RefusedOnlyIfShort, EnoughFromMapStart, ReadyToRun

(* The parse, with its exits.                                               *)
LEMMA ParseBoots ==
    ASSUME BInv, ParseCmdline
    PROVE  BInv'
<1>1. Parsed'
  <2>1. Proved!AcceptedSoFar'
    BY ParserStep DEF BInv, Parsed, ParseCmdline
  <2>2. Accepted(cmd)'
    <3>1. Proved!Accepted(cmd)' <=> Accepted(cmd)'
      BY DEF Proved!Accepted, Accepted, Proved!Cmdline, Cmdline, Proved!ChosenIoMap,
             ChosenIoMap, Proved!Addr, Addr, Proved!WORD, WORD, Proved!AcceptedIoMap,
             AcceptedIoMap, Proved!Multiple, Multiple, Proved!Negative, Negative,
             Proved!Low32, Low32
    <3> QED BY <2>1, <3>1 DEF Proved!AcceptedSoFar
  <2> QED BY <2>1, <2>2 DEF Parsed
<1>2. phase' = "open" /\ Blank' /\ size' \in Nat
  BY DEF BInv, Blank, ParseCmdline, Opened
<1>3. Opened'
  BY <1>2 DEF Opened
<1> QED BY <1>1, <1>2, <1>3, NothingYet DEF BInv, NotYet

(* Steps after the parse leave the command line alone.                      *)
LEMMA ParsedKept ==
    ASSUME BInv, UNCHANGED << cmd, outcome >>, given' = {} \/ UNCHANGED given
    PROVE  Parsed'
<1>1. Proved!AcceptedSoFar /\ Accepted(cmd)
  BY DEF BInv, Parsed
<1>2. Accepted(cmd)'
  BY <1>1
<1>3. Proved!AcceptedSoFar'
  BY <1>1 DEF Proved!AcceptedSoFar, Proved!TypeOK, Proved!RamOrMaps
<1> QED BY <1>2, <1>3 DEF Parsed

(* Opening the file, or failing to.                                         *)
LEMMA OpenBoots ==
    ASSUME BInv, OpenFile
    PROVE  BInv'
<1>1. Parsed'
  BY ParsedKept DEF OpenFile
<1>2. Blank'
  BY DEF BInv, Blank, OpenFile
<1>3. \/ phase' = "nofile" /\ size' \in Nat
      \/ phase' = "aintfile" /\ size' \in Nat
      \/ phase' = "init" /\ size' \in Nat /\ size' # 0
  BY FileSizesAssumption DEF BInv, Opened, OpenFile
<1>4. Opened'
  BY <1>3 DEF Opened
<1> QED BY <1>1, <1>2, <1>3, <1>4, NothingYet DEF BInv, NotYet, Exits

(* Building the table; any malloc may fail.                                 *)
LEMMA HartBoots ==
    ASSUME BInv, HartInit
    PROVE  BInv'
<1>1. Parsed'
  BY ParsedKept DEF HartInit, parser
<1>2. size' \in Nat /\ size' # 0 /\ phase = "init" /\ Blank
  BY DEF BInv, Opened, HartInit
<1>3. Opened'
  BY <1>2 DEF Opened
<1>4. CASE phase' = "overlap" /\ UNCHANGED << iomaps, memo, null, mem, pc >>
  <2>1. Blank'
    BY <1>2, <1>4 DEF Blank
  <2> QED BY <1>1, <1>3, <1>4, <2>1, NothingYet DEF BInv, NotYet, Exits
<1>5. CASE /\ ~CheckOverlap(cmd.choosen_iomaps)
           /\ iomaps' = TableOf(cmd)
           /\ null' \in SUBSET DOMAIN iomaps'
           /\ mem' = [ a \in Mapped(iomaps') |-> 0 ]
           /\ memo' = GetIomapByAddrNonMemoised(iomaps', InitialAddr(cmd))
           /\ phase' = IF memo' = NULL THEN "nomap" ELSE "load"
           /\ pc' = IF memo' = NULL THEN pc ELSE cmd.load_at
  <2> DEFINE T == iomaps'
             a == InitialAddr(cmd)
  <2>1. Table(T) /\ Accepted(cmd) /\ cmd' = cmd
    BY <1>5, BootFacts, TableOfAccepted DEF Table, HartInit, parser
  <2>2. a \in Addr
    BY BootFacts, AddrType, WordType DEF InitialAddr, Addr
  <2>3. /\ memo' \in 0 .. Len(T)
        /\ memo' # NULL => Covers(T[memo'], a)
    BY <1>5, <2>1, <2>2, FindUnique DEF Table
  <2>4. memo' # NULL => MemoOk(T, memo')
    <3> SUFFICES ASSUME memo' # NULL PROVE MemoOk(T, memo')
      OBVIOUS
    <3>1. memo' \in DOMAIN T
      BY <2>1, <2>3 DEF NULL, Table
    <3>2. T[memo'] \in IoMap /\ T[memo'].start_addr < HALF /\ T[memo'].size < HALF
      BY <2>1, <3>1 DEF Table, TableInv, RowsBounded
    <3>3. T[memo'].start_addr =< a /\ a < T[memo'].start_addr + T[memo'].size
      BY <2>2, <2>3, <3>2, CoversRegion
    <3>4. T[memo'].size # 0
      BY <2>2, <3>2, <3>3, AddrType DEF IoMap
    <3> QED BY <3>1, <3>4 DEF MemoOk
  <2>5. Built'
    BY <1>2, <1>5, <2>1 DEF Built
  <2>6. Untouched'
    BY <1>5 DEF Untouched
  <2>7. CASE memo' = NULL
    <3>1. phase' = "nomap" /\ pc' = 0
      BY <1>2, <1>5, <2>7 DEF Blank
    <3> QED BY <1>1, <1>3, <2>5, <2>7, <3>1, NothingYet DEF BInv, NotYet, Exits
  <2>8. CASE memo' # NULL
    <3>1. phase' = "load" /\ Loading'
      BY <1>5, <2>1, <2>4, <2>8 DEF Loading
    <3> QED BY <1>1, <1>3, <2>5, <2>6, <3>1, NothingYet DEF BInv, NotYet
  <2> QED BY <2>7, <2>8
<1> QED BY <1>4, <1>5 DEF HartInit

-----------------------------------------------------------------------------
(***************************************************************************)
(* rv32i_load_program.                                                     *)
(***************************************************************************)
LEMMA MinLeast ==
    ASSUME NEW S, S \subseteq Nat, S # {}
    PROVE  Min(S) \in S /\ \A x \in S : Min(S) =< x
<1>1. PICK n \in S : \A x \in S : n =< x
  BY MemoFold!LeastNumber
<1> QED BY <1>1 DEF Min

(* No map reaches the last address, so no run of bytes does.                *)
LEMMA RunCut ==
    ASSUME NEW T, Table(T), NEW s \in Addr, NEW n \in Nat, s + n >= WORD
    PROVE  BackedRun(T, s, s + n) < n
<1> DEFINE holes == { a \in s .. (s + n) - 1 : a \notin Mapped(T) }
<1>1. s \in Nat /\ s < WORD /\ WORD \in Nat /\ WORD = 2 * HALF /\ HALF \in Nat /\ 0 < WORD
  BY AddrType, WordType, WidthAssumption
<1>2. WORD - 1 \notin Mapped(T)
  <2>1. ASSUME NEW i \in DOMAIN T PROVE ~Holds(T[i], WORD - 1)
    <3>1. T[i].start_addr \in 0 .. HALF - 1 /\ T[i].size \in 0 .. HALF - 1
      BY RowType
    <3> QED BY <1>1, <3>1 DEF Holds
  <2>2. WORD - 1 \in Addr
    BY <1>1 DEF Addr
  <2> QED BY <2>1, <2>2, MappedIn
<1>3. WORD - 1 \in holes
  BY <1>1, <1>2
<1>4. holes \subseteq Nat
  BY <1>1
<1>5. Min(holes) \in Nat /\ Min(holes) =< WORD - 1
  <2> HIDE DEF holes
  <2> QED BY <1>3, <1>4, MinLeast
<1>6. BackedRun(T, s, s + n) = Min(holes) - s
  <2>1. BackedRun(T, s, s + n) = IF holes = {} THEN (s + n) - s ELSE Min(holes) - s
    BY DEF BackedRun
  <2> HIDE DEF holes
  <2> QED BY <1>3, <2>1
<1> HIDE DEF holes
<1> QED BY <1>1, <1>5, <1>6

(* The room there is from --load-at on, as rv32i_load_program asks for it.  *)
Room(room) == room = Contiguous(iomaps, memo, cmd.load_at, Low32(cmd.load_at + size))

(* What the loader asks rv32i_mem_contiguous, and what that answer means.   *)
LEMMA RoomReports ==
    ASSUME BInv, phase = "load", NEW room, Room(room)
    PROVE  /\ Reports(iomaps, cmd.load_at, Low32(End), room) /\ MemoOk(iomaps, room.memo)
           /\ Table(iomaps) /\ size # 0 /\ room.bytes \in Addr /\ room.bytes \in Nat
           /\ End < WORD => Low32(End) = End
<1>1. /\ Table(iomaps) /\ MemoOk(iomaps, memo) /\ size # 0
  BY DEF BInv, Built, Loading, Opened
<1>2. cmd.load_at \in Addr /\ End \in Nat
  BY BootFacts
<1>3. Low32(End) \in Addr
  BY <1>2, LowAddr
<1>4. Reports(iomaps, cmd.load_at, Low32(End), room)
  BY <1>1, <1>2, <1>3, ContiguousReports DEF Room, End
<1>5. End < WORD => Low32(End) = End
  BY <1>2, ModBelow, WordType DEF Low32
<1>6. MemoOk(iomaps, room.memo) /\ room.bytes \in Addr
  BY <1>4 DEF Reports
<1> QED BY <1>1, <1>4, <1>5, <1>6, AddrType

(* An answer that is too short means that a byte is missing ...             *)
LEMMA ShortIsShort ==
    ASSUME BInv, phase = "load", NEW room, Room(room), room.bytes < size
    PROVE  BackedRun(iomaps, cmd.load_at, End) < size
<1>1. /\ Reports(iomaps, cmd.load_at, Low32(End), room) /\ Table(iomaps)
      /\ room.bytes \in Nat /\ End < WORD => Low32(End) = End
  BY RoomReports
<1>2. /\ cmd.load_at \in Addr /\ size \in Nat /\ End \in Nat /\ cmd.load_at =< End
  BY BootFacts
<1>3. CASE End < WORD
  <2>1. room.bytes >= BackedRun(iomaps, cmd.load_at, End) /\ End \in Addr
    BY <1>1, <1>2, <1>3, RoomReports, WordType DEF Reports, Addr
  <2>2. BackedRun(iomaps, cmd.load_at, End) \in Int
    <3>1. BackedRun(iomaps, cmd.load_at, End) \in 0 .. End - cmd.load_at
      BY <1>2, <2>1, RunEnds
    <3> QED BY <1>2, <3>1
  <2>3. room.bytes \in Int
    BY RoomReports
  <2> QED BY <1>2, <2>1, <2>2, <2>3
<1>4. CASE ~(End < WORD)
  <2>1. cmd.load_at + size >= WORD
    BY <1>2, <1>4, WordType DEF End
  <2> QED BY <1>1, <1>2, <2>1, RunCut DEF End
<1> QED BY <1>3, <1>4

(* ... and from the start of a map one that is not means that none is.      *)
LEMMA EnoughIsThere ==
    ASSUME BInv, phase = "load", NEW room, Room(room), room.bytes >= size,
           NEW i \in DOMAIN iomaps, iomaps[i].start_addr = cmd.load_at
    PROVE  BackedRun(iomaps, cmd.load_at, End) = size
<1> DEFINE s == cmd.load_at
<1>1. /\ Reports(iomaps, s, Low32(End), room) /\ Table(iomaps)
      /\ room.bytes \in Nat /\ size # 0
  BY RoomReports
<1>2. /\ s \in Addr /\ size \in Nat /\ End \in Nat /\ s =< End /\ s \in Nat /\ End - s = size
  BY BootFacts DEF End
<1>3. AtStart(iomaps, s)
  <2> SUFFICES ASSUME NEW j \in DOMAIN iomaps, Holds(iomaps[j], s), j # i
               PROVE  iomaps[j].start_addr = s
    BY DEF AtStart
  <2>1. \/ iomaps[i].start_addr + iomaps[i].size =< iomaps[j].start_addr
        \/ iomaps[j].start_addr + iomaps[j].size =< iomaps[i].start_addr
    BY <1>1 DEF Table, TableInv, RowsDisjoint
  <2>2. /\ iomaps[i].size \in Nat /\ iomaps[j].size \in Nat /\ iomaps[j].start_addr \in Nat
    BY <1>1, RowType
  <2> QED BY <1>2, <2>1, <2>2 DEF Holds
<1>4. End < WORD
  <2>1. room.bytes # 0
    BY <1>1, <1>2
  <2>2. s \in Mapped(iomaps)
    BY <1>1, <2>1 DEF Reports
  <2>3. PICK j \in DOMAIN iomaps : Holds(iomaps[j], s)
    BY <1>2, <2>2, MappedIn
  <2>4. room.bytes =< WORD - 1 - s
    BY <1>1, <1>3, <2>3 DEF Reports, AtStart
  <2> QED BY <1>1, <1>2, <2>4, WordType
<1>5. Low32(End) = End /\ End \in Addr
  BY <1>2, <1>4, RoomReports, WordType DEF Addr
<1>6. Backed(iomaps, s, End)
  BY <1>1, <1>2, <1>3, <1>5 DEF Reports
<1> QED BY <1>2, <1>6 DEF Backed, BackedRun

(* One that lies in one map is copied there, byte for byte.                 *)
LEMMA LoadsOneMap ==
    ASSUME BInv, phase = "load", NEW m, MemoOk(iomaps, m),
           InOneMap(iomaps, cmd.load_at, size), ShortWalk(cmd.load_at, size)
    PROVE  /\ CopyDefined(iomaps, m, cmd.load_at, size)
           /\ \A a \in DOMAIN mem :
                CopyFromHost(iomaps, m, mem, cmd.load_at, Image, size)[a] = Placed(a)
<1> DEFINE s == cmd.load_at
           after == CopyFromHost(iomaps, m, mem, s, Image, size)
<1>1. /\ s \in Addr /\ s \in Nat /\ size \in Nat /\ End = s + size
  BY BootFacts DEF End
<1>2. /\ Table(iomaps) /\ mem \in [ Mapped(iomaps) -> 0 .. size ]
      /\ \A a \in Mapped(iomaps) : mem[a] = 0
  BY DEF BInv, Built, Untouched
<1>3. mem = [ x \in DOMAIN mem |-> mem[x] ] /\ DOMAIN mem = Mapped(iomaps)
  BY <1>2
<1>4. DOMAIN mem \subseteq Nat
  BY <1>3, AddrType DEF Mapped, Region
<1>5. /\ CopyDefined(iomaps, m, s, size)
      /\ after = Replaced(mem, s, Image, size)
  BY <1>1, <1>2, <1>3, <1>4, OneMapCopyIn
<1> HIDE DEF after
<1>6. ASSUME NEW a \in DOMAIN mem PROVE after[a] = Placed(a)
  <2>1. after[a] = IF s =< a /\ a < s + size THEN Image[a - s] ELSE mem[a]
    BY <1>5 DEF Replaced
  <2>2. a \in Nat /\ mem[a] = 0
    BY <1>2, <1>3, <1>4
  <2>3. s =< a /\ a < s + size => Image[a - s] = a - s + 1
    BY <1>1, <2>2 DEF Image
  <2> QED BY <1>1, <2>1, <2>2, <2>3 DEF Placed
<1> QED BY <1>5, <1>6 DEF after

(* What a load that is not refused leaves.                                  *)
LEMMA LoadLeaves ==
    ASSUME BInv, phase = "load", NEW m, MemoOk(iomaps, m), cmd.load_at \in Mapped(iomaps),
           CopyDefined(iomaps, m, cmd.load_at, size)
    PROVE  LET load == Collect(iomaps, m, cmd.load_at, size)
           IN  /\ MemoOk(iomaps, load.memo)
               /\ CopyFromHost(iomaps, m, mem, cmd.load_at, Image, size)
                    \in [ Mapped(iomaps) -> 0 .. size ]
               /\ ~IntoNull(load.maps) =>
                    GetIomapByAddrNonMemoised(iomaps, cmd.load_at) \notin null
<1> DEFINE s == cmd.load_at
           load == Collect(iomaps, m, s, size)
<1>1. /\ s \in Addr /\ size \in Nat /\ size # 0 /\ Table(iomaps)
      /\ mem \in [ Mapped(iomaps) -> 0 .. size ]
  BY BootFacts DEF BInv, Built, Opened
<1>2. /\ MemoOk(iomaps, load.memo) /\ load.maps # << >>
      /\ load.maps \in Seq(0 .. Len(iomaps)) /\ load.maps[1] = GetIomapByAddr(iomaps, m, s)
  BY <1>1, CollectOk DEF Collected
<1>3. Mapped(iomaps) \subseteq Nat
  BY AddrType DEF Mapped, Region
<1>4. \A k \in 0 .. size - 1 : Image[k] \in 0 .. size
  BY <1>1 DEF Image
<1>5. CopyFromHost(iomaps, m, mem, s, Image, size) \in [ Mapped(iomaps) -> 0 .. size ]
  BY <1>1, <1>3, <1>4, CopyFromHostTyped
<1> HIDE DEF load
<1>6. GetIomapByAddr(iomaps, m, s) = GetIomapByAddrNonMemoised(iomaps, s)
  BY <1>1, LookupIn
<1>7. 1 \in DOMAIN load.maps
  BY <1>2
<1> QED BY <1>2, <1>5, <1>6, <1>7 DEF IntoNull, load

(* Loading, refusing to load, and running into a buffer that is not there.  *)
LEMMA LoadBoots ==
    ASSUME BInv, LoadProgram
    PROVE  BInv'
<1> DEFINE s == cmd.load_at
           load(m) == Collect(iomaps, m, s, size)
<1>1. PICK room : Room(room)
  BY DEF Room
<1>2. /\ phase = "load" /\ UNCHANGED << cmd, given, outcome, listing, size, iomaps, null, pc >>
  BY DEF LoadProgram, parser
<1>3. /\ Built /\ Loading /\ size \in Nat /\ size # 0 /\ Accepted(cmd)
  BY <1>2, BootFacts DEF BInv, Opened
<1>4. Parsed'
  BY <1>2, ParsedKept
<1>5. Opened'
  BY <1>2, <1>3 DEF Opened
<1>6. /\ Reports(iomaps, s, Low32(End), room) /\ MemoOk(iomaps, room.memo)
      /\ room.bytes \in Nat
  BY <1>1, <1>2, RoomReports
<1>7. CASE room.bytes < size /\ phase' = "oom" /\ memo' = room.memo /\ UNCHANGED mem
  <2>1. Built' /\ Loading'
    BY <1>2, <1>3, <1>6, <1>7 DEF Built, Loading, Table, MemoOk
  <2>2. RefusedOnlyIfShort'
    <3>1. BackedRun(iomaps, s, End) < size
      BY <1>1, <1>2, <1>7, ShortIsShort
    <3>2. End' = End
      BY <1>2 DEF End
    <3> QED BY <1>2, <3>1, <3>2 DEF RefusedOnlyIfShort
  <2>3. LoadedExactly' /\ EnoughFromMapStart' /\ ReadyToRun'
    BY <1>7 DEF LoadedExactly, EnoughFromMapStart, ReadyToRun
  <2> QED BY <1>4, <1>5, <1>7, <2>1, <2>2, <2>3 DEF BInv, Exits
<1>8. ASSUME room.bytes >= size,
             \/ /\ CopyDefined(iomaps, room.memo, s, size) /\ ~IntoNull(load(room.memo).maps)
                /\ phase' = "run"
                /\ mem' = CopyFromHost(iomaps, room.memo, mem, s, Image, size)
             \/ /\ ~(CopyDefined(iomaps, room.memo, s, size) /\ ~IntoNull(load(room.memo).maps))
                /\ phase' = "undefined" /\ UNCHANGED mem,
             memo' = load(room.memo).memo
      PROVE  BInv'
  <2>1. /\ s \in Addr /\ Table(iomaps)
    BY <1>3, BootFacts DEF Built
  <2>2. s \in Mapped(iomaps)
    BY <1>3, <1>6, <1>8 DEF Reports
  <2>3. MemoOk(iomaps, memo')
    BY <1>3, <1>6, <1>8, <2>1, CollectOk DEF Collected
  <2>4. mem' \in [ Mapped(iomaps) -> 0 .. size ]
    BY <1>2, <1>3, <1>6, <1>8, <2>2, LoadLeaves DEF Built
  <2>5. Built' /\ Loading'
    BY <1>2, <1>3, <2>3, <2>4 DEF Built, Loading, Table, MemoOk
  <2>6. End' = End /\ \A a : Placed(a)' = Placed(a)
    BY <1>2 DEF End, Placed
  <2>7. LoadedExactly'
    <3> SUFFICES ASSUME null = {}, InOneMap(iomaps, s, size), ShortWalk(s, size)
                 PROVE  phase' = "run" /\ \A a \in DOMAIN mem' : mem'[a] = Placed(a)
      BY <1>2, <2>6 DEF LoadedExactly
    <3>1. /\ CopyDefined(iomaps, room.memo, s, size)
          /\ \A a \in DOMAIN mem :
                CopyFromHost(iomaps, room.memo, mem, s, Image, size)[a] = Placed(a)
      BY <1>2, <1>6, LoadsOneMap
    <3>2. ~IntoNull(load(room.memo).maps)
      BY DEF IntoNull
    <3>3. phase' = "run" /\ mem' = CopyFromHost(iomaps, room.memo, mem, s, Image, size)
      BY <1>8, <3>1, <3>2
    <3>4. DOMAIN mem' = DOMAIN mem
      BY <1>3, <2>4 DEF Built
    <3> QED BY <3>1, <3>3, <3>4
  <2>8. EnoughFromMapStart'
    <3>1. \A i \in DOMAIN iomaps : iomaps[i].start_addr = s => BackedRun(iomaps, s, End) = size
      BY <1>1, <1>2, <1>8, EnoughIsThere
    <3> QED BY <1>2, <2>6, <3>1 DEF EnoughFromMapStart
  <2>9. ReadyToRun'
    <3> SUFFICES ASSUME phase' = "run"
                 PROVE  /\ pc = s /\ s \in Mapped(iomaps)
                        /\ GetIomapByAddrNonMemoised(iomaps, pc) \notin null
                        /\ \A a \in Addr : GetIomapByAddr(iomaps, memo', a)
                                           = GetIomapByAddrNonMemoised(iomaps, a)
      BY <1>2 DEF ReadyToRun
    <3>1. pc = s
      BY <1>3 DEF Loading
    <3>2. GetIomapByAddrNonMemoised(iomaps, s) \notin null
      BY <1>2, <1>6, <1>8, <2>2, LoadLeaves
    <3>3. \A a \in Addr : GetIomapByAddr(iomaps, memo', a) = GetIomapByAddrNonMemoised(iomaps, a)
      BY <2>1, <2>3, LookupIn
    <3> QED BY <2>2, <3>1, <3>2, <3>3
  <2>10. RefusedOnlyIfShort'
    BY <1>8 DEF RefusedOnlyIfShort
  <2> QED BY <1>4, <1>5, <1>8, <2>5, <2>7, <2>8, <2>9, <2>10 DEF BInv
<1>9. \/ room.bytes < size /\ phase' = "oom" /\ memo' = room.memo /\ UNCHANGED mem
      \/ /\ room.bytes >= size
         /\ memo' = load(room.memo).memo
         /\ \/ /\ CopyDefined(iomaps, room.memo, s, size) /\ ~IntoNull(load(room.memo).maps)
               /\ phase' = "run"
               /\ mem' = CopyFromHost(iomaps, room.memo, mem, s, Image, size)
            \/ /\ ~(CopyDefined(iomaps, room.memo, s, size) /\ ~IntoNull(load(room.memo).maps))
               /\ phase' = "undefined" /\ UNCHANGED mem
  BY <1>1, <1>2 DEF LoadProgram, Room
<1> QED BY <1>7, <1>8, <1>9

(* Nothing changes.                                                         *)
LEMMA StutterBoots ==
    ASSUME BInv, UNCHANGED vars
    PROVE  BInv'
<1>1. UNCHANGED << cmd, given, outcome, listing, phase, size, iomaps, memo, null, mem, pc >>
  BY DEF vars, parser
<1>2. Parsed' /\ Opened' /\ (Blank => Blank') /\ (Built => Built') /\ (Loading => Loading')
      /\ (Untouched => Untouched')
  <2>1. Parsed'
    BY <1>1, ParsedKept
  <2>2. Opened'
    BY <1>1 DEF BInv, Opened
  <2> QED BY <1>1, <2>1, <2>2 DEF Blank, Built, Loading, Untouched, Table, MemoOk
<1>3. (LoadedExactly /\ RefusedOnlyIfShort /\ EnoughFromMapStart /\ ReadyToRun)'
  BY <1>1 DEF BInv, LoadedExactly, RefusedOnlyIfShort, EnoughFromMapStart, ReadyToRun,
              End, Placed, InOneMap, ShortWalk
<1> QED BY <1>1, <1>2, <1>3 DEF BInv

-----------------------------------------------------------------------------
(* From the first option to the loop: what is parsed is acceptable, what is *)
(* built is the table of it, and what is loaded is where it was asked for.  *)
THEOREM SpecBInv == Spec => []BInv
<1>1. BInv /\ [Next]_vars => BInv'
  BY ParseBoots, OpenBoots, HartBoots, LoadBoots, StutterBoots DEF Next
<1> QED BY <1>1, BootInit, PTL DEF Spec

(* The variables of the boot have their types.                              *)
THEOREM BootTypes == Spec => []TypeOK
<1>1. BInv => TypeOK
  <2> SUFFICES ASSUME BInv PROVE TypeOK
    OBVIOUS
  <2>1. Parser!TypeOK /\ size \in Nat
        /\ phase \in {"open", "init", "load", "run", "undefined"} \cup Exits
    BY ParserFacts DEF BInv, Parsed, Opened, Proved!AcceptedSoFar
  <2>2. CASE Blank
    <3>1. Mapped(<< >>) = {}
      BY DEF Mapped
    <3>2. mem \in [ Mapped(iomaps) -> 0 .. size ]
      BY <2>2, <3>1 DEF Blank
    <3>3. 0 \in Addr
      BY WordType DEF Addr
    <3> QED BY <2>1, <2>2, <3>2, <3>3 DEF Blank, TypeOK, NULL
  <2>3. CASE Built /\ ((memo = NULL /\ pc = 0) \/ Loading)
    <3>1. iomaps \in Seq(IoMap) /\ null \subseteq DOMAIN iomaps
          /\ mem \in [ Mapped(iomaps) -> 0 .. size ]
      BY <2>3 DEF Built, Table
    <3>2. memo \in 0 .. Len(iomaps)
      BY <2>3, <3>1 DEF Loading, MemoOk, NULL
    <3>3. pc \in Addr
      BY <2>3, BootFacts, WordType DEF Loading, Addr
    <3> QED BY <2>1, <3>1, <3>2, <3>3 DEF TypeOK
  <2> QED BY <2>1, <2>2, <2>3 DEF BInv, Exits
<1> QED BY <1>1, SpecBInv, PTL

(* The executor starts on a backed byte of a map that has its buffer, with  *)
(* a memo that answers as the table does.                                   *)
THEOREM RunsFromLoadAt == Spec => []ReadyToRun
<1>1. BInv => ReadyToRun
  BY DEF BInv
<1> QED BY <1>1, SpecBInv, PTL

(* A program in one map is loaded byte for byte, and nothing else changes.  *)
THEOREM OneMapIsLoaded == Spec => []LoadedExactly
<1>1. BInv => LoadedExactly
  BY DEF BInv
<1> QED BY <1>1, SpecBInv, PTL

(* A refusal for want of memory is right, for a file of any size.           *)
THEOREM RefusalIsRight == Spec => []RefusedOnlyIfShort
<1>1. BInv => RefusedOnlyIfShort
  BY DEF BInv
<1> QED BY <1>1, SpecBInv, PTL

(* From the first byte of a map, no refusal means that the memory is there. *)
THEOREM StartOfMapIsEnough == Spec => []EnoughFromMapStart
<1>1. BInv => EnoughFromMapStart
  BY DEF BInv
<1> QED BY <1>1, SpecBInv, PTL
=============================================================================
