# vvm-riscv in TLA+

A verification development for vvm-riscv, an emulator of one RISC-V hart
(RV32I) with a memory map given on the command line, a loader for flat
binaries, three stub system calls and a step-by-step debugger on curses. Paths
below are relative to the repository; `mem`, `emu`, `inst`, `cmdline`, `tui`,
`backtrace`, `string` and `error` stand for `src/rv32i-mem.c` and so on.

`PROJECT.json` lists the components, the runs, the line of code behind each
definition, the hazards, the findings, the mutants and the theorems.

## 1. The system

The emulator is one thread in one process: nothing runs concurrently and
nothing is persisted. What is hard about it is of another kind: **one memoised
pointer shared by everything that touches memory**, sums and tests in three
different integer types, table walks that count whole maps, handlers that
change state before they can fail, two hand-kept tables of instructions, a
terminal that changes its size and its mode under the program, and guest
programs that are arbitrary.

| Component | State it keeps | Operations | Correct means |
|---|---|---|---|
| Command line (`cmdline` 83-181, 226-314) | the options, `rv32i_cmdline_s`; globals `debug`, `noopstub` | one per option; the listing of `--show-map` | what gets through is a map the rest can build, what is listed is that map |
| Address map (`mem` 32-99, 206-218, 306-342; `emu` 33-93) | `iomaps`, `iomap_amnt`, `memoized_iomap` | `rv32i_chooseniomap_checkoverlap`, `rv32i_iomap_add`, the memoised and the plain lookup, `rv32i_mem_trueaddr`, `rv32i_oob_addr`, `rv32i_mem_contiguous` | an address belongs to at most one map, and which one does not depend on the history |
| Transfers (`mem` 220-304) | none | `rv32i_mem_copyfromhost`, `rv32i_mem_copyfromguest` | the bytes asked for, from or to the address asked for |
| Boot and loader (`rv32i-main.c`; `cmdline` 183-224) | the file | open, init, load | the program is at `--load-at`, whole, or refused |
| Executor (`emu` 105-129, `inst`) | `pc`, `regs`, guest memory | fetch, refusals, one handler per opcode | each instruction has its effect and no other; an error has none and names the instruction |
| System calls (`inst` 663-819) | guest output | exit, write, read, EBREAK | buffers are where the guest says |
| Debugger (`emu` 131-154, `backtrace` 271-300, `tui` 33-95) | the screen and its size, a copy of the output | start, draw, keys, resize, input, leave | what runs is what is shown, on the window there is |
| Panels (`tui` 200-319) | none | code around `pc`, memory at the frame | they show what is there |
| Disassembler (`backtrace` 31-269) | tables | mnemonic of a word | what is shown is what runs; total on words |
| Instruction formats (`inst` 57-145, `include/rv32i-macro.h`) | none | six parsers, six encoders | inverse to each other |
| Counted string (`string`), error messages (`error`, `include/rv32i-error.h`) | the panel's output; none | append; leave curses and print | nothing lost; the terminal is usable |

Interactions: `main` calls the command line, the file, `rv32i_hart_init`, the
loader and the executor in that order. The loader, the fetch, loads and
stores, the system calls and the panels all resolve addresses through
`rv32i_mem_getiomap_byaddr`, and each successful lookup may move
`memoized_iomap` for all the others. Handlers return true to leave the loop;
errors leave curses, print and draw the panels, which enter curses and read
guest memory again. There is no callback: the `callback` of a map is always
NULL.

## 2. The modules

```
AddressSpace      abstract: addresses -> disjoint regions
   ^ implements
IoMapTable        the table and the memo at work    <- MCIoMapTable, IoMapTableProofs
   |  EXTENDS
IoMaps            map table, lookups, contiguity    <- CommandLine <- MCCommandLine, CommandLineProofs
   ^                                                       ^ INSTANCE
   |-- Transfers  the two copies  <-  Boot  <- MCBoot -----/   main up to the first instruction
   |-- Alu        OP and OP-IMM         \-- BootProofs
         \-- Hart (Alu + Transfers)  <- MCHart, HartProofs   the loop from there on, memory and registers
               | implements
            GuestMachine   abstract: one effect per instruction

Formats           a word as bits: parsers, encoders
   ^
Mnemonics         what the handlers and what the disassembler make of a word
   ^
Panels            one turn of the loop, and what is shown of it  <- MCPanels, PanelsProofs

Debugger          terminal, prompt, input, output                <- MCDebugger, DebuggerProofs

FoldInduction     what a FoldLeft computes, the least number of a set
   ^ INSTANCE
MapLemmas         words, tables, lookups, rv32i_mem_contiguous, transfers
   ^ EXTENDS
IoMapTableProofs, CommandLineProofs, BootProofs, HartProofs
```

| Module | Models | State and actions |
|---|---|---|
| `IoMaps` | `mem` 32-99, 206-218, 306-342 | Operators only. A pointer to a map is its index, 0 is NULL. `Covers` keeps the wrapping sum, `CheckOverlap` the one in size_t. `Contiguous` is the recursion as a recursive function. |
| `IoMapTable` | `rv32i_hart_init` and all lookups | `iomaps`, `memo`, the last `answer`, the `walk` of a contiguity call. `HartInit`, `Lookup` any address, `CallContiguous`, and `Recurse`, one call of the recursion per step. |
| `AddressSpace` | what the map promises | fixed disjoint `regions`, an `answer` |
| `CommandLine` | `rv32i_parse_cmdline`, `rv32i_info_showmmap` | `r`, `given`, `outcome`, the printed `listing`; one action per option, any order. `NoMoreArguments` prints the listing for every order `qsort` may leave (`Arrangements`): the comparison is no order, so it may leave any. The options are not read from an argument vector: an action is the parser meeting that option. |
| `Transfers` | both copies | `Collect` is the page walk with its array, `Copies` the list of memcpy, `CopyDefined` whether each stays in its buffers |
| `Boot` | `main` up to the loop | the steps of `CommandLine` (`ParseCmdline`), then `OpenFile`, `HartInit`, `LoadProgram`; `mem` holds the number of the image's byte at each address, `null` the maps malloc gave no buffer |
| `Alu` | arithmetic of `inst` 234-309, 392-473 | registers as unsigned words, `Signed` where the code casts or its type is signed |
| `Hart` | the loop and every handler | `Fetch`, `Prompt`, `Execute`, with one disjunct per handler and one per way out |
| `GuestMachine` | what a guest relies on | an instruction changes a register and jumps, or stores to at most four bytes, or writes, or reads; a stop is final |
| `Formats` | the six parsers and the six macros | Operators only. A word is the set of its bits that are 1; a mask is an intersection, a shift a renumbering. |
| `Mnemonics` | the dispatch table with the switches of its handlers; the table of mnemonics with its look-up | Operators only: `Verdict` and `Operation` (executed or reported), `GetMnemonic` and `Line` (shown). `Srai` is the local the branch for loads does not assign. |
| `Panels` | a turn of the loop under `--debug`: fetch, panels, dispatch | `FetchAssembled` (an instruction someone wrote) or `FetchOther` (any word), `DrawDisassembly` a whole panel with any value of each unset local, `DumpByte` one turn of the dump's loop with its shared `datastring`, `Dispatch` |
| `Debugger` | `rv32i_init_ncurses`, the prompt, the input of read, the pause of EBREAK, messages, `rv32i_destroy_ncurses`, the append to the panel's string | `mode` of the terminal, its size as it is (`terminal`), as curses knows it (`stdscr`) and as the debugger remembers it (`tui`); `Resize` and `CloseInput` happen at any time. `Backtrace` has three ways on: drawn, screen too small, or the disassembler ends the process |

A definition marked **Fault** is a bug the code does not have. It is used
nowhere; `PROJECT.json` puts it in place of the definition below it to show
that each property of a passing run notices some plausible slip.

### What is abstracted, and why it is safe

* **Words are narrower.** `HALF`, `SIZET`, `PAGE`, `BLOCK`, `HARDCAP`, `XLEN`
  and `BYTE` are constants. The code needs only that they divide each other as
  `WidthAssumption` and `ByteAssumption` say; the runs use 5-bit addresses with
  7-bit `size_t` and 4-byte pages, or 8-bit registers of four 2-bit bytes.
  Every comparison, wrap and truncation keeps its width. Words of `Formats`
  have their 32 bits.
* **In `Hart` the word fetched is arbitrary**, already decoded. A guest may
  overwrite its code, so any word may come next; a property of the executor has
  to hold of any program. `Formats` says what a word decodes to, `Mnemonics`
  which words the loop and the handlers refuse.
* **Undefined behaviour** is a state of its own where the C program leaves its
  buffers (`"undefined"`): a fetch or access past the buffer of a map, a
  transfer outside its buffers, into a NULL one or past the array of maps, a
  call through a null entry of the dispatch table, the end of a line of input
  written behind its buffer, a buffer measured before it is filled. An index
  past the table of mnemonics ends in `"unlisted"`, and so does the `exit` of
  the disassembler for a type it does not know, which such an index may lead to.
  A local read before it is set (`backtrace` 213) has either value, row by row.
  Signed overflow (`inst`
  406, 427) and left shifts of negative numbers wrap, as the default build
  computes them; the sanitizers of the debug build report them and go on.
* **The guest of `Debugger`** is the kinds of instructions it may come to; what
  they do to the hart is in `Hart`, where the screen is drawn or not. `Panels`
  has the text of the two panels that are computed, with the memory around the
  program counter and at the frame arbitrary.
* **Curses is external.** The model has of it what the code relies on: it
  notices a new size only while it reads a key, which it answers with
  KEY_RESIZE; KEY_RESIZE ends the line `wgetnstr` reads; `wgetnstr` reads as
  many characters as it is told and writes a zero behind them, and on the last
  row of the screen stops before its corner; a refresh after `endwin` enters its
  mode again; moving outside the screen fails.
* **Allocation** may fail for any map of `Boot`; `Hart` starts from maps that
  have their buffers, as `ReadyToRun` shows of a loaded program except for maps
  the program was not loaded to. Other allocations succeed, but for the
  `realloc` and the `malloc` of a negative size, which cannot.
* **Input** of read is any sequence of `Inputs`; an empty one exists only for
  the debugger's line (scanf skips white space and fails at the end).

## 3. The runs

| Run | Instance | What it shows |
|---|---|---|
| `io_map_table` | up to 2 maps from 5 addresses and 4 sizes (one page, two, one that wraps to nothing, one that loses its top bits), 2 load addresses, 6 addresses asked | `MemoTransparent`, `Separate`, `ContiguousExact`, `ContiguousNeverShort`, `ContiguousReturns`, and that the table implements `AddressSpace` |
| `command_line` | 14 numbers of each kind the tests tell apart, 2 maps, listed in any order | `OnlyAccepted`, `RamOrMaps`, `ListingIsTable` |
| `boot` | every command line of 8 numbers and up to 2 maps that the parser lets through, 8 file sizes from nothing to more than all memory, one of as many pages as the array of maps has slots, any map without its buffer | `LoadedExactly`, `RefusedOnlyIfShort`, `EnoughFromMapStart`, `ReadyToRun` |
| `hart` | 4 tables (one map, two adjacent, two with a hole in reverse order, one with an unaligned start), three instructions from 78 words that reach each handler and its ways out, the three system calls, EBREAK and an unknown call among them, with and without the debugger | `ZeroRegister`, `PcAligned`, `ErrorsHaveNoEffect`, `ReportsFaultingPc`, `RefusesUnmapped`, `DefinedInsideMaps`, and that `Hart` implements `GuestMachine` |
| `hart_calls` | the same 4 tables and one map of five pages, four instructions from 16 words that set a0, a1, a2 and call, buffers inside, across, and outside of maps, lengths 1, 4, 9, -1 and one that fills the array of maps | `WritesWhatIsThere`, `ReadsNoMoreThanAsked`, and two of the general ones again |
| `panels` | some 300 instructions of all opcodes with every function code and every immediate that has a single bit at an edge of a field, 14 other words (one per refusal and per hole of the tables), 5 neighbourhoods, 4 kinds of bytes at the frame, every combination of unset locals | `RoundTrip`, `CurrentShown`, `ShownAsExecuted`, `OnlyReportedUnlisted`, `DumpTruthful` |
| `debugger` | 5 sizes of the terminal around the minimum, 3 instructions of 8 kinds, 2 changes of size, output up to its limit of 4 bytes | `SizeKnown`, `PanelHoldsOutput`, `InputInBuffer`, `RunsWhatIsShown`, `PromptAnswered` |
| `boot_whole`, `hart_bounds`, `hart_srli`, `hart_jalr`, `panels_null` | the instances above | one disagreement with the documentation each (section 5) |

Why the bounds are enough. *Two maps*: a lookup, an overlap and a memo relate
two maps at a time, and two are enough for adjacent, apart, reversed and
overlapping; the theorems of section 4 are for any number. *Three
instructions*: two to bring registers (all zero at the start) to values that
reach every map, its last byte and the holes, and one to act; the state an
instruction may depend on is the registers, memory and the memo, all of which
the first two change. Four for system calls, which take three arguments. *One
word at a time in `Panels`*: nothing of a turn is left for the next one.
*Three instructions in `Debugger`*: two to leave the screen and the string in
some state, one to meet it; two changes of size make the window small and large
again. *Small words*: every boundary (sign, wrap, truncation of size_t, block,
page, end of a map) lies inside them. `MaxSteps`, `MaxResizes` and `MaxMaps`
bound the instructions fetched, the changes of size and the maps typed, and
nothing else. `HARDCAP` is 2 to 4, so that the cap on maps and the end of the
array are reached: four pages fill the array in `boot` and in `hart_calls`.

`CHECK_DEADLOCK FALSE` everywhere: the process may exit, and `MaxSteps` ends
a run of `Hart` or `Debugger`.

Fairness. `IoMapTable` assumes `WF_vars(Recurse)`: a function in a single
thread goes on with its recursion. `Debugger` assumes `WF_vars(Runs)`, the same
of its one thread, and `SF_vars(Decide)`: a user in front of a prompt that
comes back again and again presses one of its two keys sooner or later. It is
strong because other keys and resizes take the prompt away in between. Nothing
is assumed of a user who is asked for input, who closes it or who resizes the
window, and `PromptAnswered` says only that the prompt then ends: with the input
closed it does not, and the emulator spins (`emu` 136).

## 4. What is proved

| Theorem | Module | Establishes |
|---|---|---|
| `TypeCorrect`, `MemoIsTransparent`, `MapsAreSeparate`, `ContiguousIsExact`, `ContiguousIsNeverShort` | `IoMapTableProofs` | `Spec => []` of `TypeOK`, `MemoTransparent`, `Separate`, `ContiguousExact`, `ContiguousNeverShort` |
| `LookupsImplementAddressSpace` | | `Spec` implements `AddressSpace` |
| `CommandLineTypeOK`, `OnlyAcceptedParsed`, `RamOrMapsAlways`, `ListingIsTheTable` | `CommandLineProofs` | `Spec => []` of `TypeOK`, `OnlyAccepted`, `RamOrMaps`, `ListingIsTable` |
| `BootTypes`, `RunsFromLoadAt`, `OneMapIsLoaded`, `RefusalIsRight`, `StartOfMapIsEnough` | `BootProofs` | `Spec => []` of `TypeOK`, `ReadyToRun`, `LoadedExactly`, `RefusedOnlyIfShort`, `EnoughFromMapStart` |
| `HartTypes`, `ZeroStaysZero`, `PcStaysAligned` | `HartProofs` | `Spec => []` of `TypeOK`, `ZeroRegister`, `PcAligned` |
| `ErrorsLeaveNoTrace`, `ErrorsNameTheirInstruction`, `UnmappedIsRefused`, `UndefinedOnlyOutside`, `WritesTheGuestBytes`, `ReadsStayInTheirBuffer` | | `Spec =>` the action properties `ErrorsHaveNoEffect`, `ReportsFaultingPc`, `RefusesUnmapped`, `DefinedInsideMaps`, `WritesWhatIsThere`, `ReadsNoMoreThanAsked` |
| `GuestSeesInstructionsOnly` | | `Spec` implements `GuestMachine` |
| `PanelsTypeOK`, `RoundTripHolds`, `CurrentShownAlways`, `ShownAsExecutedAlways`, `OnlyReportedUnlistedAlways`, `DumpTruthfulAlways` | `PanelsProofs` | `Spec => []` of `TypeOK`, `RoundTrip`, `CurrentShown`, `ShownAsExecuted`, `OnlyReportedUnlisted`, `DumpTruthful` |
| `DebuggerTypeOK`, `SizeKnownAlways`, `PanelHoldsOutputAlways`, `RunsWhatIsShownAlways`, `InputStaysInBuffer` | `DebuggerProofs` | `Spec =>` `[]TypeOK`, `[]SizeKnown`, `[]PanelHoldsOutput`, `RunsWhatIsShown`, `[]InputInBuffer` |
| `ContiguousReports`, `OneMapCopyIn`, `OneMapCopyOut` | `MapLemmas` | what `rv32i_mem_contiguous` and the two copies compute |

The theorems hold for every value of the constants that satisfies the named
assumptions: in particular for 2^31, 2^64, 1024, 512 and 32, any number of maps,
any command line, any program and any user. The assumptions say no more of the
widths than that they divide each other (`WidthAssumption`, `XlenAssumption`,
`ByteAssumption`). Two are about values a maintainer may change: windows begin
between instructions (`BEHIND % 4 = 0` and `BLOCK % 4 = 0` in
`WindowsAssumption` of `Hart`), and the rows in front of the current
instruction leave room for its own (`BEHIND + 1 =< HEIGHT - 2` in
`WindowAssumption` of `Panels`); both hold of `emu`, `mem` and `tui` as they
are.

**Induction over data.** The provers cannot instantiate an induction theorem
for a predicate, so `FoldInduction` has them for sets: a set of naturals that
holds 0 and the successor of each member below `n` holds all up to `n`
(`UpTo`), a non-empty set has a least number (`LeastNumber`), and a fold over a
sequence is the last of a trace of results, one per element (`FoldTrace`, used
by INSTANCE for each operator folded). `Contiguous` recurses on two arguments,
so it is written as a function of the memo that yields functions of the address;
that such functions exist is itself proved (`WalkExists`: each call looks
further up, and what lies above is already defined).

**The address map**, from `WidthAssumption`, `CapAssumption`,
`CmdlinesAssumption` and `AskedAssumption`. `MemoTransparent` is not inductive:
that a block at the start of the memoised map belongs to that map depends on how
the table came about. The inductive invariant `IInv` adds that every row of a
running table starts at a multiple of `BLOCK` below `HALF`, has a size that is a
multiple of `PAGE` below `HALF`, and that rows are disjoint (from `Accepted` and
the failure of `CheckOverlap`, through the truncation of sizes:
`TableOfAccepted`); that the memo points to a row with bytes; and, for the
recursion, that the bytes from `start` to `at` are exactly the maps walked so
far (`WalkPre`). From the first part sums of a start and a size never wrap, so
`Covers` is membership in the region (`CoversRegion`); since a block divides a
page and starts are multiples of a block, an address whose block is the start of
the memoised map lies in it, and by disjointness in no other, which is what the
plain scan finds (`MemoSound`). `ContiguousReports` says the same of the
recursive function from any address, mapped or not.

**The command line**, from `WidthAssumption`, `CapAssumption`,
`NumbersAssumption` (numbers are integers) and `DefaultRamAssumption`.
`OnlyAccepted` speaks of the end of the parse only, so the invariant
`AcceptedSoFar` says of every moment that what has been read could be accepted.
The work is arithmetic: a number times `PAGE`, cut to a size_t and again to 32
bits, is whole pages (`RemainderPages`, `WidthPages`, `KibPages`), also when it
was negative. `Accepted` is what `CmdlinesAssumption` asks of the command lines
of `IoMapTable` and `Hart`: the sets of theorems fit together.

The listing holds in whatever order `qsort` leaves the maps. `Arranged` is all
that is used of that order: it is a permutation (`ArrangementsArrange`). After
the overlap test maps in any arrangement are `Strewn`: each pair is apart
(`StrewnMaps`). The rows are a recursion over the maps, unrolled in
`FlattenTrace`; along it `Listed` gives each map its place in the listing, one
or two behind the place before it (`OneMoreListed`, `FramedPlaced`). From the
places, `PlacedShows` reads off the parts of `ListingIsTable`, with the lookups
in the table from `TableAnswers`; that an end, computed in size_t, is compared
right with the next start is `Meets`. `Printed` is the invariant that ties the
listing to the command line it was printed of.

**Boot**, from `ParserAssumption` and `FileSizesAssumption`, for files of any
size and any choice of maps that malloc gave no buffer. `BInv` has, for each
phase, what is known by then: `Parsed` and `Opened`, `Blank` before there is a
table, `Built` (a table of aligned, separate rows, and memory for exactly its
bytes), `Loading` (the memo is a row with bytes, the program counter is
`--load-at`), `Untouched` memory until the load; and the four properties of the
end.
The parser's part is taken over from `CommandLineProofs` by INSTANCE.
`RefusedOnlyIfShort` and `EnoughFromMapStart` come from `ContiguousReports`;
`LoadedExactly`, which is for programs inside one map of fewer pages than the
array of maps has slots, from `OneMapCopyIn`.

**The executor**, from `CmdlinesAssumption` and the assumptions above, with any
instructions, any initial memory and any input. `HInv` is `TypeOK`,
`Table(iomaps)`, `MemoOk(iomaps, memo)`, `ZeroRegister` and `PcAligned`: no part
is inductive without the others, since a program counter is aligned only if the
maps are, types of memory need transfers that stay in a table, and each handler
leaves a memo for the next. Every handler, way out, panel and system call has
its lemma. The six action properties are then statements about one step from a
state of `HInv`, where a lookup through any memo is membership in `Mapped`
(`LookupIn`). For the refinement, `StepRefines` gives the effect of
`GuestMachine` that each disjunct has: a register and a jump, a store to at most
four bytes, a write, a read, a stop, or nothing (fetch, prompt, panels).

**The formats and the panels**, from `SourcesAssumption` (instructions whose
immediate fits), `FormatAssumption` (each is written in the format of its
opcode) and `WindowAssumption`. A lemma per format (`ParseRInverts` to
`ParseJInverts`) proves each field as a set equality, one inclusion at a time;
`Assembled` ties the word and the parsed fields to where they came from. `Loop`
ties the stage of a turn to the verdict on its word (`Judged`), from which
`OnlyReportedUnlisted` follows for all words. `Drawing` describes the dump half
way through a row: the buffer the rows share holds the text of the bytes read so
far, and every row printed has its own. `Framed` follows the row of the current
instruction through the fold over the window (`DrawRow`): every offset adds at
most one row, so the current one is at most `BEHIND + 1` from the top.
`ShownAsExecuted` compares, handler by handler, the operation of any word that
is not refused with the name and operands in its row, for either value of the
local (`Agree`); it matters to loads only (`LoadAgrees`).

**The debugger**, from `SizesAssumption`, without the fairness. `Told` splits
`SizeKnown` along the way the news takes: curses has the window's size when no
signal waits, the debugger has that of curses when no read has swallowed it;
`Held` adds to
`PanelHoldsOutput` the type of the count, and `SignedSum` shows that a sum of
two lengths below 2^31 is kept or turns negative; `Prompted` says that a prompt
stands only on what was drawn for it, which a resize must not disturb. `Places`
are the stages and types; `Known` adds to `InputInBuffer` that unless a resize
came during a read, the debugger's size of the window is the one curses knows.

Only model-checked: `ContiguousReturns` and `PromptAnswered`, which are
liveness under fairness and beyond the prover. Every safety property of the
passing runs, and both refinements, are proved as well. Not proved and not
claimed: what a transfer over several maps computes, since the code gets it
wrong (section 5).

## 5. Where code and documentation differ

Each is a run that ends in a counterexample.

* `SRLI` of a negative register is arithmetic (`inst` 297: `regs` is signed).
* `JALR` with `rd = rs1` uses the link as its base (`inst` 617-619).
* A half or word access is tested at its first byte only (`inst` 156, 339), so
  one across the end of a map leaves the buffer.
* A load over several maps may put bytes in the wrong place (`mem` 233-257).
* Words of opcode 0x1f, 0x3f and 0x5f are not refused and have no handler: the
  loop calls a null pointer (`inst` 46, 835-865).

Noticed and not run:

* The help text asks for maps aligned to 1KiB, the code for 512 (`cmdline` 146).
* A program that starts inside a map may pass the memory test without fitting,
  because the map is counted whole (`mem` 80).
* Data is big-endian, instructions are little-endian (`mem` 101-194), while the
  repository's README.md:94 links for elf32-littleriscv: a word the linker placed
  is loaded byte-reversed, as samples/sample3/main.c:10 noticed.
* `-h` and `--help` are compared with `&&` and end in EXIT_FAILURE (`cmdline`
  104); `endptr` is compared with the wrong argument, so text that is not a
  number reads as 0 (`cmdline` 123, 143).
* `--show-map` prints the range of `-m` one byte too long (`cmdline` 251), and
  sizes of 2^32 and more as typed, where the table cuts them. Its comparison
  answers 1 or 0, never -1 (`cmdline` 232), which is no order, so the C library
  may leave the maps in any: rows need not ascend, and "none" then stands
  between rows that are not neighbours in memory. `ListingIsTable` is what holds
  of every order.
* The panel shows SUB and SRA as add and srl, although its table names them
  (`backtrace` 127, 132): the bit it looks at belongs to an immediate that type
  R does not have (228). A FENCE with a funct3 runs and reads as Unknown.
  `ShownAsExecuted` leaves out these three (`Misnamed`). Words the handlers
  report (shifts and OP with another funct7, JALR with a funct3, SYSTEM with
  registers) are named.
* For a load the disassembler reads `srai` without having set it (`backtrace`
  195, 213): the panel may show the low five bits of the offset instead of the
  offset. `ShownAsExecuted` allows both.
* A word in the window with an opcode above 0x7b, or a SYSTEM word with an
  immediate of 8 or more, is looked up past the table (`backtrace` 187, 205),
  although the repository's README.md:88 calls such words "Unknown". If the type
  found there is none, the process exits without `endwin` (261-263) and leaves
  the terminal in the mode of curses. `OnlyReportedUnlisted` is what holds.
* A resize during a guest's read is never noticed by the debugger (`inst` 751),
  the one such loss there is (`SizeKnown`).
  On a screen it takes for smaller or larger than it is, the next read may
  measure a buffer no one has filled; `InputInBuffer` excludes exactly this.
* Messages of handlers that have moved the program counter redraw the panels
  one instruction ahead; those of BRANCH name the instruction before (`inst`
  551, 596), which `ReportsFaultingPc` states as it is; an invalid system call
  prints register 2, not a0 (`inst` 795).
* The panel of registers labels s5 as s6 (`tui` 165). The panel of output prints
  with a precision, so it stops at a zero byte (`tui` 331). Every append prints
  a line to stderr (`string` 31).

## 6. What is not modelled

* The title bar, the key help and the panel of registers, colours, positions
  and borders; the wording of messages. They keep no state and look at none
  that could be wrong.
* How a line of the disassembly is spelled: it is the name, the registers and
  the immediate.
* ncurses, stdio, mmap: external, reduced to what the code relies on.
* `rv32i_setinst` (no caller), the unused field `ram`, and the release of
  buffers and of the file at exit.
* The samples are guest programs; the build has no behaviour of its own.

## 7. Plan

Done: the address map with its abstract specification and its proofs; the
command line with its listing; boot from the command line on; the executor with
the abstract guest machine; formats, disassembler and panels; the debugger;
proofs of every safety property and of both refinements.

Left, in this order:

1. Proofs: the range of a transfer over several maps for which the copies are
   right, so that `LoadedExactly` and `WritesWhatIsThere` could speak of more
   than one map; the executor's starting memory taken from the end of `Boot`
   instead of assumed.
2. `Hart` on words of `Formats`, so that the word fetched is what memory holds;
   it needs words of a few bits for the formats, which the code does not have.
