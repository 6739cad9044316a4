-------------------------------- MODULE Hart --------------------------------
(***************************************************************************)
(* rv32i_hart_execute: the loop that fetches a word, shows it in the       *)
(* debugger, and dispatches it to its handler, with one action per         *)
(* handler.  The word fetched is any word, decoded: programs are arbitrary *)
(* and may overwrite themselves.  What the handlers compute from registers *)
(* and memory is exact.                                                    *)
(*                                                                         *)
(* An access outside the buffer of a map, or a call through a null entry   *)
(* of the dispatch table, ends in the state "undefined"; a word the        *)
(* debugger shows may end it in the state "unlisted", because it indexes   *)
(* the table of mnemonics past its end.                                    *)
(***************************************************************************)
EXTENDS Alu, Transfers

CONSTANTS
    Cmdlines,    \* command lines rv32i_parse_cmdline lets through
    Debug, NoopStub,        \* --debug and --noop-stub: given or not
    Images,      \* contents of memory when the loop starts, Addr -> byte
    Insts,       \* the decoded words
    Inputs,      \* what the user may type at a read, sequences of bytes
    BEHIND, AHEAD, FRAME,   \* the panels' windows; 32, 64 and 96 in the code
    MaxSteps     \* bound on the instructions fetched

ASSUME CmdlinesAssumption ==
    /\ \A c \in Cmdlines : Accepted(c)
    /\ Debug \subseteq BOOLEAN /\ NoopStub \subseteq BOOLEAN

Byte == 0 .. BYTE - 1
Reg  == 0 .. 31
s0 == 8
a0 == 10
a1 == 11
a2 == 12

(* The word is refused before the dispatch, or has no entry there ...       *)
Refused == {"INVALID", "UNSUPPORTED", "MALFORMED"}
(* ... or its handler only says that it is not implemented or reserved.     *)
NoImpl == {"LOADFP", "CUSTOM0", "OPIMM32", "STOREFP", "CUSTOM1", "AMO", "OP32",
           "MADD", "MSUB", "NMSUB", "NMADD", "OPFP", "RESERVED0", "CUSTOM2",
           "RESERVED1", "RESERVED2", "CUSTOM3"}
Implemented == {"LOAD", "STORE", "OPIMM", "OP", "AUIPC", "LUI", "BRANCH", "JALR",
                "JAL", "MISCMEM", "SYSTEM"}

Inst == [op : Refused \cup {"UNASSIGNED"} \cup NoImpl \cup Implemented,
         rd : Reg, rs1 : Reg, rs2 : Reg, funct3 : 0 .. 7, funct7 : 0 .. 127,
         immd : Addr]

NoInst == [op |-> "INVALID", rd |-> 0, rs1 |-> 0, rs2 |-> 0,
           funct3 |-> 0, funct7 |-> 0, immd |-> 0]

ASSUME InstsAssumption == Insts \subseteq Inst

ASSUME BytesAssumption == Images \subseteq [Addr -> Byte] /\ Inputs \subseteq Seq(Byte)

ASSUME WindowsAssumption ==
    /\ BEHIND \in Nat /\ AHEAD \in Nat /\ FRAME \in Nat /\ MaxSteps \in Nat
    /\ BEHIND % 4 = 0        \* the window begins between two instructions,
    /\ BLOCK % 4 = 0         \* and so do the maps

VARIABLES
    cmd, debug, noopstub,   \* the command line and its two globals
    state,    \* "fetch", "prompt", "execute", or how the loop was left
    inst,     \* the word being executed
    steps,
    iomaps, memo, pc, regs, mem,
    output,   \* bytes the guest wrote: stdout, or the debugger's panel
    report    \* the program counter of the error message, if it has one

fixed == << cmd, debug, noopstub, iomaps >>
vars  == << cmd, debug, noopstub, state, inst, steps, iomaps, memo, pc, regs, mem,
            output, report >>

(* What rv32i_hart_init and rv32i_load_program leave *)
Init ==
    /\ cmd \in Cmdlines /\ debug \in Debug /\ noopstub \in NoopStub
    /\ ~CheckOverlap(cmd.choosen_iomaps)
    /\ iomaps = TableOf(cmd)
    /\ memo = GetIomapByAddrNonMemoised(iomaps, InitialAddr(cmd)) /\ memo # NULL
    /\ pc = cmd.load_at
    /\ regs = [ r \in Reg |-> 0 ]
    /\ \E image \in Images : mem = [ a \in Mapped(iomaps) |-> image[a] ]
    /\ state = "fetch" /\ inst = NoInst /\ steps = 0
    /\ output = << >> /\ report = {}

-----------------------------------------------------------------------------
(* The addresses the panels of rv32i_backtrace look up, in order; a word is *)
(* read for each mapped one of the first window.                            *)
CodeWindow(p) == [ i \in 1 .. (BEHIND + AHEAD) \div 4 + 1 |-> Low32(p - BEHIND + 4 * (i - 1)) ]
FrameWindow(f) == [ i \in 1 .. 2 * FRAME |-> Low32(f - FRAME + i - 1) ]

(* n bytes from address a are inside the buffer of the map that answers.    *)
InBuffer(m, a, n) ==
    LET at == TrueAddr(iomaps, m, a) IN at.index + n =< iomaps[at.map].size

Overreads(m, p) ==
    \E i \in DOMAIN CodeWindow(p) :
        LET a == CodeWindow(p)[i] IN ~OobAddr(iomaps, m, a) /\ ~InBuffer(m, a, 4)

(* The opcode is above the last of the mnemonics, or the immediate, which   *)
(* is the index of a SYSTEM instruction, above its 8 rows.                  *)
NoMnemonic(i) == i.op = "MALFORMED" \/ (i.op = "SYSTEM" /\ i.funct3 = 0 /\ i.immd >= 8)

Unlisted(m, p) ==
    /\ \E i \in DOMAIN CodeWindow(p) : ~OobAddr(iomaps, m, CodeWindow(p)[i])
    /\ \E i \in Insts : NoMnemonic(i)

(* Drawn with the memo m and registers r; then the loop is in state next.   *)
(* Nothing is drawn without --debug, or once the screen is too small.       *)
Backtrace(m, p, r, next) ==
    \/ memo' = m /\ state' = next
    \/ /\ debug
       /\ memo' = MemoAfterAll(iomaps, m, CodeWindow(p) \o FrameWindow(r[s0]))
       /\ \/ state' = next
          \/ Overreads(m, p) /\ state' = "undefined"
          \/ Unlisted(m, p) /\ state' = "unlisted"

Undefined ==
    state' = "undefined" /\ UNCHANGED << memo, pc, regs, mem, output, report >>

Fetch ==
    /\ state = "fetch" /\ steps < MaxSteps
    /\ steps' = steps + 1
    /\ UNCHANGED << pc, regs, mem, output, fixed >>
    /\ LET m == MemoAfter(iomaps, memo, pc)
       IN  \/ /\ OobAddr(iomaps, memo, pc)
              /\ state' = "error" /\ report' = {pc}
              /\ UNCHANGED << inst, memo >>
           \/ /\ ~OobAddr(iomaps, memo, pc) /\ ~InBuffer(memo, pc, 4)
              /\ state' = "undefined" /\ memo' = m
              /\ UNCHANGED << inst, report >>
           \/ /\ ~OobAddr(iomaps, memo, pc)
              /\ \E i \in Insts :
                   \/ /\ i.op \in Refused
                      /\ report' = {pc} /\ UNCHANGED inst
                      /\ \/ i.op = "MALFORMED" /\ state' = "error" /\ memo' = m
                         \/ i.op # "MALFORMED" /\ Backtrace(m, pc, regs, "error")
                   \/ /\ i.op \notin Refused
                      /\ inst' = i /\ memo' = m
                      /\ state' = IF debug THEN "prompt" ELSE "execute"
                      /\ UNCHANGED report

(* rv32i_handle_dbg: any key but the two draws the panels again.            *)
Prompt ==
    /\ state = "prompt"
    /\ \E next \in {"execute", "quit", "prompt"} : Backtrace(memo, pc, regs, next)
    /\ UNCHANGED << inst, steps, pc, regs, mem, output, report, fixed >>

-----------------------------------------------------------------------------
Next4 == Low32(pc + 4)
Rs1 == regs[inst.rs1]
Rs2 == regs[inst.rs2]
Funct3 == inst.funct3

Continue(p) == state' = "fetch" /\ pc' = p /\ UNCHANGED report

(* An error that prints the program counter at; it leaves p, r and the memo *)
(* m behind, and the backtrace shows them.                                  *)
Fail(at, p, r, m) ==
    /\ report' = {at} /\ pc' = p /\ regs' = r
    /\ Backtrace(m, p, r, "error")

RetireRd(v) ==
    /\ regs' = [regs EXCEPT ![inst.rd] = v]
    /\ Continue(Next4)
    /\ UNCHANGED memo

Ignore == Continue(Next4) /\ UNCHANGED << regs, memo >>

(* Faults: the next instruction is reported; rd is written first.          *)
FailBehindNext == Fail(Next4, Next4, regs, memo)
FailBehindLate == Fail(pc, Next4, [regs EXCEPT ![inst.rd] = Rs1], memo)

FailBehind == Fail(pc, Next4, regs, memo)
FailHere   == Fail(pc, pc, regs, memo)

DoOpImm ==
    /\ inst.op = "OPIMM"
    /\ \/ inst.rd = 0 /\ Ignore
       \/ /\ inst.rd # 0 /\ OpImmValid(Funct3, inst.immd)
          /\ RetireRd(OpImm(Funct3, inst.immd, Rs1))
       \/ inst.rd # 0 /\ ~OpImmValid(Funct3, inst.immd) /\ FailBehind
    /\ UNCHANGED << mem, output >>

DoOp ==
    /\ inst.op = "OP"
    /\ \/ inst.rd = 0 /\ Ignore
       \/ /\ inst.rd # 0 /\ OpValid(inst.funct7, Funct3)
          /\ RetireRd(Op(inst.funct7, Funct3, Rs1, Rs2))
       \/ inst.rd # 0 /\ ~OpValid(inst.funct7, Funct3) /\ FailBehind
    /\ UNCHANGED << mem, output >>

DoUpper ==
    /\ inst.op \in {"LUI", "AUIPC"}
    /\ \/ inst.rd = 0 /\ Ignore
       \/ /\ inst.rd # 0
          /\ RetireRd(IF inst.op = "LUI" THEN inst.immd ELSE Low32(pc + inst.immd))
    /\ UNCHANGED << mem, output >>

DoMiscMem == inst.op = "MISCMEM" /\ Ignore /\ UNCHANGED << mem, output >>

DoNoImpl == inst.op \in NoImpl /\ FailHere /\ UNCHANGED << mem, output >>

DoUnassigned == inst.op = "UNASSIGNED" /\ Undefined

-----------------------------------------------------------------------------
Taken ==
    CASE Funct3 = 0 -> Rs1 = Rs2                       \* BEQ
      [] Funct3 = 1 -> Rs1 # Rs2                       \* BNE
      [] Funct3 = 4 -> Signed(Rs1) < Signed(Rs2)       \* BLT
      [] Funct3 = 5 -> Signed(Rs1) >= Signed(Rs2)      \* BGE
      [] Funct3 = 6 -> Rs1 < Rs2                       \* BLTU
      [] Funct3 = 7 -> Rs1 >= Rs2                      \* BGEU

(* Its messages take 4 off a program counter that has not moved yet.        *)
DoBranch ==
    /\ inst.op = "BRANCH"
    /\ \/ /\ inst.immd % 4 # 0 \/ Funct3 \in {2, 3}
          /\ Fail(Low32(pc - 4), pc, regs, memo)
       \/ /\ inst.immd % 4 = 0 /\ Funct3 \notin {2, 3}
          /\ Continue(IF Taken THEN Low32(pc + inst.immd) ELSE Next4)
          /\ UNCHANGED << regs, memo >>
    /\ UNCHANGED << mem, output >>

(* Fault: x0 is linked.                                                    *)
LinkedAlways == [regs EXCEPT ![inst.rd] = Next4]

Linked == IF inst.rd = 0 THEN regs ELSE [regs EXCEPT ![inst.rd] = Next4]

(* The link is written before rs1 is read, and before the target is tested. *)
JalrTarget == LET sum == Low32(Linked[inst.rs1] + inst.immd) IN sum - (sum % 2)

DoJalr ==
    /\ inst.op = "JALR"
    /\ \/ Funct3 # 0 /\ FailHere
       \/ Funct3 = 0 /\ JalrTarget % 4 # 0 /\ Fail(pc, pc, Linked, memo)
       \/ /\ Funct3 = 0 /\ JalrTarget % 4 = 0
          /\ regs' = Linked /\ Continue(JalrTarget) /\ UNCHANGED memo
    /\ UNCHANGED << mem, output >>

(* Fault: the immediate is not tested.                                     *)
DoJalUntested ==
    /\ inst.op = "JAL"
    /\ regs' = Linked
    /\ Continue(Low32(pc + inst.immd))
    /\ UNCHANGED << memo, mem, output >>

DoJal ==
    /\ inst.op = "JAL"
    /\ \/ inst.immd % 4 # 0 /\ FailHere
       \/ /\ inst.immd % 4 = 0
          /\ regs' = Linked
          /\ Continue(Low32(pc + inst.immd)) /\ UNCHANGED memo
    /\ UNCHANGED << mem, output >>

-----------------------------------------------------------------------------
GetByte(a) == mem[a]
GetHalf(a) == mem[a] * BYTE + mem[a + 1]
GetWord(a) == GetHalf(a) * BYTE * BYTE + GetHalf(a + 2)

BytesOf(funct3) == CASE funct3 \in {0, 4} -> 1 [] funct3 \in {1, 5} -> 2 [] funct3 = 2 -> 4

Loaded(a) ==
    CASE Funct3 = 0 -> SignExtend(GetByte(a), BYTE)
      [] Funct3 = 1 -> SignExtend(GetHalf(a), BYTE * BYTE)
      [] Funct3 = 2 -> GetWord(a)
      [] Funct3 = 4 -> GetByte(a)
      [] Funct3 = 5 -> GetHalf(a)

(* Fault: the bytes are stored twice, one copy after the other.            *)
StoredTwice(a, n, v) ==
    [ x \in DOMAIN mem |-> IF a =< x /\ x < a + 2 * n THEN ByteOf(v, (a + 2 * n - 1 - x) % n)
                                                      ELSE mem[x] ]

(* Bytes n of v from address a on, the most significant one first.          *)
Stored(a, n, v) ==
    [ x \in DOMAIN mem |-> IF a =< x /\ x < a + n THEN ByteOf(v, a + n - 1 - x) ELSE mem[x] ]

AccessAddr == Low32(Rs1 + inst.immd)

(* Only the first byte is looked up before the access; this message has the *)
(* address where others have the program counter, and no backtrace.         *)
OutOfBounds ==
    /\ OobAddr(iomaps, memo, AccessAddr)
    /\ state' = "error" /\ pc' = Next4 /\ UNCHANGED << memo, regs, report >>

(* The handler goes on with a funct3 it knows, or not.                      *)
Access(known) ==
    /\ ~OobAddr(iomaps, memo, AccessAddr)
    /\ Funct3 \in known /\ InBuffer(memo, AccessAddr, BytesOf(Funct3))
    /\ memo' = MemoAfter(iomaps, memo, AccessAddr)
    /\ Continue(Next4)

Overrun(known) ==
    /\ ~OobAddr(iomaps, memo, AccessAddr)
    /\ Funct3 \in known /\ ~InBuffer(memo, AccessAddr, BytesOf(Funct3))
    /\ Undefined

NoAccess(known) ==
    /\ ~OobAddr(iomaps, memo, AccessAddr) /\ Funct3 \notin known
    /\ Fail(pc, Next4, regs, MemoAfter(iomaps, memo, AccessAddr))

Loads  == {0, 1, 2, 4, 5}
Stores == {0, 1, 2}

DoLoad ==
    /\ inst.op = "LOAD"
    /\ \/ inst.rd = 0 /\ Ignore
       \/ /\ inst.rd # 0
          /\ \/ OutOfBounds
             \/ Access(Loads) /\ regs' = [regs EXCEPT ![inst.rd] = Loaded(AccessAddr)]
             \/ Overrun(Loads)
             \/ NoAccess(Loads)
    /\ UNCHANGED << mem, output >>

DoStore ==
    /\ inst.op = "STORE"
    /\ \/ OutOfBounds /\ UNCHANGED mem
       \/ /\ Access(Stores)
          /\ mem' = Stored(AccessAddr, BytesOf(Funct3), Rs2)
          /\ UNCHANGED regs
       \/ Overrun(Stores)
       \/ NoAccess(Stores) /\ UNCHANGED mem
    /\ UNCHANGED output

-----------------------------------------------------------------------------
(* The stub system calls                                                    *)
Exit == state' = "exit" /\ pc' = Next4 /\ UNCHANGED << regs, mem, memo, output, report >>

SystemIgnore == Ignore /\ UNCHANGED << mem, output >>

(* A register as a size_t: not one a buffer can have when negative.         *)
Count(n) == n < HALF

Write ==
    LET from == regs[a1]
        size == regs[a2]
        room == Contiguous(iomaps, memo, from, Low32(from + size - 1))
    IN  \/ size = 0 /\ SystemIgnore
        \/ /\ size # 0 /\ room.bytes = 0
           /\ Fail(pc, Next4, regs, room.memo) /\ UNCHANGED << mem, output >>
        \/ /\ size # 0 /\ room.bytes # 0
           /\ ~Count(size) \/ ~CopyDefined(iomaps, room.memo, from, size)
           /\ Undefined
        \/ /\ size # 0 /\ room.bytes # 0
           /\ Count(size) /\ CopyDefined(iomaps, room.memo, from, size)
           /\ LET buf == CopyFromGuest(iomaps, room.memo, mem, from, size, BYTE)
              IN  output' = output \o [ i \in 1 .. size |-> buf[i - 1] ]
           /\ memo' = Collect(iomaps, room.memo, from, size).memo
           /\ Continue(Next4) /\ UNCHANGED << regs, mem >>

(* scanf finds nothing at the end of its input; the debugger's prompt takes *)
(* an empty line, scanf does not.                                           *)
ReadNothing ==
    /\ ~debug
    /\ state' = "error" /\ pc' = Next4 /\ UNCHANGED << regs, mem, memo, output, report >>

(* Fault: as many bytes as were typed.                                     *)
ReadTyped(typed, asked) == typed

ReadCount(typed, asked) == IF typed < Signed(asked) THEN typed ELSE asked

ReadInput(input) ==
    LET to    == regs[a1]
        count == ReadCount(Len(input), regs[a2])
        room  == Contiguous(iomaps, memo, to, Low32(to + count))
        bytes == [ k \in 0 .. Len(input) - 1 |-> input[k + 1] ]
    IN  /\ debug \/ input # << >>
        /\ \/ /\ room.bytes = 0
              /\ Fail(pc, Next4, [regs EXCEPT ![a0] = count], room.memo)
              /\ UNCHANGED << mem, output >>
           \/ /\ room.bytes # 0
              /\ ~Count(count) \/ ~CopyDefined(iomaps, room.memo, to, count)
              /\ Undefined
           \/ /\ room.bytes # 0
              /\ Count(count) /\ CopyDefined(iomaps, room.memo, to, count)
              /\ regs' = [regs EXCEPT ![a0] = count]
              /\ mem' = CopyFromHost(iomaps, room.memo, mem, to, bytes, count)
              /\ memo' = Collect(iomaps, room.memo, to, count).memo
              /\ Continue(Next4) /\ UNCHANGED output

(* Fault: an unknown call returns 0.                                       *)
SystemFailZero ==
    Fail(pc, Next4, [regs EXCEPT ![a0] = 0], memo) /\ UNCHANGED << mem, output >>

SystemFail == FailBehind /\ UNCHANGED << mem, output >>

Ecall ==
    \/ regs[a0] = 0 /\ Exit
    \/ regs[a0] \in {1, 2} /\ noopstub /\ SystemIgnore
    \/ regs[a0] = 1 /\ ~noopstub /\ Write
    \/ regs[a0] = 2 /\ ~noopstub /\ (ReadNothing \/ \E input \in Inputs : ReadInput(input))
    \/ regs[a0] \notin {0, 1, 2} /\ SystemFail

(* The backtrace shows the instruction itself; then a key continues.        *)
Ebreak ==
    /\ Backtrace(memo, pc, regs, "fetch")
    /\ pc' = Next4 /\ UNCHANGED << regs, mem, output, report >>

Plain == Funct3 = 0 /\ inst.rd = 0 /\ inst.rs1 = 0

DoSystem ==
    /\ inst.op = "SYSTEM"
    /\ \/ Plain /\ inst.immd = 0 /\ Ecall
       \/ Plain /\ inst.immd = 1 /\ Ebreak
       \/ ~(Plain /\ inst.immd \in {0, 1}) /\ SystemFail

-----------------------------------------------------------------------------
Execute ==
    /\ state = "execute"
    /\ \/ DoOpImm \/ DoOp \/ DoUpper \/ DoMiscMem \/ DoNoImpl \/ DoUnassigned
       \/ DoBranch \/ DoJalr \/ DoJal
       \/ DoLoad \/ DoStore \/ DoSystem
    /\ inst' = NoInst
    /\ UNCHANGED << steps, fixed >>

Next == Fetch \/ Prompt \/ Execute

Spec == Init /\ [][Next]_vars

-----------------------------------------------------------------------------
Stopped == {"exit", "quit", "error", "undefined", "unlisted"}

TypeOK ==
    /\ cmd \in Cmdlines /\ debug \in BOOLEAN /\ noopstub \in BOOLEAN
    /\ state \in {"fetch", "prompt", "execute"} \cup Stopped
    /\ inst \in Inst /\ steps \in 0 .. MaxSteps
    /\ iomaps = TableOf(cmd) /\ memo \in DOMAIN iomaps
    /\ pc \in Addr /\ regs \in [Reg -> Addr]
    /\ mem \in [Mapped(iomaps) -> Byte]
    /\ output \in Seq(0 .. BYTE) /\ report \in SUBSET Addr

(* x0 reads as zero after any program: each handler that writes a register *)
(* has its own test on rd, and the system calls write to a0.               *)
ZeroRegister == regs[0] = 0

(* A program loaded at a multiple of 4 executes multiples of 4 only: every *)
(* jump is tested before it is taken, JALR on the sum and the others on    *)
(* the immediate, and what wraps stays aligned.                            *)
PcAligned == cmd.load_at % 4 = 0 => pc % 4 = 0

Executes(ops) == state = "execute" /\ inst.op \in ops

(* An error stops before the instruction has any effect: memory, output    *)
(* and registers are those it found, except for the link of a JALR to a    *)
(* misaligned target and the count of a read that has no room.             *)
ErrorsHaveNoEffect ==
    [][ state # "error" /\ state' = "error" =>
            /\ UNCHANGED << mem, output >>
            /\ regs' # regs =>
                  \/ Executes({"JALR"}) /\ regs' = Linked
                  \/ Executes({"SYSTEM"}) /\ regs[a0] = 2
                     /\ \A r \in Reg \ {a0} : regs'[r] = regs[r]
      ]_vars

(* Whether its handler has already moved the program counter or not, an    *)
(* error names that of the instruction; BRANCH alone names the one before. *)
ReportsFaultingPc ==
    [][ report' # report =>
            report' = IF Executes({"BRANCH"}) THEN {Low32(pc - 4)} ELSE {pc} ]_vars

Accesses ==
    \/ Executes({"LOAD"}) /\ inst.rd # 0 /\ Funct3 \in Loads
    \/ Executes({"STORE"}) /\ Funct3 \in Stores

(* A load or store is refused exactly when its first byte is not mapped,   *)
(* whatever the debugger's panels and the system calls left in the memo.   *)
RefusesUnmapped ==
    [][ Accesses => (state' = "error" <=> AccessAddr \notin Mapped(iomaps)) ]_vars

(* The executor leaves defined behaviour only through a word without an    *)
(* entry in the dispatch table, an access that is partly outside of the    *)
(* map of its first byte, or a buffer not inside one map; never because a  *)
(* fetch or a panel of the debugger reads past a map, if the program is    *)
(* aligned.                                                                *)
DefinedInsideMaps ==
    [][ state' = "undefined" /\ pc % 4 = 0 =>
            \/ Executes({"UNASSIGNED"})
            \/ Accesses /\ ~InOneMap(iomaps, AccessAddr, BytesOf(Funct3))
            \/ /\ Executes({"SYSTEM"})
               /\ \/ ~InOneMap(iomaps, regs[a1], regs[a2])
                  \/ ~ShortWalk(regs[a1], regs[a2])
      ]_vars

Calls(n) ==
    Executes({"SYSTEM"}) /\ Plain /\ inst.immd = 0 /\ regs[a0] = n /\ ~noopstub

(* The write call emits the bytes the guest holds from a1 on, a2 of them,  *)
(* when they lie in one map, wherever in it, and the walk over their pages *)
(* is shorter than the array of maps; nothing else emits.                  *)
WritesWhatIsThere ==
    [][ LET whole == InOneMap(iomaps, regs[a1], regs[a2]) /\ ShortWalk(regs[a1], regs[a2])
        IN  IF Calls(1) THEN whole => output' = output \o [ i \in 1 .. regs[a2] |-> mem[regs[a1] + i - 1] ]
                        ELSE output' = output ]_vars

(* The read call changes no byte outside the count it returns in a0, and   *)
(* that count is at most the one asked for.                                *)
ReadsNoMoreThanAsked ==
    [][ Calls(2) /\ mem' # mem =>
            /\ Signed(regs'[a0]) =< Signed(regs[a2])
            /\ \A x \in DOMAIN mem : mem'[x] # mem[x] =>
                  regs[a1] =< x /\ x < regs[a1] + regs'[a0] ]_vars

GuestMachineSpec ==
    INSTANCE GuestMachine WITH running <- state \notin Stopped,
                               Words <- WORD, Value <- 0 .. BYTE

(* With or without the debugger, its panels and its keys, a program has    *)
(* the effects of its instructions and nothing else: each changes at most  *)
(* a register, or bytes where it asked for it, or the output, and after a  *)
(* stop nothing changes.                                                   *)
ImplementsGuestMachine == GuestMachineSpec!Spec

-----------------------------------------------------------------------------
(* "Out of bounds access stops the emulation": of a load or store any byte *)
(* of which is not mapped.                                                 *)
OutOfBoundsStops ==
    [][ /\ Accesses
        /\ ~Backed(iomaps, AccessAddr, AccessAddr + BytesOf(Funct3))
        => state' = "error" ]_vars

(* "SRLI Fully implemented": zeros come in from the left.                  *)
SrliIsLogical ==
    [][ /\ Executes({"OPIMM"}) /\ inst.rd # 0
        /\ Funct3 = SRLSRA /\ Immd115(inst.immd) = 0
        => regs'[inst.rd] = Srl(Rs1, inst.immd) ]_vars

(* "JALR Fully implemented": it jumps to the address in rs1, rd or not.    *)
JalrJumpsToRs1 ==
    [][ /\ Executes({"JALR"}) /\ Funct3 = 0
        /\ Low32(Rs1 + inst.immd) % 4 = 0
        => state' = "fetch" /\ pc' = Low32(Rs1 + inst.immd) ]_vars
=============================================================================
