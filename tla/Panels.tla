------------------------------- MODULE Panels -------------------------------
(***************************************************************************)
(* One turn of the loop with --debug on a screen that is large enough: a   *)
(* word is fetched, the panels of code and of the frame are drawn, the     *)
(* word is dispatched.  Memory around the program counter and at the frame *)
(* is arbitrary: a guest may have put anything there.  What the look at it *)
(* does to the memo is in Hart.                                            *)
(***************************************************************************)
EXTENDS Mnemonics, SequencesExt

CONSTANTS
    Sources,      \* instructions as a programmer writes them
    Words,        \* other words the program counter may meet
    Surroundings, \* what is at each offset of the window but 0: {} if nothing
                  \* is mapped there, else the set of the word
    BEHIND,       \* rows of the window before the program counter,  8
    AHEAD,        \* and after it,                                  16
    HEIGHT,       \* RV32I_DISASSEMBLY_HEIGHT, 19 with the border
    FrameBytes,   \* what is at an address of the frame: {}, or the set of a byte
    COLUMNS,      \* bytes of a row of the memory dump, 8
    FRAME         \* bytes of the memory dump, 192

ASSUME SourcesAssumption ==
    /\ \A s \in Sources : s \in Source /\ Fits(s)
    /\ \A w \in Words : w \in Word

(* The format each handler parses *)
FormatOf(entry) ==
    CASE entry \in {"LOAD", "MISCMEM", "OPIMM", "JALR", "SYSTEM"} -> "I"
      [] entry \in {"AUIPC", "LUI"} -> "U"
      [] entry = "STORE"  -> "S"
      [] entry = "BRANCH" -> "B"
      [] entry = "JAL"    -> "J"
      [] entry = "OP"     -> "R"

(* The entry is a handler that parses the word.                            *)
Executable(entry) == entry \notin NoImpl \cup {"UNASSIGNED"}

(* Each is written in the format of its opcode. *)
ASSUME FormatAssumption ==
    \A s \in Sources : LET entry == Entry(Encoded(s))
                       IN  Executable(entry) => FormatOf(entry) = s.format

ASSUME WindowAssumption ==
    /\ {BEHIND, AHEAD, HEIGHT, FRAME} \subseteq Nat /\ COLUMNS \in Nat \ {0}
    /\ BEHIND + 1 =< HEIGHT - 2      \* the rows before the counter leave room for its own
    /\ \A around \in Surroundings :
         /\ around \in [ (-BEHIND .. AHEAD) \ {0} -> SUBSET Word ]
         /\ \A offset \in DOMAIN around : \A v, w \in around[offset] : v = w
    /\ FrameBytes \subseteq {{}} \cup { {b} : b \in 0 .. 255 }

VARIABLES
    stage,      \* "fetch", "disassembly", "dump", "dispatch", or how it ended
    word,       \* inst
    source,     \* {s} if the word is s assembled
    refused,    \* the word was refused before its handler
    param,      \* {p} when a handler has parsed the word
    lines,      \* the rows of the panel of code
    hex,        \* the bytes read for the row of the dump being drawn
    datastring, \* the buffer for its text, used again for every row
    rows,       \* rows of the dump drawn
    printed     \* {row} the last of them

vars == << stage, word, source, refused, param, lines, hex, datastring, rows, printed >>

dump == << hex, datastring, rows, printed >>

Column == 0 .. COLUMNS - 1
DOT == 46

Init ==
    /\ stage = "fetch" /\ word = {} /\ source = {} /\ refused = FALSE /\ param = {}
    /\ lines = << >> /\ hex = << >> /\ rows = 0 /\ printed = {}
    /\ datastring = [ k \in Column |-> 0 ]

-----------------------------------------------------------------------------
(* What the loop does with the word at the program counter before it draws *)
Meet(w) ==
    /\ stage = "fetch"
    /\ word' = w
    /\ refused' = (Verdict(w) \in {"INVALID", "UNSUPPORTED"})
    /\ stage' = IF Verdict(w) = "MALFORMED" THEN "error" ELSE "disassembly"
    /\ param' = {} /\ lines' = << >> /\ UNCHANGED dump

FetchAssembled == \E s \in Sources : Meet(Encoded(s)) /\ source' = {s}

FetchOther == \E w \in Words : Meet(w) /\ source' = {}

(* The program counter is out of the map *)
FetchNothing ==
    /\ stage = "fetch" /\ stage' = "error"
    /\ UNCHANGED << word, source, refused, param, lines, dump >>

-----------------------------------------------------------------------------
Row(offset, w, unset) == [at |-> offset, shown |-> Line(w, unset), cur |-> offset = 0]

(* Fault: the row of the program counter is counted, not compared.         *)
DrawRowCounted(memory, unset, drawn, offset) ==
    IF memory[offset] = {} THEN drawn
    ELSE Append(drawn, [Row(offset, CHOOSE w \in memory[offset] : TRUE, offset \in unset)
                          EXCEPT !.cur = Len(drawn) = BEHIND])

(* A pass of the loop: a word that is not mapped has no row.               *)
DrawRow(memory, unset, drawn, offset) ==
    IF memory[offset] = {} THEN drawn
    ELSE Append(drawn, Row(offset, CHOOSE w \in memory[offset] : TRUE, offset \in unset))

(* The offsets of the window in order                                      *)
Rows(memory, unset) ==
    FoldLeft(LAMBDA drawn, offset : DrawRow(memory, unset, drawn, offset), << >>,
             [ n \in 1 .. BEHIND + AHEAD + 1 |-> n - 1 - BEHIND ])

(* The rows for which srai is read without having been assigned            *)
LeftUnset(memory) ==
    { offset \in DOMAIN memory : \E w \in memory[offset] : Entry(w) = "LOAD" }

DrawDisassembly ==
    /\ stage = "disassembly"
    /\ \E around \in Surroundings :
         LET memory == [ offset \in -BEHIND .. AHEAD |->
                         IF offset = 0 THEN {word} ELSE around[offset] ]
             readable == \A offset \in DOMAIN memory : \A w \in memory[offset] : Listed(w)
         IN  \/ /\ readable /\ stage' = "dump"
                /\ \E unset \in SUBSET LeftUnset(memory) : lines' = Rows(memory, unset)
             \/ ~readable /\ stage' = "unlisted" /\ UNCHANGED lines
    /\ UNCHANGED << word, source, refused, param, dump >>

-----------------------------------------------------------------------------
(* Fault: one character too many is taken for a visible one.               *)
TextWithDelete(byte, before) ==
    IF byte # {} /\ byte \subseteq 32 .. 127 THEN CHOOSE b \in byte : TRUE ELSE DOT

(* Fault: a byte that is not mapped is skipped with its place in the text. *)
TextOfMapped(byte, before) ==
    IF byte = {} THEN before
    ELSE IF byte \subseteq 32 .. 126 THEN CHOOSE b \in byte : TRUE ELSE DOT

(* The character of a byte; what was in its place before does not matter   *)
Text(byte, before) ==
    IF byte # {} /\ byte \subseteq 32 .. 126 THEN CHOOSE b \in byte : TRUE ELSE DOT

DumpByte ==
    /\ stage = "dump" /\ rows * COLUMNS < FRAME
    /\ \E byte \in FrameBytes :
         LET k == Len(hex)
             text == [datastring EXCEPT ![k] = Text(byte, @)]
         IN  /\ datastring' = text
             /\ \/ k + 1 < COLUMNS /\ hex' = Append(hex, byte) /\ UNCHANGED << rows, printed >>
                \/ /\ k + 1 = COLUMNS
                   /\ printed' = {[hex |-> Append(hex, byte), text |-> text]}
                   /\ hex' = << >> /\ rows' = rows + 1
    /\ UNCHANGED << stage, word, source, refused, param, lines >>

(* The buffer is a local variable: the next call has a new one.            *)
EndDump ==
    /\ stage = "dump" /\ rows * COLUMNS >= FRAME
    /\ stage' = "dispatch"
    /\ rows' = 0 /\ printed' = {} /\ datastring' = [ k \in Column |-> 0 ]
    /\ UNCHANGED << word, source, refused, param, lines, hex >>

-----------------------------------------------------------------------------
(* The word is executed or reported.  A refusal has drawn the panels        *)
(* already; that of a handler draws them again, with nothing new.           *)
Dispatch ==
    /\ stage = "dispatch"
    /\ LET entry == Entry(word)
       IN  \/ /\ refused \/ entry \in NoImpl
              /\ stage' = "error" /\ UNCHANGED param
           \/ ~refused /\ entry = "UNASSIGNED" /\ stage' = "undefined" /\ UNCHANGED param
           \/ /\ ~refused /\ Executable(entry)
              /\ param' = {Parsed(FormatOf(entry), word)}
              /\ stage' = IF Reported(word) THEN "error" ELSE "fetch"
    /\ UNCHANGED << word, source, refused, lines, dump >>

Next == FetchAssembled \/ FetchOther \/ FetchNothing \/ DrawDisassembly
        \/ DumpByte \/ EndDump \/ Dispatch

Spec == Init /\ [][Next]_vars

-----------------------------------------------------------------------------
TypeOK ==
    /\ stage \in {"fetch", "disassembly", "dump", "dispatch", "error", "unlisted", "undefined"}
    /\ word \in Word /\ refused \in BOOLEAN
    /\ \A p \in param : p \in Param
    /\ hex \in Seq(FrameBytes) /\ Len(hex) < COLUMNS
    /\ datastring \in [Column -> 0 .. 126]

Drawn == stage = "dispatch"

Current == { j \in DOMAIN lines : lines[j].cur }

(* The shapes of an encoder of rv32i-macro.h and of the parser of the same  *)
(* format agree bit for bit: an instruction comes out of its handler's      *)
(* parser as it was written, the sign of its immediate included.            *)
RoundTrip == \A s \in source, p \in param : p = Meant(s)

(* Whatever is mapped around it, the instruction about to run has exactly   *)
(* one row, inside the border of the window, with its address and the mark. *)
CurrentShown ==
    Drawn => \E j \in Current : /\ Current = {j} /\ j =< HEIGHT - 2
                                /\ lines[j].at = 0

(* Executed, and not under its name in the panel: SUB and SRA, whose names  *)
(* the table has but looks for with a bit of an immediate that type R does  *)
(* not have, and a FENCE with a funct3.                                     *)
Misnamed(w) ==
    \/ Operation(w) \in {"sub", "sra"}
    \/ Operation(w) = "fence" /\ Funct3(w) # {}

(* What the panel says of an instruction that will be executed is what its  *)
(* handler does: its name, unless it is misnamed, its registers, and its    *)
(* immediate, which for a load may lack all but its low five bits.          *)
ShownAsExecuted ==
    (Drawn /\ ~refused /\ ~Reported(word) /\ ~Ignored(word) /\ ~Misnamed(word)) =>
        \A j \in Current :
            LET shown == lines[j].shown
                executed == Executed(word)
            IN  /\ shown.inst = executed.inst /\ shown.args = executed.args
                /\ \/ shown.immd = executed.immd
                   \/ Entry(word) = "LOAD" /\ shown.immd = {ParseI(word).immd \cap 0 .. 4}

(* An instruction that can be executed never takes the disassembler out of  *)
(* its tables: words that do are data or end the emulation when run.        *)
(* They do not have to be run: any word of the window is looked up.         *)
OnlyReportedUnlisted ==
    (Drawn \/ stage = "unlisted") => Listed(word) \/ Reported(word)

(* The text beside a row of the dump is that of the row's bytes, although   *)
(* the rows share one buffer and bytes that are not mapped skip a part of   *)
(* the loop.                                                                *)
DumpTruthful ==
    \A row \in printed : \A k \in Column :
        LET byte == row.hex[k + 1]
        IN  row.text[k] = IF \E b \in byte : b >= 32 /\ b < 127
                          THEN CHOOSE b \in byte : TRUE ELSE DOT

(* "Invalid or missing instructions are treated as emulation errors": every *)
(* word is executed or refused with an error.                               *)
InvalidIsError == stage # "undefined"
=============================================================================
