------------------------------ MODULE Debugger ------------------------------
(***************************************************************************)
(* The terminal under --debug: rv32i_init_ncurses, the prompt before every *)
(* instruction, the input of a guest's read, the pause of EBREAK, errors,  *)
(* and rv32i_destroy_ncurses.  The guest is the kinds of instructions it   *)
(* may come to; the user types, resizes the window and closes the input at *)
(* any time.  Of curses the model has what the code relies on: it learns   *)
(* of a new size only when it reads a key, a refresh after endwin enters   *)
(* its mode again, and wgetnstr ends a line with a byte of its own.        *)
(***************************************************************************)
EXTENDS Integers, Sequences

CONSTANTS
    Sizes,        \* sizes of the terminal
    MINHEIGHT, MINWIDTH,
    LABEL,        \* length of " Guest input: "
    Lengths,      \* of the chunks a guest writes
    INT,          \* 2^31
    MaxSteps,     \* bound: instructions fetched
    MaxResizes    \* bound: changes of the window's size

ASSUME SizesAssumption ==
    /\ \A s \in Sizes : s \in [rows : Nat \ {0}, cols : Nat \ {0}]
    /\ {MINHEIGHT, MINWIDTH, LABEL, MaxSteps, MaxResizes} \subseteq Nat
    /\ LABEL + 2 < MINWIDTH
    /\ INT \in Nat \ {0} /\ \A n \in Lengths : n \in Nat /\ 0 < n /\ n < INT

VARIABLES
    stage,      \* where the program is
    kind,       \* the instruction at the program counter
    steps,      \* instructions fetched
    mode,       \* of the terminal: "cooked", or "curses"
    terminal,   \* its size
    signalled,  \* SIGWINCH has come and curses has not acted on it
    stdscr,     \* the size curses knows
    tui,        \* max_height and max_width
    missed,     \* the last change of size went to a guest's read
    shown,      \* the instruction the panels show, 0 if they show none
    out,        \* stdout_buf
    written,    \* bytes the guest has written
    open,       \* the input is not at its end
    resizes     \* changes of size so far

program == << stage, kind, steps, mode, stdscr, tui, missed, shown, out, written >>
vars == << program, terminal, signalled, open, resizes >>

Stopped == {"stopped", "undefined", "too much output", "unlisted"}
Kinds == {"plain", "write", "read", "ebreak", "exit", "fail", "refused", "unmapped"}

Small(size) == size.rows < MINHEIGHT \/ size.cols < MINWIDTH

Init ==
    /\ stage = "init" /\ kind = "plain" /\ steps = 0 /\ mode = "cooked"
    /\ terminal \in Sizes /\ signalled = FALSE /\ open = TRUE /\ resizes = 0
    /\ stdscr = terminal /\ tui = terminal /\ missed = FALSE
    /\ shown = 0 /\ out = [string |-> << >>, count |-> 0] /\ written = 0

(* curses_emerg_leave after a message, or the loop is entered *)
InitNcurses ==
    /\ stage = "init"
    /\ stdscr' = terminal /\ tui' = terminal
    /\ \/ stage' = "stopped" /\ UNCHANGED mode          \* no colours
       \/ stage' = "stopped" /\ Small(terminal) /\ UNCHANGED mode
       \/ stage' = "fetch" /\ ~Small(terminal) /\ mode' = "curses"
    /\ UNCHANGED << kind, steps, missed, shown, out, written, terminal, signalled, open, resizes >>

-----------------------------------------------------------------------------
(* rv32i_backtrace: on a small screen it returns before the refresh.  On    *)
(* another one any word of the window may be one the disassembler has no    *)
(* entry for: what it reads instead is of any type, and for one it does not *)
(* know it ends the process, without endwin and before the refresh.         *)
Backtrace(next, modeBefore) ==
    \/ Small(tui) /\ stage' = next /\ shown' = 0 /\ mode' = modeBefore
    \/ ~Small(tui) /\ stage' = next /\ shown' = steps /\ mode' = "curses"
    \/ ~Small(tui) /\ stage' = "unlisted" /\ UNCHANGED shown /\ mode' = modeBefore

(* A message calls endwin before it prints; then the panels are drawn.     *)
Fail == Backtrace("leaving", "cooked")

(* A message without the panels *)
FailBare == stage' = "leaving" /\ mode' = "cooked" /\ UNCHANGED shown

Fetch ==
    /\ stage = "fetch" /\ steps < MaxSteps
    /\ steps' = steps + 1 /\ kind' \in Kinds
    /\ \/ kind' = "unmapped" /\ FailBare
       \/ kind' = "refused" /\ stage' = "refusing" /\ UNCHANGED << mode, shown >>
       \/ kind' \notin {"unmapped", "refused"} /\ stage' = "draw" /\ UNCHANGED << mode, shown >>
    /\ UNCHANGED << stdscr, tui, missed, out, written, terminal, signalled, open, resizes >>

Refuse ==
    /\ stage = "refusing" /\ Fail
    /\ UNCHANGED << kind, steps, stdscr, tui, missed, out, written, terminal, signalled, open, resizes >>

(* The head of the prompt's loop; wgetch refreshes the screen in any case. *)
Draw ==
    /\ stage = "draw" /\ Backtrace("prompt", "curses")
    /\ UNCHANGED << kind, steps, stdscr, tui, missed, out, written, terminal, signalled, open, resizes >>

(* Fault: the debugger keeps the size it has started with.                 *)
UpdateScreenDimensionsNot(size) == tui

(* rv32i_debugger_tui_update_screen_dimensions *)
UpdateScreenDimensions(size) == size

(* Curses acts on the signal when it reads a key, and answers KEY_RESIZE.  *)
TakeSignal == signalled /\ signalled' = FALSE /\ stdscr' = terminal

(* Fault: the loop waits for a key before it draws the new size.           *)
KeyResizeWaits ==
    /\ stage = "prompt" /\ TakeSignal
    /\ tui' = UpdateScreenDimensions(stdscr') /\ missed' = FALSE
    /\ UNCHANGED << stage, kind, steps, mode, shown, out, written, terminal, open, resizes >>

KeyResize ==
    /\ stage = "prompt" /\ TakeSignal
    /\ tui' = UpdateScreenDimensions(stdscr') /\ missed' = FALSE
    /\ stage' = "draw"
    /\ UNCHANGED << kind, steps, mode, shown, out, written, terminal, open, resizes >>

(* A key: only RV32I_TUI_COMMAND_NEXT and RV32I_TUI_COMMAND_QUIT count.    *)
Key(to) ==
    /\ stage = "prompt" /\ stage' = to
    /\ UNCHANGED << kind, steps, mode, stdscr, tui, missed, shown, out, written,
                    terminal, signalled, open, resizes >>

(* Fault: both keys are taken for others.                                  *)
DecideUnheard == open /\ Key("draw")

Decide == open /\ (Key("execute") \/ Key("leaving"))

OtherKey == open /\ Key("draw")

EndOfInput == ~open /\ Key("draw")      \* ERR, now and ever after

-----------------------------------------------------------------------------
(* Fault: the sum stays a size_t.                                          *)
SignedWide(n) == n

(* An int *)
Signed(n) == LET low == n % (2 * INT) IN IF low < INT THEN low ELSE low - 2 * INT

(* Fault: the count stays what it was.                                     *)
AppendUncounted(a, b) ==
    [ string |-> [ i \in 1 .. a.count + Len(b) |->
                      IF i > a.count THEN b[i - a.count] ELSE a.string[i] ],
      count  |-> a.count ]

(* rv32i_cnstring_append_rcnstr, if the memory is there: realloc to the     *)
(* sum, memcpy behind the first count bytes.                                *)
CnstringAppend(a, b) ==
    [ string |-> [ i \in 1 .. a.count + Len(b) |->
                      IF i > a.count THEN b[i - a.count] ELSE a.string[i] ],
      count  |-> a.count + Len(b) ]

(* Each byte written is the number of its place in the whole output.       *)
Chunk(n) == [ i \in 1 .. n |-> written + i ]

(* A negative sum becomes a size no realloc can give; the copy goes to the  *)
(* NULL it returns.                                                         *)
Write ==
    \E n \in Lengths :
        LET amnt == Signed(out.count + n)
        IN  \/ /\ amnt > 0
               /\ stage' = "fetch" /\ out' = CnstringAppend(out, Chunk(n))
               /\ written' = written + n
            \/ /\ amnt = 0
               /\ stage' = "fetch" /\ written' = written + n /\ UNCHANGED out
            \/ amnt < 0 /\ stage' = "too much output" /\ UNCHANGED << out, written >>

(* Fault: the buffer has room for what can be seen, and no more.           *)
InputLenVisible == tui.cols - LABEL - 3

InputLen == tui.cols - LABEL        \* int inputlen

(* mvgetnstr can move to the place of the input.                           *)
InputFits == tui.rows =< stdscr.rows /\ LABEL + 2 < stdscr.cols

(* Without a place nothing is read: a NULL buffer is an error, another one  *)
(* is measured although no one has written it.                              *)
BeginRead ==
    \/ ~InputFits /\ InputLen < 0 /\ FailBare
    \/ ~InputFits /\ InputLen >= 0 /\ stage' = "undefined" /\ UNCHANGED << mode, shown >>
    \/ InputFits /\ InputLen < 0 /\ stage' = "undefined" /\ UNCHANGED << mode, shown >>
    \/ InputFits /\ InputLen >= 0 /\ stage' = "input" /\ UNCHANGED << mode, shown >>

Execute ==
    /\ stage = "execute"
    /\ \/ kind = "plain" /\ stage' = "fetch" /\ UNCHANGED << mode, shown, out, written >>
       \/ kind = "write" /\ Write /\ UNCHANGED << mode, shown >>
       \/ kind = "read" /\ BeginRead /\ UNCHANGED << out, written >>
       \/ kind = "ebreak" /\ Backtrace("pause", mode) /\ UNCHANGED << out, written >>
       \/ kind = "exit" /\ FailBare /\ UNCHANGED << out, written >>
       \/ kind = "fail" /\ Fail /\ UNCHANGED << out, written >>
    /\ UNCHANGED << kind, steps, stdscr, tui, missed, terminal, signalled, open, resizes >>

(* A line of n characters.  On the last row of the screen they end before   *)
(* its corner; higher up they go on in the rows below.                      *)
LineEnds(n) ==
    /\ n =< InputLen
    /\ tui.rows = stdscr.rows => n < stdscr.cols - LABEL - 2
    /\ \/ n < InputLen /\ stage' = "copy"
       \/ n = InputLen /\ stage' = "undefined"     \* the byte that ends it
    /\ UNCHANGED << kind, steps, mode, shown, out, written, terminal, open, resizes >>

(* Enter, or the end of the input *)
ReadLine ==
    /\ stage = "input"
    /\ \E n \in 0 .. InputLen : LineEnds(n)
    /\ UNCHANGED << stdscr, tui, missed, signalled >>

(* KEY_RESIZE ends the line as well; the result of mvgetnstr is ignored.    *)
ReadUntilResize ==
    /\ stage = "input" /\ TakeSignal /\ missed' = TRUE
    /\ \E n \in 0 .. InputLen : LineEnds(n)
    /\ UNCHANGED tui

(* The guest's buffer is in the map or not.                                *)
CopyInput ==
    /\ stage = "copy"
    /\ \/ stage' = "fetch" /\ UNCHANGED << mode, shown >>
       \/ Fail
    /\ UNCHANGED << kind, steps, stdscr, tui, missed, out, written, terminal, signalled, open, resizes >>

(* if (getchar() == '\n') getchar(); at the end of the input both return.   *)
Getchar ==
    /\ stage \in {"pause", "pause again"}
    /\ \/ stage = "pause" /\ open /\ stage' = "pause again"
       \/ stage' = "fetch"
    /\ UNCHANGED << kind, steps, mode, stdscr, tui, missed, shown, out, written,
                    terminal, signalled, open, resizes >>

(* rv32i_destroy_ncurses: the panel's string is freed, endwin               *)
DestroyNcurses == "cooked"

Leave ==
    /\ stage = "leaving" /\ stage' = "stopped" /\ mode' = DestroyNcurses
    /\ UNCHANGED << kind, steps, stdscr, tui, missed, shown, out, written,
                    terminal, signalled, open, resizes >>

-----------------------------------------------------------------------------
Resize ==
    /\ stage \notin Stopped \cup {"init"} /\ resizes < MaxResizes
    /\ terminal' \in Sizes \ {terminal} /\ signalled' = TRUE
    /\ resizes' = resizes + 1
    /\ UNCHANGED << program, open >>

CloseInput ==
    /\ stage \notin Stopped /\ open /\ open' = FALSE
    /\ UNCHANGED << program, terminal, signalled, resizes >>

(* What the program does by itself, and what a closed input answers         *)
Runs == InitNcurses \/ Fetch \/ Refuse \/ Draw \/ KeyResize \/ EndOfInput \/ Execute
        \/ CopyInput \/ Leave

Types == Decide \/ OtherKey \/ ReadLine \/ ReadUntilResize \/ Getchar

Next == Runs \/ Types \/ Resize \/ CloseInput

(* One thread goes on when it can.  The user answers a prompt that comes    *)
(* back again and again with one of its two keys.                           *)
Fairness == WF_vars(Runs) /\ SF_vars(Decide)

Spec == Init /\ [][Next]_vars

FairSpec == Spec /\ Fairness

-----------------------------------------------------------------------------
Sized == [rows : Nat, cols : Nat]

TypeOK ==
    /\ stage \in {"init", "fetch", "refusing", "draw", "prompt", "execute", "input", "copy",
                  "pause", "pause again", "leaving"} \cup Stopped
    /\ kind \in Kinds /\ steps \in 0 .. MaxSteps /\ shown \in 0 .. steps
    /\ mode \in {"cooked", "curses"}
    /\ terminal \in Sizes /\ stdscr \in Sizes /\ tui \in Sizes
    /\ out.count \in 0 .. INT - 1 /\ written \in Nat

(* The size the panels are laid out for, which is copied from curses at one *)
(* place only, is the window's: but from a change to the next key that is   *)
(* read, and from a change that ends a guest's read, whose KEY_RESIZE is    *)
(* ignored, to the next one.                                                *)
SizeKnown == signalled \/ missed \/ tui = terminal

(* The panel holds every byte the guest has written, once and in order, for *)
(* as long as their number is an int; then the process stops.               *)
PanelHoldsOutput ==
    /\ out.string = [ i \in 1 .. written |-> i ] /\ out.count = written
    /\ written < INT

(* An instruction runs only from a prompt whose panels show it, or on a     *)
(* screen the debugger takes for too small to show anything.                *)
RunsWhatIsShown ==
    [][stage # "execute" /\ stage' = "execute" => shown = steps \/ Small(tui)]_vars

(* The input of a guest's read stays in its buffer, the byte that ends it   *)
(* included, and is read before it is measured, on any screen the panels    *)
(* fit and whose size the debugger knows.                                   *)
InputInBuffer == stage = "undefined" => missed \/ Small(tui)

(* A prompt, however often the window is resized and other keys are         *)
(* pressed, is left while the input is open; at its end it spins.           *)
PromptAnswered ==
    (stage = "prompt") ~> (stage \notin {"prompt", "draw"} \/ ~open)
=============================================================================
