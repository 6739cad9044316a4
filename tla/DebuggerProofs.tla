--------------------------- MODULE DebuggerProofs ---------------------------
(***************************************************************************)
(* For any terminal sizes, any amount of output and any user: the debugger *)
(* knows the size of the window, an instruction runs only from panels that *)
(* show it, the panel holds what the guest has written and the input of a  *)
(* guest's read stays in its buffer.                                       *)
(***************************************************************************)
EXTENDS Debugger, TLAPS

(* A remainder of a number below the modulus is the number.                *)
LEMMA SmallRemainder ==
    ASSUME NEW w \in Nat \ {0}, NEW a \in 0 .. w - 1
    PROVE  a % w = a
BY SMT

(* The sum of an int that is not negative and a length below 2^31 is       *)
(* itself, or negative.                                                    *)
LEMMA SignedSum ==
    ASSUME NEW a \in 0 .. INT - 1, NEW n \in 0 .. INT - 1
    PROVE  IF a + n < INT THEN Signed(a + n) = a + n ELSE Signed(a + n) \in Int /\ Signed(a + n) < 0
<1>1. INT \in Nat \ {0}
  BY SizesAssumption
<1>2. (a + n) % (2 * INT) = a + n
  BY <1>1, SmallRemainder, SMT
<1> QED
  BY <1>1, <1>2, SMT DEF Signed

-----------------------------------------------------------------------------
(* Curses knows the window's size when no signal waits for it, and the      *)
(* debugger knows what curses knows when no guest's read has swallowed it.  *)
Told == (~signalled => stdscr = terminal) /\ (~missed => tui = stdscr)

(* Whatever sizes the window takes and wherever the program is when it      *)
(* takes them, the debugger lays its panels out for the one it has.         *)
THEOREM SizeKnownAlways == Spec => []SizeKnown
<1>1. Init => Told
  BY DEF Init, Told
<1>2. Told /\ [Next]_vars => Told'
  <2> SUFFICES ASSUME Told, [Next]_vars
               PROVE  Told'
    OBVIOUS
  <2>1. CASE InitNcurses
    BY <2>1 DEF InitNcurses, Told
  <2>2. CASE KeyResize
    BY <2>2 DEF KeyResize, TakeSignal, UpdateScreenDimensions, Told
  <2>3. CASE ReadUntilResize
    BY <2>3 DEF ReadUntilResize, TakeSignal, LineEnds, Told
  <2>4. CASE Resize
    BY <2>4 DEF Resize, program, Told
  <2>5. CASE UNCHANGED << signalled, terminal, stdscr, tui, missed >>
    BY <2>5 DEF Told
  <2>6. CASE Fetch \/ Refuse \/ Draw \/ EndOfInput \/ Execute \/ CopyInput \/ Leave
    BY <2>5, <2>6 DEF Fetch, Refuse, Draw, EndOfInput, Key, Execute, CopyInput, Leave
  <2>7. CASE Decide \/ OtherKey \/ ReadLine \/ Getchar
    BY <2>5, <2>7 DEF Decide, OtherKey, Key, ReadLine, LineEnds, Getchar
  <2>8. CASE CloseInput \/ UNCHANGED vars
    BY <2>5, <2>8 DEF CloseInput, vars, program
  <2> QED
    BY <2>1, <2>2, <2>3, <2>4, <2>6, <2>7, <2>8 DEF Next, Runs, Types
<1>3. Told => SizeKnown
  BY DEF Told, SizeKnown
<1> QED
  BY <1>1, <1>2, <1>3, PTL DEF Spec

-----------------------------------------------------------------------------
(* Only Write touches the output.                                          *)
LEMMA OutputByWrite ==
    ASSUME [Next]_vars
    PROVE  \/ UNCHANGED << out, written >>
           \/ Write
<1>1. CASE Execute
  BY <1>1 DEF Execute
<1>2. CASE Types
  BY <1>2 DEF Types, Decide, OtherKey, Key, ReadLine, ReadUntilResize, LineEnds, Getchar
<1>3. CASE Resize \/ CloseInput \/ UNCHANGED vars
  BY <1>3 DEF Resize, CloseInput, vars, program
<1> QED
  BY <1>1, <1>2, <1>3 DEF Next, Runs, InitNcurses, Fetch, Refuse, Draw, KeyResize, EndOfInput,
                          Key, CopyInput, Leave

(* What PanelHoldsOutput needs to be inductive is that the count is one of  *)
(* an int.                                                                 *)
Held == written \in Nat /\ PanelHoldsOutput

(* An append whose sum is an int puts the chunk behind the bytes before it. *)
LEMMA AppendHolds ==
    ASSUME Held, NEW n \in Nat, 0 < n, written + n < INT
    PROVE  CnstringAppend(out, Chunk(n)) =
             [string |-> [ i \in 1 .. written + n |-> i ], count |-> written + n]
<1>1. Chunk(n) \in [1 .. n -> Nat] /\ Chunk(n) \in Seq(Nat) /\ Len(Chunk(n)) = n
  BY DEF Chunk, Held
<1>2. out.count = written /\ out.string = [ i \in 1 .. written |-> i ]
  BY DEF Held, PanelHoldsOutput
<1>3. \A i \in 1 .. written + n :
        (IF i > out.count THEN Chunk(n)[i - out.count] ELSE out.string[i]) = i
  BY <1>2 DEF Held, Chunk
<1>4. [ i \in 1 .. written + n |->
          IF i > out.count THEN Chunk(n)[i - out.count] ELSE out.string[i] ]
      = [ i \in 1 .. written + n |-> i ]
  BY <1>3
<1> QED
  BY <1>1, <1>2, <1>4, Zenon DEF CnstringAppend

(* The panel's string is the guest's output while its count is an int.      *)
LEMMA HeldAlways == Spec => []Held
<1>1. Init => Held
  BY SizesAssumption DEF Init, Held, PanelHoldsOutput
<1>2. Held /\ [Next]_vars => Held'
  <2> SUFFICES ASSUME Held, [Next]_vars
               PROVE  Held'
    OBVIOUS
  <2>1. CASE UNCHANGED << out, written >>
    BY <2>1 DEF Held, PanelHoldsOutput
  <2>2. CASE Write
    <3>1. PICK n \in Lengths : LET amnt == Signed(out.count + n)
                               IN  \/ /\ amnt > 0
                                      /\ out' = CnstringAppend(out, Chunk(n))
                                      /\ written' = written + n
                                   \/ /\ amnt = 0
                                      /\ written' = written + n /\ UNCHANGED out
                                   \/ amnt < 0 /\ UNCHANGED << out, written >>
      BY <2>2 DEF Write
    <3>2. n \in Nat /\ 0 < n /\ n < INT /\ INT \in Nat
      BY SizesAssumption
    <3>3. out.count = written /\ written \in 0 .. INT - 1
      BY <3>2 DEF Held, PanelHoldsOutput
    <3>4. CASE written + n < INT
      <4>1. Signed(out.count + n) = written + n
        BY <3>2, <3>3, <3>4, SignedSum
      <4>2. out' = CnstringAppend(out, Chunk(n)) /\ written' = written + n
        BY <3>1, <3>2, <3>3, <4>1
      <4> QED
        BY <3>2, <3>3, <3>4, <4>2, AppendHolds DEF Held, PanelHoldsOutput
    <3>5. CASE ~(written + n < INT)
      <4>1. Signed(out.count + n) \in Int /\ Signed(out.count + n) < 0
        BY <3>2, <3>3, <3>5, SignedSum
      <4>2. UNCHANGED << out, written >>
        BY <3>1, <4>1
      <4> QED
        BY <4>2, <2>1
    <3> QED
      BY <3>4, <3>5
  <2> QED
    BY <2>1, <2>2, OutputByWrite
<1> QED
  BY <1>1, <1>2, PTL DEF Spec

(* However much the guest writes and in whatever pieces, the panel has all  *)
(* of it, until the sum is no int any more.                                *)
THEOREM PanelHoldsOutputAlways == Spec => []PanelHoldsOutput
<1>1. Held => PanelHoldsOutput
  BY DEF Held
<1> QED
  BY <1>1, HeldAlways, PTL

-----------------------------------------------------------------------------
(* A prompt is entered from Draw alone, and left for an instruction only    *)
(* with what Draw has drawn: a change of size leads back to Draw.           *)
Prompted == stage = "prompt" => shown = steps \/ Small(tui)

(* Whatever sizes the window takes while the prompt waits, an instruction  *)
(* runs only from panels that show it or on a screen that is too small.    *)
THEOREM RunsWhatIsShownAlways == Spec => RunsWhatIsShown
<1>1. Init => Prompted
  BY DEF Init, Prompted
<1>2. Prompted /\ [Next]_vars => Prompted'
  <2> SUFFICES ASSUME Prompted, [Next]_vars, stage' = "prompt"
               PROVE  shown' = steps' \/ Small(tui)'
    BY DEF Prompted
  <2>1. CASE Draw
    BY <2>1 DEF Draw, Backtrace, Small
  <2>2. CASE UNCHANGED << stage, shown, steps, tui >>
    BY <2>2 DEF Prompted, Small
  <2> QED
    BY <2>1, <2>2
       DEF Next, Runs, Types, InitNcurses, Fetch, FailBare, Refuse, Fail, Backtrace, KeyResize,
           Decide,
           OtherKey, EndOfInput, Key, Execute, Write, BeginRead, ReadLine, ReadUntilResize,
           LineEnds, CopyInput, Getchar, Leave, Resize, CloseInput, vars, program
<1>3. Prompted /\ [Next]_vars =>
        [stage # "execute" /\ stage' = "execute" => shown = steps \/ Small(tui)]_vars
  <2> SUFFICES ASSUME Prompted, [Next]_vars, stage # "execute", stage' = "execute"
               PROVE  stage = "prompt"
    BY DEF Prompted
  <2> QED
    BY DEF Next, Runs, Types, InitNcurses, Fetch, FailBare, Refuse, Fail, Backtrace, Draw,
           KeyResize, Decide,
           OtherKey, EndOfInput, Key, Execute, Write, BeginRead, ReadLine, ReadUntilResize,
           LineEnds, CopyInput, Getchar, Leave, Resize, CloseInput, vars, program
<1> QED
  BY <1>1, <1>2, <1>3, PTL DEF Spec, RunsWhatIsShown
-----------------------------------------------------------------------------
(* What is not about the output in TypeOK                                   *)
Places ==
    /\ stage \in {"init", "fetch", "refusing", "draw", "prompt", "execute", "input", "copy",
                  "pause", "pause again", "leaving"} \cup Stopped
    /\ kind \in Kinds /\ steps \in 0 .. MaxSteps /\ shown \in 0 .. steps
    /\ mode \in {"cooked", "curses"}
    /\ terminal \in Sizes /\ stdscr \in Sizes /\ tui \in Sizes

(* What the panels show is of an instruction that has been fetched.         *)
LEMMA BacktraceShows ==
    ASSUME NEW next, NEW before \in {"cooked", "curses"}, Backtrace(next, before),
           steps \in Nat, shown \in 0 .. steps
    PROVE  /\ stage' \in {next, "unlisted"} /\ shown' \in 0 .. steps
           /\ mode' \in {"cooked", "curses"}
BY DEF Backtrace

(* Every step keeps the cursor and the sizes where they belong.             *)
LEMMA PlacesKept ==
    ASSUME Places, [Next]_vars
    PROVE  Places'
<1> USE SizesAssumption DEF Stopped
<1>0. /\ steps \in Nat /\ shown \in 0 .. steps /\ mode \in {"cooked", "curses"}
      /\ "cooked" \in {"cooked", "curses"} /\ "curses" \in {"cooked", "curses"}
  <2>1. steps \in 0 .. MaxSteps /\ shown \in 0 .. steps /\ mode \in {"cooked", "curses"}
    BY DEF Places
  <2> QED
    BY <2>1
<1>1. CASE InitNcurses
  BY <1>1 DEF InitNcurses, Places
<1>2. CASE Fetch
  <2>1. steps' \in 0 .. MaxSteps /\ kind' \in Kinds
    BY <1>2, MaxSteps \in Nat DEF Fetch, Places
  <2>2. /\ stage' \in {"leaving", "refusing", "draw"} /\ mode' \in {"cooked", mode}
        /\ UNCHANGED << shown, terminal, stdscr, tui >>
    BY <1>2 DEF Fetch, FailBare
  <2>3. shown' \in 0 .. steps'
    BY <1>2, <2>2 DEF Fetch, Places
  <2> QED
    BY <2>1, <2>2, <2>3 DEF Places
<1>3. CASE Refuse
  BY <1>0, <1>3, BacktraceShows DEF Refuse, Fail, Places
<1>4. CASE Draw
  BY <1>0, <1>4, BacktraceShows DEF Draw, Places
<1>5. CASE KeyResize
  BY <1>5 DEF KeyResize, TakeSignal, UpdateScreenDimensions, Places
<1>6. CASE Decide \/ OtherKey \/ EndOfInput
  BY <1>6 DEF Decide, OtherKey, EndOfInput, Key, Places
<1>7. CASE Execute
  <2>1. UNCHANGED << kind, steps, stdscr, tui, terminal >>
    BY <1>7 DEF Execute
  <2>2. CASE stage' \in {"fetch", "too much output"} /\ UNCHANGED << mode, shown >>
    BY <2>1, <2>2 DEF Places
  <2>3. CASE BeginRead
    BY <2>1, <2>3 DEF BeginRead, FailBare, Places
  <2>4. CASE Backtrace("pause", mode)
    BY <1>0, <2>1, <2>4, BacktraceShows DEF Places
  <2>5. CASE FailBare
    BY <2>1, <2>5 DEF FailBare, Places
  <2>6. CASE Fail
    BY <1>0, <2>1, <2>6, BacktraceShows DEF Fail, Places
  <2> QED
    BY <1>7, <2>2, <2>3, <2>4, <2>5, <2>6 DEF Execute, Write
<1>8. CASE ReadLine \/ ReadUntilResize
  BY <1>8 DEF ReadLine, ReadUntilResize, LineEnds, TakeSignal, Places
<1>9. CASE CopyInput
  BY <1>0, <1>9, BacktraceShows DEF CopyInput, Fail, Places
<1>10. CASE Getchar
  BY <1>10 DEF Getchar, Places
<1>11. CASE Leave
  BY <1>11 DEF Leave, DestroyNcurses, Places
<1>12. CASE Resize
  BY <1>12 DEF Resize, program, Places
<1>13. CASE CloseInput \/ UNCHANGED vars
  BY <1>13 DEF CloseInput, vars, program, Places
<1> QED
  BY <1>1, <1>2, <1>3, <1>4, <1>5, <1>6, <1>7, <1>8, <1>9, <1>10, <1>11, <1>12, <1>13
     DEF Next, Runs, Types

(* Where the program is, what it knows of the terminal and how much it has  *)
(* written: the count is one of an int because PanelHoldsOutput holds.      *)
LEMMA PlacesAlways == Spec => []Places
<1>1. Init => Places
  BY SizesAssumption DEF Init, Places, Kinds
<1> QED
  BY <1>1, PlacesKept, PTL DEF Spec

(* Every variable keeps its type, the count of the panel's bytes that of an *)
(* int included, however much the guest writes.                             *)
THEOREM DebuggerTypeOK == Spec => []TypeOK
<1>1. Held => out.count \in 0 .. INT - 1 /\ written \in Nat
  BY SizesAssumption DEF Held, PanelHoldsOutput
<1>2. Places /\ Held => TypeOK
  BY <1>1, Zenon DEF Places, TypeOK
<1> QED
  BY <1>2, PlacesAlways, HeldAlways, PTL

-----------------------------------------------------------------------------
(* What InputInBuffer needs to be inductive: the debugger and curses know   *)
(* the same size, unless a guest's read has swallowed the news.             *)
Known == (~missed => tui = stdscr) /\ InputInBuffer

(* On a screen of a known size the panels fit, the input has a place on its *)
(* last row and room in the buffer.                                         *)
LEMMA KnownFits ==
    ASSUME Places, Known, ~missed, ~Small(tui)
    PROVE  InputFits /\ InputLen >= 0
<1>1. tui \in [rows : Nat \ {0}, cols : Nat \ {0}]
  BY SizesAssumption DEF Places
<1> QED
  BY <1>1, SizesAssumption DEF Known, Small, InputFits, InputLen

(* A line on that row ends before the byte behind it would leave the buffer. *)
LEMMA KnownLineEnds ==
    ASSUME Places, Known, ~missed, NEW n \in 0 .. InputLen, LineEnds(n)
    PROVE  stage' = "copy"
<1>1. tui \in [rows : Nat \ {0}, cols : Nat \ {0}] /\ tui = stdscr
  BY SizesAssumption DEF Places, Known
<1>2. n < tui.cols - LABEL - 2 /\ n \in Int /\ LABEL \in Nat
  BY <1>1, SizesAssumption DEF LineEnds, InputLen
<1> QED
  BY <1>1, <1>2 DEF LineEnds, InputLen

(* The input of a guest's read is inside its buffer on every screen the     *)
(* panels fit, for all sizes of it and any lines, unless a change of its    *)
(* size came while a guest was reading.                                     *)
THEOREM InputStaysInBuffer == Spec => []InputInBuffer
<1>1. Init => Known
  BY DEF Init, Known, InputInBuffer
<1>2. Places /\ Known /\ [Next]_vars => Known'
  <2> SUFFICES ASSUME Places, Known, [Next]_vars
               PROVE  Known'
    OBVIOUS
  <2>1. CASE InitNcurses
    BY <2>1 DEF InitNcurses, Known, InputInBuffer
  <2>2. CASE KeyResize
    BY <2>2 DEF KeyResize, UpdateScreenDimensions, Known, InputInBuffer
  <2>3. CASE ReadUntilResize
    BY <2>3 DEF ReadUntilResize, Known, InputInBuffer
  <2>4. CASE ReadLine
    <3>1. UNCHANGED << stdscr, tui, missed >>
      BY <2>4 DEF ReadLine
    <3>2. CASE missed
      BY <3>1, <3>2 DEF Known, InputInBuffer
    <3>3. CASE ~missed
      BY <2>4, <3>1, <3>3, KnownLineEnds DEF ReadLine, Known, InputInBuffer
    <3> QED
      BY <3>2, <3>3
  <2>5. CASE Execute
    <3>1. UNCHANGED << stdscr, tui, missed >>
      BY <2>5 DEF Execute
    <3>2. CASE stage' # "undefined"
      BY <3>1, <3>2 DEF Known, InputInBuffer
    <3>3. CASE stage' = "undefined"
      <4>1. BeginRead
        BY <2>5, <3>3 DEF Execute, Write, Fail, FailBare, Backtrace
      <4>2. ~(InputFits /\ InputLen >= 0)
        <5>1. tui.cols \in Nat /\ LABEL \in Nat
          BY SizesAssumption DEF Places
        <5> QED
          BY <3>3, <4>1, <5>1 DEF BeginRead, FailBare, InputFits, InputLen
      <4>3. missed \/ Small(tui)
        BY <4>2, KnownFits
      <4> QED
        BY <3>1, <4>3 DEF Known, InputInBuffer, Small
    <3> QED
      BY <3>2, <3>3
  <2>6. CASE UNCHANGED << stdscr, tui, missed >> /\ (stage' # "undefined" \/ UNCHANGED stage)
    BY <2>6 DEF Known, InputInBuffer, Small
  <2>7. CASE Fetch \/ Refuse \/ Draw \/ EndOfInput \/ CopyInput \/ Leave
    BY <2>6, <2>7 DEF Fetch, Refuse, Draw, EndOfInput, CopyInput, Leave, Key, Fail,
                         FailBare, Backtrace
  <2>8. CASE Decide \/ OtherKey \/ Getchar
    BY <2>6, <2>8 DEF Decide, OtherKey, Getchar, Key
  <2>9. CASE Resize \/ CloseInput \/ UNCHANGED vars
    BY <2>6, <2>9 DEF Resize, CloseInput, vars, program
  <2> QED
    BY <2>1, <2>2, <2>3, <2>4, <2>5, <2>7, <2>8, <2>9 DEF Next, Runs, Types
<1>3. Known => InputInBuffer
  BY DEF Known
<1> QED
  BY <1>1, <1>2, <1>3, PlacesAlways, PTL DEF Spec
=============================================================================
