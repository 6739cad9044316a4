----------------------------- MODULE MCDebugger -----------------------------
(***************************************************************************)
(* Terminals for Debugger: one that just fits the panels, a larger one, a  *)
(* wide one that is too low, one with no place for a guest's input, and    *)
(* one narrower than the label of the input.                               *)
(***************************************************************************)
EXTENDS Debugger

Size(rows, cols) == [rows |-> rows, cols |-> cols]

MCSizes == {Size(3, 6), Size(4, 11), Size(2, 11), Size(3, 4), Size(3, 1)}
=============================================================================
