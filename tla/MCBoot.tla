------------------------------- MODULE MCBoot -------------------------------
(***************************************************************************)
(* Numbers for Boot.  With HALF = 16, SIZET = 128, PAGE = 4 and BLOCK = 2  *)
(* they hold as addresses aligned and unaligned ones and a negative one,   *)
(* as sizes in KiB one page, two, one that loses all bits above 32 but a   *)
(* page, one that loses all it has, and two that turn negative.            *)
(***************************************************************************)
EXTENDS Boot

MCNumbers == {-1, 0, 1, 2, 4, 6, 8, 9}
=============================================================================
