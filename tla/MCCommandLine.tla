---------------------------- MODULE MCCommandLine ----------------------------
(***************************************************************************)
(* Numbers for CommandLine.  With HALF = 16, SIZET = 128 and PAGE = 4 they *)
(* hold, of addresses: aligned ones, ones aligned to a block only, odd     *)
(* ones, negative ones and ones beyond 32 bits; of sizes in KiB: none, one *)
(* page, ones of which 32 bits lose all, or keep a page, or make negative. *)
(***************************************************************************)
EXTENDS CommandLine

MCNumbers == {-7, -1, 0, 1, 2, 3, 5, 8, 9, 16, 30, 33, 34, 67}
=============================================================================
